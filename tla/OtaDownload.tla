---------------------------- MODULE OtaDownload ----------------------------
(***************************************************************************)
(* An update check from the trigger to the reset: ota_task and             *)
(* check_and_update of skylights-app (ota/mod.rs) with their transport     *)
(* (ota/transport.rs), the head parser, the update session and, at the     *)
(* other end, the server whose files deploy.sh changes meanwhile.  A check *)
(* makes three requests, each over a connection of its own, whose reads    *)
(* return any number of units.                                             *)
(*                                                                         *)
(* The otadata side of a commit is OtaBoot's; here a commit boots the slot *)
(* that was written, and the next check writes the other one.              *)
(***************************************************************************)
EXTENDS HttpHead, OtaSession, Release

CONSTANTS
  ReadChunk,   \* READ_CHUNK, in units
  VersionMax,  \* VERSION_MAX_BYTES
  ShaMax,      \* SHA_MAX_BYTES
  UsizeRange,  \* 2^32: usize has 32 bits, a content length 64
  MaxFaults    \* bound: faults of the network, the server, the script and flash

ASSUME DownloadAssumption ==
  /\ ReadChunk \in Nat \ {0} /\ VersionMax \in Nat /\ ShaMax \in Nat
  /\ UsizeRange \in Nat \ {0} /\ MaxFaults \in Nat
  /\ \A b \in Builds : ImageSizes[b] <= SlotSize

VARIABLES
  pc,       \* where ota_task is
  want,     \* the file it requests
  remote,   \* the version the version file named
  expected, \* the build whose digest the .sha256 holds
  conn,     \* the connection: what is left of the head, and the open file
  parser, leftover, text,
  trigger,  \* OTA_TRIGGER
  running,  \* the version that runs and the slot it was booted from
  faults,
  calm      \* history: since the last trigger nothing failed or was deployed

fetchVars == <<pc, want, remote, expected, conn, parser, leftover, text>>
vars == <<fetchVars, sessionVars, releaseVars, trigger, running, faults, calm>>

None == 0

NoConn ==
  [head |-> <<>>, body |-> <<>>, at |-> 0, size |-> 0, file |-> "none",
   version |-> Factory, linked |-> FALSE]

EmptySlot == [c \in Cells |-> Blank]

Init ==
  /\ ReleaseInit
  /\ pc = "wait" /\ want = "version" /\ remote = Factory /\ expected = None
  /\ conn = NoConn /\ parser = NewParser /\ leftover = <<>> /\ text = <<>>
  /\ slot = EmptySlot /\ length = 0 /\ hasher = <<>> /\ staged = <<>> /\ sector = 0
  /\ trigger = TRUE
  /\ running = [version |-> Factory,
                cells |-> [c \in Cells |-> IF c < ImageSizes[1] THEN Image(1)[c + 1] ELSE Blank]]
  /\ faults = 0
  /\ calm = TRUE

-----------------------------------------------------------------------------
(* The server                                                              *)

VersionText(v) ==
  (IF v < 10 THEN <<Unit("digit", v)>>
             ELSE <<Unit("digit", v \div 10), Unit("digit", v % 10)>>)
  \o <<LF>>

\* A version file that was cut short may name a version that was never published.
FileOf(file, v) ==
  CASE file = "version" -> File(VersionText(named), TRUE)
    [] file # "version" /\ v \notin Versions -> NoFile
    [] file = "sha256" /\ v \in Versions -> shas[v]
    [] file = "bin" /\ v \in Versions -> bins[v]

CRLF == <<CR, LF>>

HeadOf(status, n) ==
  <<Unit("status", status), CR, LF, Unit("length", n), CR, LF, CR, LF>>

\* The size of the page that comes with an error.
ErrorPage == 1

\* The answer of a server that works.
Response(file, v) ==
  LET f == FileOf(file, v)
      n == IF f.exists /\ f.readable THEN Len(f.data) ELSE ErrorPage
  IN  [NoConn EXCEPT
         !.head = HeadOf(IF ~f.exists THEN 404 ELSE IF f.readable THEN 200 ELSE 403, n),
         !.body = f.data, !.size = n, !.file = file, !.version = v,
         !.linked = f.exists /\ f.readable]

\* Heads of a server or proxy that does not: another status, a coding, none or
\* two lengths, a line that is no header, a head that does not end, and lengths
\* other than the size of the body: zero, one, one more, one beyond the slot and
\* one beyond the range of usize.
OddHeads(n) ==
  LET Of(fields) == <<Unit("status", 200), LF>> \o fields \o <<LF>>
  IN  {HeadOf(200, m) : m \in {0, 1, n + 1, SlotSize + 1, UsizeRange + 1}} \cup
      {HeadOf(500, n),
       Of(<<Unit("chunked", 0), LF>>), Of(<<>>), Of(<<Unit("text", 0), LF>>),
       Of(<<Unit("length", n), LF, Unit("length", n), LF>>),
       [i \in 1..(MaxHead + 1) |-> Unit("field", 0)]}

\* What the connection will still deliver: a file that shrank ends it early.
Wire ==
  conn.head \o SubSeq(conn.body, conn.at + 1, Min({conn.size, Len(conn.body)}))

\* The connection after k more units have been read.
Read(k) ==
  [conn EXCEPT
     !.head = SubSeq(@, k + 1, Len(@)),
     !.at = @ + (IF k > Len(conn.head) THEN k - Len(conn.head) ELSE 0)]

\* A file that is open when it is uploaded again is read as it is now, and one
\* that is deleted or replaced as it was.
Followed ==
  LET f == IF conn.file = "bin" THEN bins'[conn.version] ELSE shas'[conn.version]
  IN  IF conn.linked /\ conn.file \in {"bin", "sha256"}
        THEN IF f.exists THEN [conn EXCEPT !.body = f.data]
                         ELSE [conn EXCEPT !.linked = FALSE]
        ELSE conn

-----------------------------------------------------------------------------
(* The device                                                              *)

Ok == UNCHANGED <<faults, calm>>

Fault == faults < MaxFaults /\ faults' = faults + 1 /\ calm' = FALSE

Device == UNCHANGED <<releaseVars, running>>

\* check_and_update returns: its connection, buffers and session are gone.
Return ==
  /\ pc' = "wait" /\ want' = "version" /\ remote' = Factory /\ expected' = None
  /\ conn' = NoConn /\ parser' = NewParser /\ leftover' = <<>> /\ text' = <<>>

GiveUp == Return /\ EndSession /\ UNCHANGED slot

Wake ==
  /\ pc = "wait" /\ trigger
  /\ trigger' = FALSE
  /\ pc' = "connect"
  /\ UNCHANGED <<want, remote, expected, conn, parser, leftover, text, sessionVars>>
  /\ Device /\ Ok

\* open and the request; get starts with a new parser.
Connected(answer) ==
  /\ pc = "connect"
  /\ pc' = "head"
  /\ conn' = answer
  /\ parser' = NewParser /\ leftover' = <<>> /\ text' = <<>>
  /\ UNCHANGED <<want, remote, expected, sessionVars, trigger>>
  /\ Device

Connect == Connected(Response(want, remote)) /\ Ok

ConnectOdd ==
  /\ \E head \in OddHeads(Response(want, remote).size) :
       Connected([Response(want, remote) EXCEPT !.head = head])
  /\ Fault

\* A length of 64 bits, cast to usize.
AsUsize(n) == n % UsizeRange

TextMax == IF want = "version" THEN VersionMax ELSE ShaMax

\* What check_and_update goes on with: a 200 whose length is in bounds.  (Only a
\* 404 comes without a length.)
HeadUsable(p) ==
  /\ p.status = 200
  /\ IF want = "bin" THEN ~Oversize(p.length) ELSE AsUsize(p.length) <= TextMax

\* What follows a complete head: read_small takes what was read with it, and an
\* image starts a session.
HeadComplete(p, rest) ==
  \/ /\ HeadUsable(p) /\ want # "bin"
     /\ pc' = "text" /\ length' = AsUsize(p.length)
     /\ text' = SubSeq(rest, 1, Min({Len(rest), AsUsize(p.length)}))
     /\ leftover' = <<>> /\ parser' = p
     /\ UNCHANGED <<want, remote, expected, slot, hasher, staged, sector>>
  \/ /\ HeadUsable(p) /\ want = "bin"
     /\ pc' = "body" /\ StartSession(p.length)
     /\ leftover' = rest /\ parser' = p
     /\ UNCHANGED <<want, remote, expected, text>>
  \/ ~HeadUsable(p) /\ GiveUp

\* Mutant: a read that returns nothing is tried again.
EndOfStreamNever == FALSE

EndOfStream == Wire = <<>>

\* One read of get, which feeds the parser until it is done.
ReadHead ==
  /\ pc = "head"
  /\ \/ EndOfStream /\ GiveUp
     \/ \E k \in 1..Min({ReadChunk, Len(Wire)}) :
          LET units == SubSeq(Wire, 1, k)
              p     == Feed(parser, units)
          IN  \/ /\ p.event = "more"
                 /\ parser' = p /\ conn' = Read(k)
                 /\ UNCHANGED <<pc, want, remote, expected, leftover, text, sessionVars>>
              \/ /\ p.event = "complete"
                 /\ HeadComplete(p, Leftover(parser, units))
                 /\ pc' # "wait" => conn' = Read(k)
              \/ /\ p.event \notin {"more", "complete"} /\ GiveUp
  /\ UNCHANGED trigger
  /\ Device /\ Ok

\* Mutant: the text is not trimmed.
DigitsUntrimmed(units) == units

\* parse_version and parse_sha256_hex trim the text at both ends.
Digits(units) ==
  LET kept == {i \in DOMAIN units : units[i] \notin {CR, LF}}
  IN  IF kept = {} THEN <<>> ELSE SubSeq(units, Min(kept), Max(kept))

ParseVersion(units) ==
  LET value[i \in 0..Len(Digits(units))] ==
        IF i = 0 THEN 0 ELSE 10 * value[i - 1] + Digits(units)[i].n
  IN  value[Len(Digits(units))]

IsVersion(units) ==
  Digits(units) # <<>> /\ \A i \in DOMAIN Digits(units) : Digits(units)[i].kind = "digit"

\* All of the digest, or nothing.
IsSha(units) == Len(Digits(units)) = 1 /\ Digits(units)[1].kind = "digest"

\* read_small, which stops at the end of the stream, and what is done with the
\* text: decide skips the version that runs.
ReadText ==
  /\ pc = "text"
  /\ \/ /\ Len(text) < length
        /\ \E k \in 1..Min({length - Len(text), Len(Wire)}) :
             /\ text' = text \o SubSeq(Wire, 1, k)
             /\ conn' = Read(k)
        /\ UNCHANGED <<pc, want, remote, expected, parser, leftover, sessionVars>>
     \/ /\ Len(text) = length \/ EndOfStream
        /\ \/ /\ want = "version"
              /\ IsVersion(text) /\ ParseVersion(text) # running.version
              /\ pc' = "connect" /\ want' = "sha256" /\ remote' = ParseVersion(text)
              /\ UNCHANGED expected
           \/ /\ want = "sha256" /\ IsSha(text)
              /\ pc' = "connect" /\ want' = "bin" /\ expected' = Digits(text)[1].n
              /\ UNCHANGED remote
        /\ conn' = NoConn /\ parser' = NewParser /\ leftover' = <<>> /\ text' = <<>>
        /\ EndSession /\ UNCHANGED slot
     \/ /\ Len(text) = length \/ EndOfStream
        /\ \/ want = "version"
              /\ (~IsVersion(text) \/ ParseVersion(text) = running.version)
           \/ want = "sha256" /\ ~IsSha(text)
        /\ GiveUp
  /\ UNCHANGED trigger
  /\ Device /\ Ok

\* HttpBody: what was read with the head comes first.
Available == IF leftover # <<>> THEN leftover ELSE Wire

\* A read of the body, hashed and handed to the flasher; the end of the stream
\* before the end of the body is TooShort.
ReadBody ==
  /\ pc = "body" /\ ~BodyComplete
  /\ \/ /\ leftover # <<>>
        /\ LET k == Min({Wanted, Len(leftover)})
           IN  /\ Consume(SubSeq(leftover, 1, k))
               /\ leftover' = SubSeq(leftover, k + 1, Len(leftover))
        /\ UNCHANGED <<pc, want, remote, expected, conn, parser, text>>
     \/ /\ leftover = <<>>
        /\ \E k \in 1..Min({Wanted, Len(Wire)}) :
             Consume(SubSeq(Wire, 1, k)) /\ conn' = Read(k)
        /\ UNCHANGED <<pc, want, remote, expected, parser, leftover, text>>
     \/ leftover = <<>> /\ EndOfStream /\ GiveUp
  /\ UNCHANGED trigger
  /\ Device /\ Ok

\* Mutant: the digest is not looked at.
DigestMatchesAlways == TRUE

DigestMatches == hasher = Image(expected)

Mismatch ==
  /\ pc = "body" /\ BodyComplete /\ ~DigestMatches
  /\ Abort /\ Return
  /\ UNCHANGED trigger
  /\ Device /\ Ok

\* The digest matches: mark_updated flushes the rest.
Commit ==
  /\ pc = "body" /\ BodyComplete /\ DigestMatches
  /\ FlushRest
  /\ pc' = "mark"
  /\ UNCHANGED <<want, remote, expected, conn, parser, leftover, text, trigger>>
  /\ Device /\ Ok

\* It marks the slot and the chip is reset: the slot boots, and main raises the
\* trigger.  From now on the passive slot is the one that ran before.
Restart ==
  /\ pc = "mark"
  /\ running' = [version |-> remote, cells |-> slot]
  /\ slot' = running.cells /\ EndSession /\ Return
  /\ trigger' = TRUE
  /\ UNCHANGED releaseVars
  /\ Ok

Step == Wake \/ Connect \/ ReadHead \/ ReadText \/ ReadBody \/ Mismatch \/ Commit \/ Restart

\* The next step of the session flushes the buffer.
FlushDue ==
  /\ pc = "body"
  /\ IF BodyComplete THEN DigestMatches /\ staged # <<>>
     ELSE Len(staged) + Min({Wanted, Len(Available)}) >= SectorSize

\* DNS, connect, handshake, a write or a read fails or times out, or a flash
\* operation fails: the check ends.
StepFails ==
  /\ pc # "wait"
  /\ \/ EndSession /\ UNCHANGED slot
     \/ FlushDue /\ FlushFails
  /\ Return
  /\ UNCHANGED trigger
  /\ Device /\ Fault

\* The server or the network ends the connection.
ClosedEarly ==
  /\ pc \in {"head", "text", "body"} /\ Wire # <<>>
  /\ conn' = [conn EXCEPT !.head = <<>>, !.size = conn.at]
  /\ UNCHANGED <<pc, want, remote, expected, parser, leftover, text, sessionVars, trigger>>
  /\ Device /\ Fault

\* A reset at any instant, before, after or in the middle of a flush.
PowerCut ==
  /\ \/ EndSession /\ UNCHANGED slot
     \/ FlushDue /\ FlushFails
  /\ Return
  /\ trigger' = TRUE
  /\ Device /\ Fault

-----------------------------------------------------------------------------

Deploying ==
  /\ \/ (\E v \in Versions : StartDeploy(v)) /\ calm' = FALSE /\ UNCHANGED faults
     \/ (Upload \/ Publish) /\ Ok
     \/ DeployFails /\ Fault
  /\ conn' = Followed
  /\ UNCHANGED <<pc, want, remote, expected, parser, leftover, text,
                 sessionVars, trigger, running>>

\* skylight/reset reaches the device, or does not.
Trigger ==
  /\ SendTrigger
  /\ \/ trigger' = TRUE /\ calm' = TRUE /\ UNCHANGED faults
     \/ UNCHANGED trigger /\ Fault
  /\ UNCHANGED <<fetchVars, sessionVars, running>>

Next == Step \/ ConnectOdd \/ StepFails \/ ClosedEarly \/ PowerCut \/ Deploying \/ Trigger

Spec == Init /\ [][Next]_vars

\* Every await of a check has a timeout, and the executor polls the task.
FairSpec == Spec /\ WF_vars(Step)

-----------------------------------------------------------------------------
(* Properties                                                              *)

TypeOK ==
  /\ pc \in {"wait", "connect", "head", "text", "body", "mark"}
  /\ want \in {"version", "sha256", "bin"}
  /\ expected \in Builds \cup {None}
  /\ parser.total \in 0..MaxHead /\ Len(leftover) < ReadChunk
  /\ Len(text) <= length /\ Len(hasher) <= length
  /\ Len(staged) < SectorSize /\ sector * SectorSize <= SlotSize
  /\ named \in Versions /\ deploy.step \in Steps
  /\ \A v \in Versions : Len(bins[v].data) <= SlotSize
  /\ faults \in 0..MaxFaults

\* The body reaches the hasher from its first unit on, in order: what was read
\* with the head is neither lost nor read twice.
BodyInOrder ==
  pc = "body" => Len(hasher) + Len(leftover) = conn.at

\* Whatever is published, pruned or published again while a check runs, and
\* whatever the network does, the device boots only whole images of builds that
\* were published under the version it believes to run, and nothing but erased
\* flash follows in the last sector.
RunsPublishedImage ==
  \E b \in DOMAIN built :
    /\ built[b] = running.version
    /\ \A c \in Cells :
         /\ c < ImageSizes[b] => running.cells[c] = Image(b)[c + 1]
         /\ c >= ImageSizes[b] /\ c \div SectorSize = (ImageSizes[b] - 1) \div SectorSize =>
              running.cells[c] = Blank

\* Every check ends.
CheckEnds == (pc # "wait") ~> (pc = "wait")

\* A release is picked up: once its trigger has arrived and nothing fails any
\* more, the device ends up running the version that is named.
ReleasePickedUp == calm ~> (running.version = named \/ ~calm)

=============================================================================
