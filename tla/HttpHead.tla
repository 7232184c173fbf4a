------------------------------ MODULE HttpHead ------------------------------
(***************************************************************************)
(* The HTTP/1.0 response head parser of skylights-core (ota/http.rs).      *)
(* Bytes are abstracted to units: the text of a line is one unit that says *)
(* what the line parses to, CR and LF are units of their own.  The parser  *)
(* is a record and Push the step it takes on one unit.                     *)
(***************************************************************************)
EXTENDS Units, Integers, Sequences, SequencesExt

CONSTANT MaxHead  \* MAX_HEAD_BYTES, in units

ASSUME HeadAssumption == MaxHead \in Nat \ {0}

NoLength == -1

NewParser ==
  [state |-> "status", event |-> "more", line |-> <<>>, total |-> 0,
   status |-> 0, length |-> NoLength, chunked |-> FALSE]

Reject(p, error) == [p EXCEPT !.state = "done", !.event = error]

\* A line that holds one unit of the given kind.
IsLine(line, kind) == Len(line) = 1 /\ line[1].kind = kind

\* Mutant: a second length replaces the first.
HeaderLastLengthWins(p, line) ==
  CASE IsLine(line, "length")  -> [p EXCEPT !.length = line[1].n]
    [] IsLine(line, "chunked") -> [p EXCEPT !.chunked = TRUE]
    [] IsLine(line, "field")   -> p
    [] OTHER                   -> Reject(p, "malformed_header")

WithoutCR(line) == IF line # <<>> /\ Last(line) = CR THEN Front(line) ELSE line

\* parse_header, and what push does with the update: a line without a colon and
\* a length that is no u64 are malformed, other names are skipped.
Header(p, line) ==
  CASE IsLine(line, "length") ->
         IF p.length # NoLength THEN Reject(p, "duplicate_content_length")
                                ELSE [p EXCEPT !.length = line[1].n]
    [] IsLine(line, "chunked") -> [p EXCEPT !.chunked = TRUE]
    [] IsLine(line, "field")   -> p
    [] OTHER                   -> Reject(p, "malformed_header")

StatusAccepted(status) == status \in 200..299 \/ status = 404

\* finish: only a 404 may go without a length.
Finish(p) ==
  IF p.chunked THEN Reject(p, "transfer_encoding")
  ELSE IF ~StatusAccepted(p.status) THEN Reject(p, "unexpected_status")
  ELSE IF p.length = NoLength /\ p.status # 404 THEN Reject(p, "missing_content_length")
  ELSE [p EXCEPT !.state = "done", !.event = "complete"]

EndOfLine(p, line) ==
  CASE p.state = "status" ->
         IF IsLine(line, "status")
           THEN [p EXCEPT !.state = "headers", !.status = line[1].n]
           ELSE Reject(p, "malformed_status")
    [] p.state = "headers" /\ line = <<>> -> Finish(p)
    [] p.state = "headers" /\ line # <<>> -> Header(p, line)

Oversized(p) == p.total > MaxHead

\* push.  A terminal event stays.  (A line can not outgrow its buffer: the
\* buffer is as long as the whole head may be.)
Push(p, unit) ==
  LET counted == [p EXCEPT !.total = @ + 1]
  IN  IF p.event # "more" THEN p
      ELSE IF Oversized(counted) THEN Reject(counted, "oversized_header")
      ELSE IF unit # LF THEN [counted EXCEPT !.line = Append(@, unit)]
      ELSE EndOfLine([counted EXCEPT !.line = <<>>], WithoutCR(p.line))

\* The parser after each of the units, from none on.
Fed(p, units) ==
  LET fed[i \in 0..Len(units)] == IF i = 0 THEN p ELSE Push(fed[i - 1], units[i])
  IN  fed

\* get feeds every byte it read until the event is terminal.
Feed(p, units) == Fed(p, units)[Len(units)]

\* Mutant: the unit that ends the head is taken for body.
LeftoverByOne(p, units) ==
  SubSeq(units, Feed(p, units).total - p.total, Len(units))

\* The units of a chunk that push did not count are body.
Leftover(p, units) ==
  SubSeq(units, 1 + Feed(p, units).total - p.total, Len(units))

-----------------------------------------------------------------------------
(* The reference definition                                                *)

\* A head as the server writes it: lines, each the units of its text.
Stream(lines, ending) == FlattenSeq([i \in DOMAIN lines |-> lines[i] \o ending])

\* What RFC 7230 and the contract of the update server accept, whatever order
\* the headers come in: one status line, well-formed headers, one length (or a
\* 404), no transfer coding, then an empty line, all within the limit.
Acceptable(lines, size) ==
  /\ size <= MaxHead
  /\ Len(lines) >= 2
  /\ IsLine(lines[1], "status") /\ StatusAccepted(lines[1][1].n)
  /\ lines[Len(lines)] = <<>>
  /\ \A i \in 2..(Len(lines) - 1) : IsLine(lines[i], "length") \/ IsLine(lines[i], "field")
  /\ LET lengths == {i \in 2..Len(lines) : IsLine(lines[i], "length")}
     IN  \/ \E i \in lengths : lengths = {i}
         \/ lengths = {} /\ lines[1][1].n = 404

\* The parser completes exactly the acceptable heads, at their last unit, and
\* reports the status and the length they declare.  Fed to the end of the head
\* or with body after it makes no difference: what follows is left over.
ParserAgreesOn(lines, ending, body) ==
  LET head == Stream(lines, ending)
      p    == Feed(NewParser, head \o body)
  IN  (\A i \in 1..(Len(lines) - 1) : i > 1 => lines[i] # <<>>) =>
      /\ (p.event = "complete" /\ p.total = Len(head)) <=> Acceptable(lines, Len(head))
      /\ Acceptable(lines, Len(head)) =>
           /\ p.status = lines[1][1].n
           /\ \A i \in 2..Len(lines) : IsLine(lines[i], "length") => p.length = lines[i][1].n
           /\ Leftover(NewParser, head \o body) = body

=============================================================================
