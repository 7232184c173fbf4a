--------------------------- MODULE HttpHeadProofs ---------------------------
(***************************************************************************)
(* What feeding the head parser does, whatever it is fed: lemmas about     *)
(* Push and Feed, by induction over the units.                             *)
(***************************************************************************)
EXTENDS HttpHead, SequenceTheorems, WellFoundedInduction, TLAPS

\* Induction over the naturals, for a property that is given as a set.
LEMMA SetInduction ==
  ASSUME NEW S, 0 \in S, \A n \in Nat : n \in S => n + 1 \in S
  PROVE  Nat \subseteq S
<1> DEFINE T == Nat \ S
<1> SUFFICES ASSUME T # {} PROVE FALSE
  OBVIOUS
<1>1. PICK m \in T : \A n \in T : ~(<<n, m>> \in OpToRel(<, Nat))
  <2>1. IsWellFoundedOn(OpToRel(<, Nat), Nat)
    BY NatLessThanWellFounded
  <2>. QED
    BY <2>1, WFMin
<1>2. \A n \in T : ~(n < m)
  BY <1>1 DEF OpToRel
<1>3. m # 0 /\ m - 1 \in Nat /\ m - 1 < m /\ (m - 1) + 1 = m
  OBVIOUS
<1>4. m - 1 \in S
  BY <1>2, <1>3
<1>. QED
  BY <1>3, <1>4

\* What units are, and a parser that has been fed only units.
Kinds == {"cr", "lf", "status", "length", "chunked", "field", "text",
          "digit", "digest", "image"}
UnitSet == [kind : Kinds, n : Nat, at : Nat]
Streams == Seq(UnitSet)

Errors == {"malformed_status", "malformed_header", "duplicate_content_length",
           "transfer_encoding", "unexpected_status", "missing_content_length",
           "oversized_header"}

ParserSet ==
  [state : {"status", "headers", "done"}, event : {"more", "complete"} \cup Errors,
   line : Streams, total : Nat, status : Nat, length : Nat \cup {NoLength},
   chunked : BOOLEAN]

LEMMA LineEndUnits == CR \in UnitSet /\ LF \in UnitSet
  BY DEF CR, LF, Unit, UnitSet, Kinds

LEMMA NewParserType == NewParser \in ParserSet
<1>1. <<>> \in Streams
  BY EmptySeq DEF Streams
<1>. QED
  BY <1>1 DEF NewParser, ParserSet, Errors

LEMMA RejectType ==
  ASSUME NEW p \in ParserSet, NEW error \in Errors
  PROVE  /\ Reject(p, error) \in ParserSet
         /\ Reject(p, error).event = error /\ Reject(p, error).total = p.total
  BY DEF Reject, ParserSet, Errors

\* A parser that asks for more is inside the head; one that is complete has
\* accepted the status and has a length, unless the status is a 404.
Sound(p) ==
  /\ p \in ParserSet
  /\ p.event = "more" => p.state # "done"
  /\ p.event = "complete" => StatusAccepted(p.status) /\ (p.status # 404 => p.length \in Nat)

\* What one line does to the parser: it stays sound and keeps the count.
Judged(p, q) == Sound(q) /\ q.total = p.total

LEMMA ErrorsApart == "more" \notin Errors /\ "complete" \notin Errors
  BY DEF Errors

LEMMA RejectJudged ==
  ASSUME NEW p \in ParserSet, NEW error \in Errors
  PROVE  Judged(p, Reject(p, error))
  BY RejectType, ErrorsApart DEF Judged, Sound

LEMMA HeaderJudged ==
  ASSUME NEW p \in ParserSet, p.event = "more", p.state # "done",
         NEW line \in Streams
  PROVE  Judged(p, Header(p, line))
<1>1. CASE IsLine(line, "length")
  <2>1. line[1] \in UnitSet /\ line[1].n \in Nat
    <3>1. 1 \in 1..Len(line)
      BY <1>1 DEF IsLine
    <3>2. line[1] \in UnitSet
      BY <3>1, ElementOfSeq DEF Streams
    <3>. QED
      BY <3>2 DEF UnitSet
  <2>2. Judged(p, [p EXCEPT !.length = line[1].n])
    BY <2>1, ErrorsApart DEF Judged, Sound, ParserSet
  <2>3. Judged(p, Reject(p, "duplicate_content_length"))
    BY RejectJudged DEF Errors
  <2>. QED
    BY <1>1, <2>2, <2>3 DEF Header, IsLine
<1>2. CASE IsLine(line, "chunked")
  <2>1. Judged(p, [p EXCEPT !.chunked = TRUE])
    BY ErrorsApart DEF Judged, Sound, ParserSet
  <2>. QED
    BY <1>2, <2>1 DEF Header, IsLine
<1>3. CASE IsLine(line, "field")
  <2>1. Judged(p, p)
    BY ErrorsApart DEF Judged, Sound, ParserSet
  <2>. QED
    BY <1>3, <2>1 DEF Header, IsLine
<1>4. CASE ~IsLine(line, "length") /\ ~IsLine(line, "chunked") /\ ~IsLine(line, "field")
  <2>1. Judged(p, Reject(p, "malformed_header"))
    BY RejectJudged DEF Errors
  <2>. QED
    BY <1>4, <2>1 DEF Header
<1>. QED
  BY <1>1, <1>2, <1>3, <1>4

LEMMA FinishJudged ==
  ASSUME NEW p \in ParserSet, p.event = "more"
  PROVE  /\ Judged(p, Finish(p))
         /\ Finish(p).event # "more"
<1>1. /\ Judged(p, Reject(p, "transfer_encoding"))
      /\ Judged(p, Reject(p, "unexpected_status"))
      /\ Judged(p, Reject(p, "missing_content_length"))
  BY RejectJudged DEF Errors
<1>2. /\ Reject(p, "transfer_encoding").event # "more"
      /\ Reject(p, "unexpected_status").event # "more"
      /\ Reject(p, "missing_content_length").event # "more"
  BY RejectType, ErrorsApart DEF Errors
<1>3. ASSUME StatusAccepted(p.status), p.length # NoLength \/ p.status = 404
      PROVE  /\ Judged(p, [p EXCEPT !.state = "done", !.event = "complete"])
             /\ [p EXCEPT !.state = "done", !.event = "complete"].event # "more"
  BY <1>3, ErrorsApart DEF Judged, Sound, ParserSet
<1>. QED
  BY <1>1, <1>2, <1>3 DEF Finish

LEMMA WithoutCRType ==
  ASSUME NEW line \in Streams
  PROVE  WithoutCR(line) \in Streams
<1>1. CASE line # <<>>
  <2>1. Front(line) \in Streams
    <3>1. Len(line) \in Nat /\ \A i \in 1..(Len(line) - 1) : line[i] \in UnitSet
      BY LenProperties, ElementOfSeq DEF Streams
    <3>. QED
      BY <3>1, SubSeqProperties DEF Streams, Front
  <2>. QED
    BY <2>1 DEF WithoutCR
<1>. QED
  BY <1>1 DEF WithoutCR

LEMMA EndOfLineJudged ==
  ASSUME NEW p \in ParserSet, p.event = "more", p.state # "done", NEW line \in Streams
  PROVE  Judged(p, EndOfLine(p, line))
<1>1. CASE p.state = "status"
  <2>1. CASE IsLine(line, "status")
    <3>1. 1 \in 1..Len(line)
      BY <2>1 DEF IsLine
    <3>2. line[1] \in UnitSet
      BY <3>1, ElementOfSeq DEF Streams
    <3>3. Judged(p, [p EXCEPT !.state = "headers", !.status = line[1].n])
      BY <3>2, ErrorsApart DEF Judged, Sound, ParserSet, UnitSet
    <3>. QED
      BY <1>1, <2>1, <3>3 DEF EndOfLine
  <2>2. CASE ~IsLine(line, "status")
    <3>1. Judged(p, Reject(p, "malformed_status"))
      BY RejectJudged DEF Errors
    <3>. QED
      BY <1>1, <2>2, <3>1 DEF EndOfLine
  <2>. QED
    BY <2>1, <2>2
<1>2. CASE p.state = "headers"
  BY <1>2, FinishJudged, HeaderJudged DEF EndOfLine
<1>. QED
  BY <1>1, <1>2 DEF ParserSet

\* One unit: a parser that asked for more counts it, and is over when the count
\* passes the limit; any other stays as it is.
Within(p) == p.event \in {"more", "complete"} => p.total <= MaxHead

LEMMA PushStep ==
  ASSUME NEW p, Sound(p), NEW unit \in UnitSet
  PROVE  /\ Sound(Push(p, unit))
         /\ p.event # "more" => Push(p, unit) = p
         /\ p.event = "more" => Push(p, unit).total = p.total + 1
         /\ Within(p) => Within(Push(p, unit))
<1>1. CASE p.event # "more"
  BY <1>1 DEF Push
<1>2. CASE p.event = "more"
  <2> DEFINE counted == [p EXCEPT !.total = @ + 1]
  <2>1. /\ counted \in ParserSet /\ counted.total = p.total + 1
        /\ counted.event = "more" /\ counted.state # "done"
    BY <1>2 DEF Sound, ParserSet
  <2>2. CASE Oversized(counted)
    <3>1. Push(p, unit) = Reject(counted, "oversized_header")
      BY <1>2, <2>2 DEF Push
    <3>. HIDE DEF counted
    <3>2. Judged(counted, Push(p, unit)) /\ Push(p, unit).event = "oversized_header"
      <4>1. "oversized_header" \in Errors
        BY DEF Errors
      <4>2. /\ Judged(counted, Reject(counted, "oversized_header"))
            /\ Reject(counted, "oversized_header").event = "oversized_header"
        BY <2>1, <4>1, RejectJudged, RejectType
      <4>. QED
        BY <3>1, <4>2
    <3>. QED
      BY <1>2, <2>1, <3>2 DEF Judged, Within
  <2>3. CASE ~Oversized(counted) /\ unit # LF
    <3>1. Push(p, unit) = [counted EXCEPT !.line = Append(@, unit)]
      BY <1>2, <2>3 DEF Push
    <3>2. Append(p.line, unit) \in Streams
      BY AppendProperties DEF Streams, Sound, ParserSet
    <3>3. Sound(Push(p, unit)) /\ Push(p, unit).total = p.total + 1
      BY <1>2, <2>1, <3>1, <3>2 DEF Sound, ParserSet
    <3>. QED
      BY <1>2, <2>1, <2>3, <3>3, HeadAssumption DEF Within, Oversized, Sound, ParserSet
  <2>4. CASE ~Oversized(counted) /\ unit = LF
    <3> DEFINE clean == [counted EXCEPT !.line = <<>>]
    <3>1. Push(p, unit) = EndOfLine(clean, WithoutCR(p.line))
      BY <1>2, <2>4 DEF Push
    <3>2. /\ clean \in ParserSet /\ clean.total = p.total + 1
          /\ clean.event = "more" /\ clean.state # "done"
      BY <2>1, EmptySeq DEF Streams, ParserSet
    <3>3. WithoutCR(p.line) \in Streams
      BY WithoutCRType DEF Sound, ParserSet
    <3>. HIDE DEF clean
    <3>4. Judged(clean, Push(p, unit))
      BY <3>1, <3>2, <3>3, EndOfLineJudged
    <3>. QED
      BY <1>2, <2>1, <2>4, <3>2, <3>4, HeadAssumption DEF Judged, Within, Oversized, ParserSet
  <2>. QED
    BY <2>2, <2>3, <2>4
<1>. QED
  BY <1>1, <1>2

-----------------------------------------------------------------------------
(* Feed                                                                    *)

\* Fed is the function its recursion describes: there is one.
LEMMA FedDef ==
  ASSUME NEW p, NEW units \in Streams
  PROVE  Fed(p, units) =
           [i \in 0..Len(units) |-> IF i = 0 THEN p ELSE Push(Fed(p, units)[i - 1], units[i])]
<1> DEFINE Steps(g, n) == g = [i \in 0..n |-> IF i = 0 THEN p ELSE Push(g[i - 1], units[i])]
           S == {n \in Nat : \E g : Steps(g, n)}
<1>1. 0 \in S
  <2>1. Steps([i \in {0} |-> p], 0)
    OBVIOUS
  <2>. QED
    BY <2>1
<1>2. ASSUME NEW n \in Nat, n \in S
      PROVE  n + 1 \in S
  <2>1. PICK g : Steps(g, n)
    BY <1>2
  <2> DEFINE h == [i \in 0..(n + 1) |-> IF i = n + 1 THEN Push(g[n], units[n + 1]) ELSE g[i]]
  <2>2. \A i \in 0..(n + 1) : h[i] = IF i = 0 THEN p ELSE Push(h[i - 1], units[i])
    BY <2>1
  <2>3. Steps(h, n + 1)
    BY <2>2
  <2>. HIDE DEF h, Steps
  <2>. QED
    BY <2>3
<1>. HIDE DEF S
<1>3. Nat \subseteq S
  BY <1>1, <1>2, SetInduction
<1>4. Len(units) \in Nat
  BY LenProperties
<1>5. \E g : Steps(g, Len(units))
  BY <1>3, <1>4 DEF S
<1>. QED
  BY <1>5 DEF Fed

LEMMA FedAt ==
  ASSUME NEW p, NEW units \in Streams
  PROVE  /\ Fed(p, units)[0] = p
         /\ \A i \in 1..Len(units) : Fed(p, units)[i] = Push(Fed(p, units)[i - 1], units[i])
<1>1. Len(units) \in Nat
  BY LenProperties
<1>. QED
  BY <1>1, FedDef

\* Up to any point a sound parser stays sound and within the limit; as long as it
\* asks for more it has counted every unit, and it counts no unit it is not fed.
LEMMA FedFacts ==
  ASSUME NEW p, Sound(p), NEW units \in Streams, NEW i \in 0..Len(units)
  PROVE  /\ Sound(Fed(p, units)[i])
         /\ Within(p) => Within(Fed(p, units)[i])
         /\ Fed(p, units)[i].total \in p.total..(p.total + i)
         /\ Fed(p, units)[i].event = "more" => Fed(p, units)[i].total = p.total + i
         /\ p.event = "more" /\ i > 0 => Fed(p, units)[i].total > p.total
<1> DEFINE Holds(j) == /\ Sound(Fed(p, units)[j])
                       /\ Within(p) => Within(Fed(p, units)[j])
                       /\ Fed(p, units)[j].total \in p.total..(p.total + j)
                       /\ Fed(p, units)[j].event = "more" => Fed(p, units)[j].total = p.total + j
                       /\ p.event = "more" /\ j > 0 => Fed(p, units)[j].total > p.total
           S == {j \in Nat : j <= Len(units) => Holds(j)}
<1>1. p.total \in Nat /\ Len(units) \in Nat
  BY LenProperties DEF Sound, ParserSet
<1>2. 0 \in S
  BY <1>1, FedAt
<1>3. ASSUME NEW j \in Nat, j \in S
      PROVE  j + 1 \in S
  <2>. SUFFICES ASSUME j + 1 <= Len(units)
                PROVE  Holds(j + 1)
    OBVIOUS
  <2> DEFINE q == Fed(p, units)[j]
  <2>1. Holds(j) /\ j + 1 \in 1..Len(units)
    BY <1>1, <1>3
  <2>2. units[j + 1] \in UnitSet
    BY <2>1, ElementOfSeq DEF Streams
  <2>3. Fed(p, units)[j + 1] = Push(q, units[j + 1])
    BY <2>1, FedAt
  <2>4. Sound(q) /\ q.total \in Nat
    BY <2>1 DEF Sound, ParserSet
  <2>. HIDE DEF q
  <2>5. /\ Sound(Push(q, units[j + 1]))
        /\ q.event # "more" => Push(q, units[j + 1]) = q
        /\ q.event = "more" => Push(q, units[j + 1]).total = q.total + 1
        /\ Within(q) => Within(Push(q, units[j + 1]))
    BY <2>2, <2>4, PushStep
  <2>6. Within(p) => Within(Push(q, units[j + 1]))
    BY <2>1, <2>5 DEF q
  <2>7. /\ q.total \in p.total..(p.total + j)
        /\ q.event = "more" => q.total = p.total + j
        /\ p.event = "more" /\ j > 0 => q.total > p.total
        /\ j = 0 => q = p
    BY <2>1, FedAt DEF q
  <2>. DEFINE r == Push(q, units[j + 1])
  <2>. HIDE DEF r
  <2>8. /\ q.event # "more" => r = q
        /\ q.event = "more" => r.total = q.total + 1
    BY <2>5 DEF r
  <2>9. /\ r.total \in p.total..(p.total + (j + 1))
        /\ r.event = "more" => r.total = p.total + (j + 1)
        /\ p.event = "more" => r.total > p.total
    BY <1>1, <2>4, <2>7, <2>8
  <2>. QED
    BY <2>3, <2>5, <2>6, <2>9 DEF r
<1>. HIDE DEF S
<1>4. Nat \subseteq S
  BY <1>2, <1>3, SetInduction
<1>. QED
  BY <1>1, <1>4 DEF S

\* A parser that is over stays as it is.
LEMMA FedOver ==
  ASSUME NEW p, Sound(p), NEW units \in Streams,
         NEW i \in 0..Len(units), Fed(p, units)[i].event # "more",
         NEW k \in i..Len(units)
  PROVE  Fed(p, units)[k] = Fed(p, units)[i]
<1> DEFINE S == {j \in Nat : i + j <= Len(units) => Fed(p, units)[i + j] = Fed(p, units)[i]}
<1>1. Len(units) \in Nat
  BY LenProperties
<1>2. 0 \in S
  OBVIOUS
<1>3. ASSUME NEW j \in Nat, j \in S
      PROVE  j + 1 \in S
  <2>. SUFFICES ASSUME i + (j + 1) <= Len(units)
                PROVE  Fed(p, units)[i + (j + 1)] = Fed(p, units)[i]
    OBVIOUS
  <2>1. i + (j + 1) \in 1..Len(units) /\ (i + (j + 1)) - 1 = i + j /\ i + j <= Len(units)
    BY <1>1
  <2>2. Fed(p, units)[i + (j + 1)] = Push(Fed(p, units)[i + j], units[i + (j + 1)])
    BY <2>1, FedAt
  <2>3. Fed(p, units)[i + j] = Fed(p, units)[i]
    BY <1>3, <2>1
  <2>4. Sound(Fed(p, units)[i]) /\ units[i + (j + 1)] \in UnitSet
    BY <2>1, FedFacts, ElementOfSeq DEF Streams
  <2>. QED
    BY <2>2, <2>3, <2>4, PushStep
<1>. HIDE DEF S
<1>4. Nat \subseteq S
  BY <1>2, <1>3, SetInduction
<1>5. k - i \in Nat /\ i + (k - i) = k /\ k <= Len(units)
  BY <1>1
<1>. QED
  BY <1>4, <1>5 DEF S

\* From its unit j on, s goes on with the first m units of t.
Follows(s, j, t, m) ==
  /\ j \in 0..Len(s) /\ m \in 0..Len(t) /\ j + m <= Len(s)
  /\ \A i \in 1..m : t[i] = s[j + i]

\* A parser that has been fed the start of a stream goes on with the rest as if
\* it had been fed all at once.
LEMMA FedShift ==
  ASSUME NEW p, NEW s \in Streams, NEW j, NEW t \in Streams, NEW m,
         Follows(s, j, t, m)
  PROVE  Fed(Fed(p, s)[j], t)[m] = Fed(p, s)[j + m]
<1> DEFINE q == Fed(p, s)[j]
           S == {k \in Nat : k <= m => Fed(q, t)[k] = Fed(p, s)[j + k]}
<1>. USE DEF Follows
<1>1. Len(s) \in Nat /\ Len(t) \in Nat
  BY LenProperties
<1>2. 0 \in S
  <2>1. Fed(q, t)[0] = q
    BY FedAt
  <2>. QED
    BY <2>1
<1>. HIDE DEF q
<1>3. ASSUME NEW k \in Nat, k \in S
      PROVE  k + 1 \in S
  <2>. SUFFICES ASSUME k + 1 <= m
                PROVE  Fed(q, t)[k + 1] = Fed(p, s)[j + (k + 1)]
    OBVIOUS
  <2>1. /\ k + 1 \in 1..Len(t) /\ k + 1 \in 1..m /\ (k + 1) - 1 = k /\ k <= m
        /\ j + (k + 1) \in 1..Len(s) /\ (j + (k + 1)) - 1 = j + k
    BY <1>1
  <2>2. Fed(q, t)[k + 1] = Push(Fed(q, t)[k], t[k + 1])
    BY <2>1, FedAt
  <2>3. Fed(p, s)[j + (k + 1)] = Push(Fed(p, s)[j + k], s[j + (k + 1)])
    BY <2>1, FedAt
  <2>4. t[k + 1] = s[j + (k + 1)]
    BY <2>1
  <2>. QED
    BY <1>3, <2>1, <2>2, <2>3, <2>4
<1>. HIDE DEF S
<1>4. Nat \subseteq S
  BY <1>2, <1>3, SetInduction
<1>. QED
  BY <1>4 DEF S, q

\* Where the reads of a connection split the stream makes no difference to what
\* the head parser of ota/http.rs says.
THEOREM FeedSplits ==
  ASSUME NEW p, NEW a \in Streams, NEW b \in Streams
  PROVE  Feed(p, a \o b) = Feed(Feed(p, a), b)
<1> DEFINE s == a \o b
<1>1. /\ s \in Streams /\ Len(s) = Len(a) + Len(b)
      /\ Len(a) \in Nat /\ Len(b) \in Nat
  BY ConcatProperties, LenProperties DEF Streams
<1>2. /\ \A i \in 1..Len(a) : s[i] = a[i]
      /\ \A i \in 1..Len(b) : s[Len(a) + i] = b[i]
  BY <1>1, ConcatProperties
<1>. HIDE DEF s
<1>3. Fed(p, s)[0] = p
  BY <1>1, FedAt
<1>4. Feed(p, a) = Fed(p, s)[Len(a)]
  <2>1. Follows(s, 0, a, Len(a))
    BY <1>1, <1>2 DEF Follows
  <2>2. Fed(Fed(p, s)[0], a)[Len(a)] = Fed(p, s)[0 + Len(a)]
    BY <1>1, <2>1, FedShift
  <2>. QED
    BY <1>1, <1>3, <2>2 DEF Feed
<1>5. Feed(Feed(p, a), b) = Fed(p, s)[Len(a) + Len(b)]
  <2>1. Follows(s, Len(a), b, Len(b))
    BY <1>1, <1>2 DEF Follows
  <2>2. Fed(Fed(p, s)[Len(a)], b)[Len(b)] = Fed(p, s)[Len(a) + Len(b)]
    BY <1>1, <2>1, FedShift
  <2>. QED
    BY <1>1, <1>4, <2>2 DEF Feed
<1>. QED
  BY <1>1, <1>5 DEF Feed, s

-----------------------------------------------------------------------------
(* Where a head ends                                                       *)

LEMMA WithoutCREmpty ==
  ASSUME NEW line \in Streams
  PROVE  WithoutCR(line) = <<>> <=> line = <<>> \/ line = <<CR>>
<1>1. CASE line # <<>> /\ Last(line) = CR
  <2>1. Len(line) \in Nat \ {0} /\ WithoutCR(line) = SubSeq(line, 1, Len(line) - 1)
    BY <1>1, EmptySeq DEF WithoutCR, Front
  <2>2. \A i \in 1..(Len(line) - 1) : line[i] \in UnitSet
    BY <2>1, ElementOfSeq DEF Streams
  <2>3. /\ SubSeq(line, 1, Len(line) - 1) \in Streams
        /\ Len(SubSeq(line, 1, Len(line) - 1)) = IF 1 <= Len(line) - 1 THEN Len(line) - 1 ELSE 0
    BY <2>1, <2>2, SubSeqProperties DEF Streams
  <2>4. WithoutCR(line) = <<>> <=> Len(line) = 1
    <3> DEFINE front == SubSeq(line, 1, Len(line) - 1)
    <3>1. front \in Streams /\ (front # <<>> => Len(front) # 0)
      BY <2>3, EmptySeq DEF Streams
    <3>2. Len(front) = IF 1 <= Len(line) - 1 THEN Len(line) - 1 ELSE 0
      BY <2>3
    <3>3. Len(<<>>) = 0
      BY EmptySeq
    <3>4. WithoutCR(line) = front
      BY <2>1
    <3>. HIDE DEF front
    <3>5. Len(front) = 0 <=> Len(line) = 1
      <4>1. PICK n \in Nat \ {0} : n = Len(line)
        BY <2>1
      <4>2. Len(front) = IF 1 <= n - 1 THEN n - 1 ELSE 0
        BY <3>2, <4>1
      <4>3. n = 1 => Len(front) = 0
        BY <4>2
      <4>4. n # 1 => Len(front) = n - 1 /\ n - 1 # 0
        BY <4>2
      <4>. QED
        BY <4>1, <4>3, <4>4
    <3>. QED
      BY <3>1, <3>3, <3>4, <3>5
  <2>5. Len(line) = 1 => line = <<CR>>
    BY <1>1, LineEndUnits, SeqEqual DEF Streams, Last
  <2>. QED
    BY <1>1, <2>4, <2>5
<1>2. CASE line # <<>> /\ Last(line) # CR
  <2>1. line # <<CR>>
    BY <1>2 DEF Last
  <2>. QED
    BY <1>2, <2>1 DEF WithoutCR
<1>3. CASE line = <<>>
  BY <1>3 DEF WithoutCR
<1>. QED
  BY <1>1, <1>2, <1>3

LEMMA RejectOver ==
  ASSUME NEW p \in ParserSet, NEW error \in Errors
  PROVE  Reject(p, error).event \notin {"more", "complete"}
  BY RejectType, ErrorsApart

\* The end of a line that is not empty completes nothing, and the line that
\* follows it belongs to the headers.
LEMMA LineGoesOn ==
  ASSUME NEW p \in ParserSet, p.event = "more", p.state # "done",
         NEW line \in Streams, p.state = "status" \/ line # <<>>
  PROVE  LET q == EndOfLine(p, line)
         IN  /\ q.event # "complete"
             /\ q.event = "more" => q.line = p.line /\ q.state = "headers"
<1>1. CASE p.state = "status"
  <2>1. Reject(p, "malformed_status").event \notin {"more", "complete"}
    BY RejectOver DEF Errors
  <2>2. LET q == [p EXCEPT !.state = "headers", !.status = line[1].n]
        IN  q.event = "more" /\ q.line = p.line /\ q.state = "headers"
    BY <1>1 DEF ParserSet
  <2>. QED
    BY <1>1, <2>1, <2>2 DEF EndOfLine
<1>2. CASE p.state = "headers" /\ line # <<>>
  <2>1. /\ Reject(p, "malformed_header").event \notin {"more", "complete"}
        /\ Reject(p, "duplicate_content_length").event \notin {"more", "complete"}
    BY RejectOver DEF Errors
  <2>2. LET q == [p EXCEPT !.length = line[1].n]
        IN  q.event = "more" /\ q.line = p.line /\ q.state = "headers"
    BY <1>2 DEF ParserSet
  <2>3. LET q == [p EXCEPT !.chunked = TRUE]
        IN  q.event = "more" /\ q.line = p.line /\ q.state = "headers"
    BY <1>2 DEF ParserSet
  <2>4. EndOfLine(p, line) = Header(p, line)
    BY <1>2 DEF EndOfLine
  <2>. QED
    BY <1>2, <2>1, <2>2, <2>3, <2>4 DEF Header
<1>. QED
  BY <1>1, <1>2 DEF ParserSet

LEMMA AppendCR ==
  ASSUME NEW line \in Streams, NEW unit \in UnitSet
  PROVE  Append(line, unit) = <<CR>> <=> line = <<>> /\ unit = CR
<1>1. ASSUME Append(line, unit) = <<CR>>
      PROVE  line = <<>> /\ unit = CR
  <2>1. /\ Len(<<CR>>) = 1 /\ <<CR>>[1] = CR
        /\ Len(Append(line, unit)) = Len(line) + 1
        /\ Append(line, unit)[Len(line) + 1] = unit
        /\ Len(line) \in Nat
    BY AppendProperties, LenProperties
  <2>2. Len(line) = 0
    BY <1>1, <2>1
  <2>. QED
    BY <1>1, <2>1, <2>2, EmptySeq
<1>2. Append(<<>>, CR) = <<CR>>
  OBVIOUS
<1>. QED
  BY <1>1, <1>2

LEMMA PushLine ==
  ASSUME NEW p, Sound(p), p.event = "more", NEW unit \in UnitSet
  PROVE  LET q == Push(p, unit)
             blank == p.line = <<>> \/ p.line = <<CR>>
         IN  /\ q.event = "more" /\ unit # LF => q.line = Append(p.line, unit) /\ q.state = p.state
             /\ q.event = "more" /\ unit = LF => q.line = <<>> /\ q.state = "headers"
             /\ q.event = "complete" => unit = LF /\ p.state = "headers" /\ blank
             /\ unit = LF /\ blank => q.event # "more"
<1> DEFINE counted == [p EXCEPT !.total = @ + 1]
           clean == [counted EXCEPT !.line = <<>>]
<1>1. counted \in ParserSet /\ counted.line = p.line /\ counted.state = p.state
  BY DEF Sound, ParserSet
<1>2. CASE Oversized(counted)
  <2>1. Push(p, unit) = Reject(counted, "oversized_header")
    BY <1>2 DEF Push
  <2>2. "oversized_header" \in Errors
    BY DEF Errors
  <2>. HIDE DEF counted
  <2>. QED
    BY <1>1, <2>1, <2>2, RejectOver
<1>3. CASE ~Oversized(counted) /\ unit # LF
  <2>1. Push(p, unit) = [counted EXCEPT !.line = Append(@, unit)]
    BY <1>3 DEF Push
  <2>2. /\ Push(p, unit).line = Append(p.line, unit) /\ Push(p, unit).state = p.state
        /\ Push(p, unit).event = "more"
    BY <1>1, <2>1 DEF Sound, ParserSet
  <2>. QED
    BY <1>3, <2>2
<1>4. CASE ~Oversized(counted) /\ unit = LF
  <2>1. Push(p, unit) = EndOfLine(clean, WithoutCR(p.line))
    BY <1>4 DEF Push
  <2>2. /\ clean \in ParserSet /\ clean.line = <<>> /\ clean.state = p.state
        /\ clean.event = "more" /\ clean.state # "done"
    BY <1>1, EmptySeq DEF Streams, Sound, ParserSet
  <2>3. p.line \in Streams /\ WithoutCR(p.line) \in Streams
    BY WithoutCRType DEF Sound, ParserSet
  <2>4. WithoutCR(p.line) = <<>> <=> p.line = <<>> \/ p.line = <<CR>>
    BY <2>3, WithoutCREmpty
  <2>. HIDE DEF clean
  <2>5. CASE p.state = "status" \/ WithoutCR(p.line) # <<>>
    <3>1. /\ Push(p, unit).event # "complete"
          /\ Push(p, unit).event = "more" => Push(p, unit).line = <<>> /\ Push(p, unit).state = "headers"
      BY <2>1, <2>2, <2>3, <2>5, LineGoesOn
    <3>2. ASSUME WithoutCR(p.line) = <<>>
          PROVE  Push(p, unit).event # "more"
      <4>1. Push(p, unit) = Reject(clean, "malformed_status")
        BY <2>1, <2>2, <2>5, <3>2 DEF EndOfLine, IsLine
      <4>2. "malformed_status" \in Errors
        BY DEF Errors
      <4>. QED
        BY <2>2, <4>1, <4>2, RejectOver
    <3>. QED
      BY <1>4, <2>4, <3>1, <3>2
  <2>6. CASE p.state = "headers" /\ WithoutCR(p.line) = <<>>
    <3>1. Push(p, unit) = Finish(clean)
      BY <2>1, <2>2, <2>6 DEF EndOfLine
    <3>2. Push(p, unit).event # "more"
      BY <2>2, <3>1, FinishJudged
    <3>. QED
      BY <1>4, <2>4, <2>6, <3>2
  <2>7. p.state \in {"status", "headers"}
    BY DEF Sound, ParserSet
  <2>. QED
    BY <2>5, <2>6, <2>7
<1>. QED
  BY <1>2, <1>3, <1>4

\* While the parser asks for more, its line is what came since the last LF, and
\* it is past the status line once there was one.
LineTracks(s, i) ==
  LET q == Fed(NewParser, s)[i]
  IN  q.event = "more" =>
        /\ q.line = <<>> <=> i = 0 \/ s[i] = LF
        /\ q.line = <<CR>> <=> i > 0 /\ s[i] = CR /\ (i = 1 \/ s[i - 1] = LF)
        /\ q.state = "status" <=> \A j \in 1..i : s[j] # LF

LEMMA NewParserSound == Sound(NewParser) /\ Within(NewParser) /\ NewParser.event = "more"
  BY NewParserType, HeadAssumption DEF NewParser, Sound, Within

LEMMA LineTracked ==
  ASSUME NEW s \in Streams, NEW i \in 0..Len(s)
  PROVE  LineTracks(s, i)
<1> DEFINE S == {k \in Nat : k <= Len(s) => LineTracks(s, k)}
<1>1. Len(s) \in Nat
  BY LenProperties
<1>2. 0 \in S
  <2>1. Fed(NewParser, s)[0] = NewParser
    BY FedAt
  <2>2. /\ NewParser.line = <<>> /\ NewParser.state = "status"
        /\ <<>> # <<CR>>
    BY DEF NewParser
  <2>3. LineTracks(s, 0)
    BY <2>1, <2>2 DEF LineTracks
  <2>. QED
    BY <2>3
<1>3. ASSUME NEW k \in Nat, k \in S
      PROVE  k + 1 \in S
  <2>. SUFFICES ASSUME k + 1 <= Len(s)
                PROVE  LineTracks(s, k + 1)
    OBVIOUS
  <2> DEFINE q == Fed(NewParser, s)[k]
             r == Fed(NewParser, s)[k + 1]
             unit == s[k + 1]
  <2>1. /\ k + 1 \in 1..Len(s) /\ k \in 0..Len(s) /\ (k + 1) - 1 = k
        /\ k + 1 > 0 /\ k + 1 # 0 /\ (k + 1 = 1 <=> k = 0) /\ (k > 0 <=> k # 0)
        /\ 1..(k + 1) = 1..k \cup {k + 1}
    BY <1>1
  <2>2. LineTracks(s, k)
    BY <1>3, <2>1
  <2>3. unit \in UnitSet /\ Sound(q) /\ r = Push(q, unit)
    BY <2>1, NewParserSound, FedFacts, ElementOfSeq, FedAt DEF Streams
  <2>. SUFFICES ASSUME r.event = "more"
                PROVE  /\ r.line = <<>> <=> unit = LF
                       /\ r.line = <<CR>> <=> unit = CR /\ (k = 0 \/ s[k] = LF)
                       /\ r.state = "status" <=> (unit # LF /\ \A j \in 1..k : s[j] # LF)
    BY <2>1 DEF LineTracks
  <2>. HIDE DEF q, r, unit
  <2>4. q.event = "more"
    <3>. SUFFICES ASSUME q.event # "more" PROVE FALSE
      OBVIOUS
    <3>. QED
      BY <2>3, PushStep
  <2>5. /\ q.line = <<>> <=> k = 0 \/ s[k] = LF
        /\ q.state = "status" <=> \A j \in 1..k : s[j] # LF
    BY <2>2, <2>4 DEF LineTracks, q
  <2>6. /\ unit # LF => r.line = Append(q.line, unit) /\ r.state = q.state
        /\ unit = LF => r.line = <<>> /\ r.state = "headers"
    BY <2>3, <2>4, PushLine
  <2>7. CASE unit = LF
    <3>1. CR # LF /\ <<>> # <<CR>>
      BY DEF CR, LF, Unit
    <3>. QED
      BY <2>6, <2>7, <3>1
  <2>8. CASE unit # LF
    <3>1. q.line \in Streams
      BY <2>3 DEF Sound, ParserSet
    <3>2. Append(q.line, unit) # <<>>
      BY <2>3, <3>1, AppendProperties DEF Streams
    <3>3. Append(q.line, unit) = <<CR>> <=> q.line = <<>> /\ unit = CR
      BY <2>3, <3>1, AppendCR
    <3>. QED
      BY <2>5, <2>6, <2>8, <3>2, <3>3
  <2>. QED
    BY <2>7, <2>8
<1>. HIDE DEF S
<1>4. Nat \subseteq S
  BY <1>2, <1>3, SetInduction
<1>. QED
  BY <1>1, <1>4 DEF S

\* The units before i, and the LF at i, are an empty line after the status line.
EmptyLineAt(s, i) ==
  /\ i > 1 /\ s[i] = LF
  /\ s[i - 1] = LF \/ (i > 2 /\ s[i - 1] = CR /\ s[i - 2] = LF)

\* The head parser of ota/http.rs completes a head nowhere but at its first empty
\* line, and at that line it is done, with a result or with an error: it neither
\* takes a unit of the body for head nor waits for more after the head.
THEOREM HeadEndsAtEmptyLine ==
  ASSUME NEW s \in Streams, NEW i \in 1..Len(s),
         Fed(NewParser, s)[i - 1].event = "more"
  PROVE  /\ Fed(NewParser, s)[i].event = "complete" => EmptyLineAt(s, i)
         /\ EmptyLineAt(s, i) => Fed(NewParser, s)[i].event # "more"
<1> DEFINE q == Fed(NewParser, s)[i - 1]
<1>1. /\ Len(s) \in Nat /\ i - 1 \in 0..Len(s) /\ i \in Nat
      /\ i - 1 > 0 <=> i > 1
      /\ i - 1 = 0 <=> i = 1
      /\ i > 1 \/ i = 1
      /\ i > 2 <=> i > 1 /\ i - 1 # 1
      /\ (i - 1) - 1 = i - 2
  BY LenProperties
<1>2. s[i] \in UnitSet /\ Sound(q) /\ Fed(NewParser, s)[i] = Push(q, s[i])
  BY <1>1, NewParserSound, FedFacts, ElementOfSeq, FedAt DEF Streams
<1>3. /\ q.line = <<>> <=> i - 1 = 0 \/ s[i - 1] = LF
      /\ q.line = <<CR>> <=> i - 1 > 0 /\ s[i - 1] = CR /\ (i - 1 = 1 \/ s[(i - 1) - 1] = LF)
      /\ q.state = "status" <=> \A j \in 1..(i - 1) : s[j] # LF
  BY <1>1, LineTracked DEF LineTracks
<1>. HIDE DEF q
<1>4. LET r == Push(q, s[i])
          blank == q.line = <<>> \/ q.line = <<CR>>
      IN  /\ r.event = "complete" => s[i] = LF /\ q.state = "headers" /\ blank
          /\ s[i] = LF /\ blank => r.event # "more"
  BY <1>2, PushLine DEF q
<1>5. q.state = "headers" => i > 1 /\ (q.line = <<CR>> => i > 2)
  <2>1. q.state = "headers" => \E j \in 1..(i - 1) : s[j] = LF
    BY <1>3
  <2>2. CR # LF
    BY DEF CR, LF, Unit
  <2>3. i = 1 => 1..(i - 1) = {}
    BY <1>1
  <2>4. i - 1 = 1 => 1..(i - 1) = {i - 1}
    BY <1>1
  <2>. QED
    BY <1>1, <1>3, <2>1, <2>2, <2>3, <2>4
<1>. QED
  BY <1>1, <1>2, <1>3, <1>4, <1>5 DEF EmptyLineAt

\* A head that the parser is through with at its last unit and not before.
Ends(h) ==
  /\ h \in Streams
  /\ Feed(NewParser, h).event # "more"
  /\ \A j \in 0..(Len(h) - 1) : Fed(NewParser, h)[j].event # "complete"

\* Such are the heads whose first empty line is the last, and those that are too
\* long and have none.
LEMMA EndsAtLastLine ==
  ASSUME NEW h \in Streams, \A i \in 1..(Len(h) - 1) : ~EmptyLineAt(h, i),
         (Len(h) > 0 /\ EmptyLineAt(h, Len(h))) \/ Len(h) > MaxHead
  PROVE  Ends(h)
<1>1. Len(h) \in Nat /\ Len(h) > 0 /\ MaxHead \in Nat
  BY LenProperties, HeadAssumption
<1> DEFINE S == {j \in Nat : j <= Len(h) - 1 => Fed(NewParser, h)[j].event # "complete"}
<1>2. 0 \in S
  BY FedAt, NewParserSound
<1>3. ASSUME NEW j \in Nat, j \in S
      PROVE  j + 1 \in S
  <2>. SUFFICES ASSUME j + 1 <= Len(h) - 1
                PROVE  Fed(NewParser, h)[j + 1].event # "complete"
    OBVIOUS
  <2>1. /\ j \in 0..Len(h) /\ j + 1 \in 1..Len(h) /\ (j + 1) - 1 = j
        /\ j + 1 \in j..Len(h) /\ j <= Len(h) - 1 /\ j + 1 \in 1..(Len(h) - 1)
    BY <1>1
  <2>2. CASE Fed(NewParser, h)[j].event = "more"
    <3>1. Fed(NewParser, h)[(j + 1) - 1].event = "more"
      BY <2>1, <2>2
    <3>. QED
      BY <2>1, <3>1, HeadEndsAtEmptyLine
  <2>3. CASE Fed(NewParser, h)[j].event # "more"
    <3>1. Fed(NewParser, h)[j + 1] = Fed(NewParser, h)[j]
      BY <2>1, <2>3, NewParserSound, FedOver
    <3>. QED
      BY <1>3, <2>1, <3>1
  <2>. QED
    BY <2>2, <2>3
<1>. HIDE DEF S
<1>4. Nat \subseteq S
  BY <1>2, <1>3, SetInduction
<1>5. \A j \in 0..(Len(h) - 1) : Fed(NewParser, h)[j].event # "complete"
  BY <1>4 DEF S
<1>6. Fed(NewParser, h)[Len(h)].event # "more"
  <2>. SUFFICES ASSUME Fed(NewParser, h)[Len(h)].event = "more" PROVE FALSE
    OBVIOUS
  <2>1. Len(h) \in 0..Len(h) /\ Len(h) \in 1..Len(h) /\ Len(h) - 1 \in 0..Len(h)
        /\ Len(h) \in (Len(h) - 1)..Len(h)
    BY <1>1
  <2>2. Fed(NewParser, h)[Len(h)].total = Len(h)
    <3>1. NewParser.total = 0
      BY DEF NewParser
    <3>2. Fed(NewParser, h)[Len(h)].total = NewParser.total + Len(h)
      BY <2>1, NewParserSound, FedFacts
    <3>. QED
      BY <1>1, <3>1, <3>2
  <2>3. Fed(NewParser, h)[Len(h)].total <= MaxHead
    BY <2>1, NewParserSound, FedFacts DEF Within
  <2>4. EmptyLineAt(h, Len(h))
    BY <1>1, <2>2, <2>3
  <2>5. Fed(NewParser, h)[Len(h) - 1].event = "more"
    <3>. SUFFICES ASSUME Fed(NewParser, h)[Len(h) - 1].event # "more" PROVE FALSE
      OBVIOUS
    <3>1. Fed(NewParser, h)[Len(h)] = Fed(NewParser, h)[Len(h) - 1]
      BY <2>1, NewParserSound, FedOver
    <3>. QED
      BY <3>1
  <2>. QED
    BY <2>1, <2>4, <2>5, HeadEndsAtEmptyLine
<1>. QED
  BY <1>5, <1>6 DEF Ends, Feed

\* A parser is at unit j of a head, and the units go on with the rest of it.
GoesOn(h, j, p, units) ==
  /\ Ends(h) /\ j \in 0..Len(h) /\ p = Fed(NewParser, h)[j]
  /\ \A i \in 1..Len(units) : j + i <= Len(h) => units[i] = h[j + i]

\* One read: while more is asked for the head is not at its end; when it is
\* complete, exactly the rest of the head has been counted.
LEMMA HeadRead ==
  ASSUME NEW h, NEW j, NEW p, NEW units \in Streams, GoesOn(h, j, p, units),
         p.event = "more"
  PROVE  /\ j < Len(h)
         /\ Feed(p, units).event = "more" =>
              j + Len(units) < Len(h) /\ Feed(p, units) = Fed(NewParser, h)[j + Len(units)]
         /\ Feed(p, units).event = "complete" =>
              j + Len(units) >= Len(h) /\ Feed(p, units).total - p.total = Len(h) - j
<1>0. /\ Ends(h) /\ j \in 0..Len(h) /\ p = Fed(NewParser, h)[j]
      /\ \A i \in 1..Len(units) : j + i <= Len(h) => units[i] = h[j + i]
  BY DEF GoesOn
<1>1. /\ h \in Streams /\ Len(h) \in Nat /\ Len(units) \in Nat
      /\ Fed(NewParser, h)[Len(h)].event # "more"
      /\ \A i \in 0..(Len(h) - 1) : Fed(NewParser, h)[i].event # "complete"
  BY <1>0, LenProperties DEF Ends, Feed
<1>2. j < Len(h)
  BY <1>0, <1>1
<1>3. p.total = j /\ Sound(p)
  <2>1. NewParser.total = 0
    BY DEF NewParser
  <2>2. Sound(p) /\ p.total = NewParser.total + j
    BY <1>0, <1>1, NewParserSound, FedFacts
  <2>. QED
    BY <1>0, <1>1, <2>1, <2>2
<1>4. CASE j + Len(units) < Len(h)
  <2>1. Follows(h, j, units, Len(units))
    BY <1>0, <1>1, <1>4 DEF Follows
  <2>2. Feed(p, units) = Fed(NewParser, h)[j + Len(units)]
    <3>1. Fed(Fed(NewParser, h)[j], units)[Len(units)] = Fed(NewParser, h)[j + Len(units)]
      BY ONLY units \in Streams, <1>0, <1>1, <2>1, FedShift
    <3>. QED
      BY <1>0, <3>1 DEF Feed
  <2>3. j + Len(units) \in 0..(Len(h) - 1)
    BY <1>0, <1>1, <1>4
  <2>. QED
    BY <1>0, <1>1, <1>2, <1>4, <2>2, <2>3
<1>5. CASE j + Len(units) >= Len(h)
  <2> DEFINE r == Len(h) - j
  <2>1. r \in 0..Len(units) /\ r \in Nat /\ j + r = Len(h) /\ Len(units) \in r..Len(units)
    BY <1>0, <1>1, <1>5
  <2>. HIDE DEF r
  <2>2. Follows(h, j, units, r)
    BY <1>0, <1>1, <2>1 DEF Follows
  <2>3. Fed(p, units)[r] = Fed(NewParser, h)[Len(h)]
    <3>1. Fed(Fed(NewParser, h)[j], units)[r] = Fed(NewParser, h)[j + r]
      BY ONLY units \in Streams, <1>0, <1>1, <2>2, FedShift
    <3>. QED
      BY <1>0, <2>1, <3>1
  <2>4. Feed(p, units) = Fed(NewParser, h)[Len(h)]
    <3>1. Fed(p, units)[Len(units)] = Fed(p, units)[r]
      BY <1>0, <1>1, <1>3, <2>1, <2>3, FedOver
    <3>. QED
      BY <2>3, <3>1 DEF Feed
  <2>5. ASSUME Feed(p, units).event = "complete"
        PROVE  Feed(p, units).total = Len(h)
    <3> DEFINE q == Fed(NewParser, h)[Len(h) - 1]
    <3>1. /\ Len(h) - 1 \in 0..(Len(h) - 1) /\ Len(h) - 1 \in 0..Len(h)
          /\ Len(h) \in (Len(h) - 1)..Len(h) /\ Len(h) \in 1..Len(h)
      BY <1>0, <1>1, <1>2
    <3>2. q.event = "more"
      <4>. SUFFICES ASSUME q.event # "more" PROVE FALSE
        OBVIOUS
      <4>1. Fed(NewParser, h)[Len(h)] = q
        BY <1>0, <1>1, <3>1, NewParserSound, FedOver
      <4>. QED
        BY <1>0, <1>1, <2>4, <2>5, <3>1, <4>1
    <3>3. Sound(q) /\ q.total = Len(h) - 1
      <4>1. NewParser.total = 0
        BY DEF NewParser
      <4>2. Sound(q) /\ q.total = NewParser.total + (Len(h) - 1)
        BY <1>0, <1>1, <3>1, <3>2, NewParserSound, FedFacts
      <4>. QED
        BY <1>0, <1>1, <4>1, <4>2
    <3>4. Fed(NewParser, h)[Len(h)] = Push(q, h[Len(h)]) /\ h[Len(h)] \in UnitSet
      BY <1>0, <1>1, <3>1, FedAt, ElementOfSeq DEF Streams
    <3>. HIDE DEF q
    <3>5. Push(q, h[Len(h)]).total = q.total + 1
      BY <3>2, <3>3, <3>4, PushStep
    <3>. QED
      BY <1>0, <1>1, <2>4, <3>3, <3>4, <3>5
  <2>. QED
    BY <1>0, <1>1, <1>2, <1>3, <1>5, <2>4, <2>5
<1>. QED
  BY <1>0, <1>1, <1>4, <1>5

-----------------------------------------------------------------------------
(* The reference definition: what a list of lines is as a stream           *)

\* The text of a line holds no line end.
LineSet == {l \in Streams : \A i \in 1..Len(l) : l[i] # CR /\ l[i] # LF}

Endings == {<<CR, LF>>, <<LF>>}

\* The concatenation of the first sequences.
Flat(seqs) ==
  LET flatten[i \in 1..Len(seqs)] ==
        IF i = 1 THEN seqs[i] ELSE flatten[i - 1] \o seqs[i]
  IN  flatten

LEMMA FlatDef ==
  ASSUME NEW seqs, Len(seqs) \in Nat
  PROVE  Flat(seqs) =
           [i \in 1..Len(seqs) |-> IF i = 1 THEN seqs[i] ELSE Flat(seqs)[i - 1] \o seqs[i]]
<1> DEFINE Steps(g, n) == g = [i \in 1..n |-> IF i = 1 THEN seqs[i] ELSE g[i - 1] \o seqs[i]]
           S == {n \in Nat : \E g : Steps(g, n)}
<1>1. 0 \in S
  <2>1. Steps([i \in 1..0 |-> seqs[i]], 0)
    OBVIOUS
  <2>. QED
    BY <2>1
<1>2. ASSUME NEW n \in Nat, n \in S
      PROVE  n + 1 \in S
  <2>1. PICK g : Steps(g, n)
    BY <1>2
  <2> DEFINE h == [i \in 1..(n + 1) |->
                     IF i = n + 1 THEN IF i = 1 THEN seqs[i] ELSE g[n] \o seqs[i] ELSE g[i]]
  <2>2. \A i \in 1..(n + 1) : h[i] = IF i = 1 THEN seqs[i] ELSE h[i - 1] \o seqs[i]
    <3>. SUFFICES ASSUME NEW i \in 1..(n + 1)
                  PROVE  h[i] = IF i = 1 THEN seqs[i] ELSE h[i - 1] \o seqs[i]
      OBVIOUS
    <3>1. CASE i = n + 1
      <4>1. i # 1 => n \in 1..(n + 1) /\ n # n + 1 /\ i - 1 = n
        BY <3>1
      <4>. QED
        BY <3>1, <4>1
    <3>2. CASE i # n + 1
      <4>1. /\ i \in 1..n
            /\ i # 1 => i - 1 \in 1..n /\ i - 1 \in 1..(n + 1) /\ i - 1 # n + 1
        BY <3>2
      <4>2. g[i] = IF i = 1 THEN seqs[i] ELSE g[i - 1] \o seqs[i]
        BY <2>1, <4>1
      <4>. QED
        BY <3>2, <4>1, <4>2
    <3>. QED
      BY <3>1, <3>2
  <2>3. Steps(h, n + 1)
    BY <2>2
  <2>. HIDE DEF h, Steps
  <2>. QED
    BY <2>3
<1>. HIDE DEF S
<1>3. Nat \subseteq S
  BY <1>1, <1>2, SetInduction
<1>5. \E g : Steps(g, Len(seqs))
  BY <1>3 DEF S
<1>. QED
  BY <1>5 DEF Flat

LEMMA FlattenAppend ==
  ASSUME NEW seqs \in Seq(Streams), NEW seq \in Streams
  PROVE  FlattenSeq(Append(seqs, seq)) =
           IF seqs = <<>> THEN seq ELSE FlattenSeq(seqs) \o seq
<1> DEFINE more == Append(seqs, seq)
           n == Len(seqs)
<1>1. /\ n \in Nat /\ more \in Seq(Streams) /\ Len(more) = n + 1
      /\ \A i \in 1..n : more[i] = seqs[i]
      /\ more[n + 1] = seq
      /\ n = 0 <=> seqs = <<>>
  BY AppendProperties, LenProperties, EmptySeq
<1>. HIDE DEF more
<1>2. /\ \A i \in 1..n : Flat(seqs)[i] = IF i = 1 THEN seqs[i] ELSE Flat(seqs)[i - 1] \o seqs[i]
      /\ \A i \in 1..(n + 1) :
           Flat(more)[i] = IF i = 1 THEN more[i] ELSE Flat(more)[i - 1] \o more[i]
  <2>1. Flat(seqs) = [i \in 1..n |-> IF i = 1 THEN seqs[i] ELSE Flat(seqs)[i - 1] \o seqs[i]]
    BY <1>1, FlatDef
  <2>2. Flat(more) =
          [i \in 1..Len(more) |-> IF i = 1 THEN more[i] ELSE Flat(more)[i - 1] \o more[i]]
    <3>1. Len(more) \in Nat
      BY <1>1
    <3>. QED
      BY ONLY <3>1, FlatDef
  <2>. QED
    BY <1>1, <2>1, <2>2
<1>. HIDE DEF n
<1> DEFINE S == {k \in Nat : k \in 1..n => Flat(more)[k] = Flat(seqs)[k]}
<1>3. 0 \in S
  OBVIOUS
<1>4. ASSUME NEW k \in Nat, k \in S
      PROVE  k + 1 \in S
  <2>. SUFFICES ASSUME k + 1 \in 1..n
                PROVE  Flat(more)[k + 1] = Flat(seqs)[k + 1]
    OBVIOUS
  <2>1. /\ k + 1 \in 1..(n + 1) /\ (k + 1) - 1 = k
        /\ k + 1 # 1 => k \in 1..n
    BY <1>1
  <2>. QED
    BY <1>1, <1>2, <1>4, <2>1
<1>5. Nat \subseteq S
  <2>. HIDE DEF S
  <2>. QED
    BY <1>3, <1>4, SetInduction
<1>6. n # 0 => Flat(more)[n] = Flat(seqs)[n]
  BY <1>1, <1>5
<1>7. /\ FlattenSeq(more) = Flat(more)[n + 1]
      /\ n # 0 => FlattenSeq(seqs) = Flat(seqs)[n]
  BY <1>1 DEF FlattenSeq, Flat, n
<1>8. Flat(more)[n + 1] = IF n = 0 THEN seq ELSE Flat(more)[n] \o seq
  BY <1>1, <1>2
<1>. QED
  BY <1>1, <1>6, <1>7, <1>8 DEF more

LEMMA LineTypes ==
  ASSUME NEW l \in LineSet, NEW ending \in Endings
  PROVE  /\ l \in Streams /\ ending \in Streams /\ l \o ending \in Streams
         /\ Len(l \o ending) = Len(l) + Len(ending) /\ Len(l) \in Nat /\ Len(ending) \in {1, 2}
<1>1. /\ <<CR, LF>> \in Streams /\ Len(<<CR, LF>>) = 2
      /\ <<LF>> \in Streams /\ Len(<<LF>>) = 1
  BY LineEndUnits DEF Streams
<1>2. /\ l \in Streams /\ ending \in Streams /\ Len(ending) \in {1, 2}
  BY <1>1 DEF LineSet, Endings
<1>. QED
  BY <1>2, ConcatProperties, LenProperties DEF Streams

\* The lines, each with its ending.
Ended(lines, ending) == [i \in DOMAIN lines |-> lines[i] \o ending]

LEMMA EndedTypes ==
  ASSUME NEW lines \in Seq(LineSet), NEW ending \in Endings
  PROVE  /\ Ended(lines, ending) \in Seq(Streams)
         /\ Len(Ended(lines, ending)) = Len(lines)
         /\ \A i \in 1..Len(lines) : Ended(lines, ending)[i] = lines[i] \o ending
<1>1. Len(lines) \in Nat /\ DOMAIN lines = 1..Len(lines)
  BY LenProperties
<1>2. \A i \in 1..Len(lines) : lines[i] \o ending \in Streams
  BY ElementOfSeq, LineTypes
<1>3. Ended(lines, ending) = [i \in 1..Len(lines) |-> lines[i] \o ending]
  BY <1>1 DEF Ended
<1>. QED
  BY <1>1, <1>2, <1>3

LEMMA EndedAppend ==
  ASSUME NEW lines \in Seq(LineSet), NEW l \in LineSet, NEW ending \in Endings
  PROVE  Ended(Append(lines, l), ending) = Append(Ended(lines, ending), l \o ending)
<1> DEFINE more == Append(lines, l)
           x == Ended(more, ending)
           ended == Ended(lines, ending)
           y == Append(ended, l \o ending)
<1>1. /\ more \in Seq(LineSet) /\ Len(more) = Len(lines) + 1 /\ Len(lines) \in Nat
      /\ \A i \in 1..Len(lines) : more[i] = lines[i]
      /\ more[Len(lines) + 1] = l
  BY AppendProperties, LenProperties
<1>. HIDE DEF more
<1>2. /\ x \in Seq(Streams) /\ Len(x) = Len(more)
      /\ \A i \in 1..Len(more) : x[i] = more[i] \o ending
  BY <1>1, EndedTypes
<1>3. /\ ended \in Seq(Streams) /\ Len(ended) = Len(lines)
      /\ \A i \in 1..Len(lines) : ended[i] = lines[i] \o ending
  BY EndedTypes
<1>. HIDE DEF x, ended
<1>4. l \o ending \in Streams
  BY LineTypes
<1>5. /\ y \in Seq(Streams) /\ Len(y) = Len(ended) + 1
      /\ \A i \in 1..Len(ended) : y[i] = ended[i]
      /\ y[Len(ended) + 1] = l \o ending
  BY <1>3, <1>4, AppendProperties
<1>. HIDE DEF y
<1>6. ASSUME NEW i \in 1..Len(x)
      PROVE  x[i] = y[i]
  <2>1. i \in 1..Len(lines) \/ i = Len(lines) + 1
    BY <1>1, <1>2
  <2>2. i \in 1..Len(more)
    BY <1>2
  <2>3. CASE i \in 1..Len(lines)
    BY <1>1, <1>2, <1>3, <1>5, <2>2, <2>3
  <2>4. CASE i = Len(lines) + 1
    BY <1>1, <1>2, <1>3, <1>5, <2>2, <2>4
  <2>. QED
    BY <2>1, <2>3, <2>4
<1>7. Len(x) = Len(y)
  BY <1>1, <1>2, <1>3, <1>5
<1>8. x = y
  BY <1>2, <1>5, <1>6, <1>7, SeqEqual
<1>. QED
  BY <1>8 DEF x, y, ended, more

LEMMA StreamOfNone ==
  ASSUME NEW ending \in Endings
  PROVE  Stream(<<>>, ending) = <<>>
<1>1. <<>> \in Seq(LineSet) /\ Len(<<>>) = 0
  BY EmptySeq
<1>2. Ended(<<>>, ending) \in Seq(Streams) /\ Len(Ended(<<>>, ending)) = 0
  BY <1>1, EndedTypes
<1>3. Ended(<<>>, ending) = <<>>
  BY <1>2, EmptySeq
<1>. QED
  BY <1>2, <1>3 DEF Stream, Ended, FlattenSeq

LEMMA StreamAppend ==
  ASSUME NEW ending \in Endings, NEW lines \in Seq(LineSet), NEW l \in LineSet
  PROVE  /\ Stream(lines, ending) \in Streams
         /\ Stream(Append(lines, l), ending) = Stream(lines, ending) \o (l \o ending)
<1> DEFINE S == {n \in Nat : \A ls \in Seq(LineSet) : Len(ls) = n => Stream(ls, ending) \in Streams}
<1>1. ASSUME NEW ls \in Seq(LineSet), NEW m \in LineSet, Stream(ls, ending) \in Streams
      PROVE  /\ Stream(Append(ls, m), ending) = Stream(ls, ending) \o (m \o ending)
             /\ Stream(Append(ls, m), ending) \in Streams
  <2>1. /\ m \o ending \in Streams
        /\ Ended(ls, ending) \in Seq(Streams)
        /\ Len(Ended(ls, ending)) = Len(ls)
    BY LineTypes, EndedTypes
  <2>2. Stream(Append(ls, m), ending)
          = IF Ended(ls, ending) = <<>> THEN m \o ending ELSE Stream(ls, ending) \o (m \o ending)
    BY <2>1, EndedAppend, FlattenAppend DEF Stream, Ended
  <2>3. Ended(ls, ending) = <<>> => ls = <<>>
    BY <2>1, EmptySeq
  <2>4. Ended(ls, ending) = <<>> => Stream(ls, ending) \o (m \o ending) = m \o ending
    <3>1. <<>> \o (m \o ending) = m \o ending
      BY <2>1, ConcatEmptySeq DEF Streams
    <3>2. ls = <<>> => Stream(ls, ending) = <<>>
      BY StreamOfNone
    <3>. QED
      BY <2>3, <3>1, <3>2
  <2>5. Stream(ls, ending) \o (m \o ending) \in Streams
    BY <1>1, <2>1, ConcatProperties DEF Streams
  <2>. QED
    BY <2>2, <2>4, <2>5
<1>2. 0 \in S
  <2>1. \A ls \in Seq(LineSet) : Len(ls) = 0 => ls = <<>>
    BY EmptySeq
  <2>2. Stream(<<>>, ending) \in Streams
    BY StreamOfNone, EmptySeq DEF Streams
  <2>. QED
    BY <2>1, <2>2
<1>3. ASSUME NEW n \in Nat, n \in S
      PROVE  n + 1 \in S
  <2>. SUFFICES ASSUME NEW ls \in Seq(LineSet), Len(ls) = n + 1
                PROVE  Stream(ls, ending) \in Streams
    OBVIOUS
  <2>1. ls # <<>>
    BY EmptySeq
  <2>2. PICK front \in Seq(LineSet), m \in LineSet : ls = Append(front, m)
    BY <2>1, SequenceEmptyOrAppend
  <2>3. Len(front) = n
    BY <2>2, AppendProperties, LenProperties
  <2>4. Stream(front, ending) \in Streams
    BY <1>3, <2>3
  <2>. QED
    BY <1>1, <2>2, <2>4
<1>. HIDE DEF S
<1>4. Nat \subseteq S
  BY <1>2, <1>3, SetInduction
<1>5. \A ls \in Seq(LineSet) : Stream(ls, ending) \in Streams
  BY <1>4, LenProperties DEF S
<1>. QED
  BY <1>1, <1>5

-----------------------------------------------------------------------------
(* The reference definition: what the parser makes of a line               *)

\* Fed text, the parser collects it, until the head is too long.
Collected(p, text, i, q) ==
  IF p.total + i <= MaxHead
    THEN q = [p EXCEPT !.total = p.total + i, !.line = SubSeq(text, 1, i)]
    ELSE q.event = "oversized_header"

LEMMA PushText ==
  ASSUME NEW p, Sound(p), p.event = "more", NEW unit \in UnitSet, unit # LF
  PROVE  IF p.total + 1 <= MaxHead
           THEN Push(p, unit) = [p EXCEPT !.total = p.total + 1, !.line = Append(p.line, unit)]
           ELSE Push(p, unit).event = "oversized_header"
<1> DEFINE counted == [p EXCEPT !.total = @ + 1]
<1>1. p \in ParserSet /\ p.total \in Nat /\ MaxHead \in Nat
  BY HeadAssumption DEF Sound, ParserSet
<1>2. counted \in ParserSet /\ counted.total = p.total + 1 /\ counted.line = p.line
  BY <1>1 DEF ParserSet
<1>3. CASE p.total + 1 <= MaxHead
  <2>1. ~Oversized(counted)
    BY <1>1, <1>2, <1>3 DEF Oversized
  <2>2. Push(p, unit) = [counted EXCEPT !.line = Append(@, unit)]
    BY <2>1 DEF Push
  <2>3. [counted EXCEPT !.line = Append(@, unit)]
          = [p EXCEPT !.total = p.total + 1, !.line = Append(p.line, unit)]
    BY <1>1 DEF ParserSet
  <2>. QED
    BY <1>3, <2>2, <2>3
<1>4. CASE ~(p.total + 1 <= MaxHead)
  <2>1. Oversized(counted)
    BY <1>1, <1>2, <1>4 DEF Oversized
  <2>2. Push(p, unit) = Reject(counted, "oversized_header")
    BY <2>1 DEF Push
  <2>3. "oversized_header" \in Errors
    BY DEF Errors
  <2>. HIDE DEF counted
  <2>. QED
    BY <1>2, <1>4, <2>2, <2>3, RejectType
<1>. QED
  BY <1>3, <1>4

LEMMA TextFed ==
  ASSUME NEW p, Sound(p), Within(p), p.event = "more", p.line = <<>>,
         NEW text \in Streams, \A i \in 1..Len(text) : text[i] # LF,
         NEW i \in 0..Len(text)
  PROVE  Collected(p, text, i, Fed(p, text)[i])
<1> DEFINE S == {k \in Nat : k <= Len(text) => Collected(p, text, k, Fed(p, text)[k])}
<1>1. /\ p \in ParserSet /\ p.total \in Nat /\ p.total <= MaxHead /\ MaxHead \in Nat
      /\ Len(text) \in Nat
  BY HeadAssumption, LenProperties DEF Sound, ParserSet, Within
<1>2. 0 \in S
  <2>1. Fed(p, text)[0] = p
    BY FedAt
  <2>2. SubSeq(text, 1, 0) = <<>>
    BY SubSeqEmpty
  <2>3. p = [p EXCEPT !.total = p.total + 0, !.line = <<>>]
    <3>1. p.total + 0 = p.total
      BY <1>1
    <3>2. p = [p EXCEPT !.total = p.total, !.line = p.line]
      BY <1>1 DEF ParserSet
    <3>. QED
      BY <3>1, <3>2
  <2>4. p.total + 0 <= MaxHead
    BY <1>1
  <2>. QED
    BY <2>1, <2>2, <2>3, <2>4 DEF Collected
<1>3. ASSUME NEW k \in Nat, k \in S
      PROVE  k + 1 \in S
  <2>. SUFFICES ASSUME k + 1 <= Len(text)
                PROVE  Collected(p, text, k + 1, Fed(p, text)[k + 1])
    OBVIOUS
  <2> DEFINE q == Fed(p, text)[k]
             unit == text[k + 1]
  <2>1. k + 1 \in 1..Len(text) /\ (k + 1) - 1 = k /\ k \in 0..Len(text) /\ k <= Len(text)
    BY <1>1
  <2>2. unit \in UnitSet /\ unit # LF
    BY <2>1, ElementOfSeq DEF Streams
  <2>3. Sound(q) /\ Fed(p, text)[k + 1] = Push(q, unit)
    BY <2>1, FedFacts, FedAt
  <2>4. Collected(p, text, k, q)
    BY <1>3, <2>1
  <2>. HIDE DEF q, unit
  <2>5. CASE p.total + k <= MaxHead
    <3>1. q = [p EXCEPT !.total = p.total + k, !.line = SubSeq(text, 1, k)]
      BY <2>4, <2>5 DEF Collected
    <3>2. q.event = "more" /\ q.total = p.total + k /\ q.line = SubSeq(text, 1, k)
      BY <1>1, <3>1 DEF ParserSet
    <3>3. IF q.total + 1 <= MaxHead
            THEN Push(q, unit) = [q EXCEPT !.total = q.total + 1, !.line = Append(q.line, unit)]
            ELSE Push(q, unit).event = "oversized_header"
      BY <2>2, <2>3, <3>2, PushText
    <3>4. Append(q.line, unit) = SubSeq(text, 1, k + 1)
      <4>1. SubSeq(text, 1, k + 1) = SubSeq(text, 1, k) \o <<unit>>
        <5>1. 1 \in 1..Len(text) /\ k + 1 \in 1..Len(text)
          BY <2>1
        <5>2. SubSeq(text, 1, k + 1) = SubSeq(text, 1, (k + 1) - 1) \o <<text[k + 1]>>
          BY <5>1, SubSeqRecursiveSecond DEF Streams
        <5>. QED
          BY <2>1, <5>2 DEF unit
      <4>2. SubSeq(text, 1, k) \in Streams
        BY <2>3, <3>2 DEF Sound, ParserSet
      <4>. QED
        BY <2>2, <3>2, <4>1, <4>2, AppendIsConcat DEF Streams
    <3>5. q.total + 1 = p.total + (k + 1)
      BY <1>1, <3>2
    <3>6. [q EXCEPT !.total = p.total + (k + 1), !.line = SubSeq(text, 1, k + 1)]
            = [p EXCEPT !.total = p.total + (k + 1), !.line = SubSeq(text, 1, k + 1)]
      BY <1>1, <3>1 DEF ParserSet
    <3>. QED
      BY <2>3, <3>3, <3>4, <3>5, <3>6 DEF Collected
  <2>6. CASE ~(p.total + k <= MaxHead)
    <3>1. q.event = "oversized_header"
      BY <2>4, <2>6 DEF Collected
    <3>2. "oversized_header" \in Errors
      BY DEF Errors
    <3>3. q.event # "more"
      BY <3>1
    <3>4. Push(q, unit) = q
      BY <2>2, <2>3, <3>3, PushStep
    <3>5. ~(p.total + (k + 1) <= MaxHead)
      BY <1>1, <2>6
    <3>. QED
      BY <2>3, <3>1, <3>4, <3>5 DEF Collected
  <2>. QED
    BY <2>5, <2>6
<1>. HIDE DEF S
<1>4. Nat \subseteq S
  BY <1>2, <1>3, SetInduction
<1>. QED
  BY <1>1, <1>4 DEF S

LEMMA OneFed ==
  ASSUME NEW p, NEW unit \in UnitSet
  PROVE  <<unit>> \in Streams /\ Feed(p, <<unit>>) = Push(p, unit)
<1>1. <<unit>> \in Streams /\ Len(<<unit>>) = 1 /\ <<unit>>[1] = unit
  BY DEF Streams
<1> DEFINE one == <<unit>>
<1>. HIDE DEF one
<1>2. one \in Streams /\ Len(one) = 1 /\ one[1] = unit
  BY <1>1 DEF one
<1>3. Fed(p, one)[0] = p /\ Fed(p, one)[1] = Push(Fed(p, one)[1 - 1], one[1])
  BY <1>2, FedAt
<1>. QED
  BY <1>1, <1>2, <1>3 DEF Feed, one

LEMMA TwoUnits ==
  ASSUME NEW a \in UnitSet, NEW b \in UnitSet
  PROVE  <<a>> \o <<b>> = <<a, b>>
<1> DEFINE x == <<a>>
           y == <<b>>
           z == <<a, b>>
<1>1. /\ x \in Streams /\ y \in Streams /\ z \in Streams
      /\ Len(x) = 1 /\ Len(y) = 1 /\ Len(z) = 2
      /\ x[1] = a /\ y[1] = b /\ z[1] = a /\ z[2] = b
  BY DEF Streams
<1>. HIDE DEF x, y, z
<1>2. x \o y = Append(x, b)
  BY <1>1, AppendIsConcat DEF Streams, y
<1>3. /\ Append(x, b) \in Streams /\ Len(Append(x, b)) = 2
      /\ Append(x, b)[1] = a /\ Append(x, b)[2] = b
  BY <1>1, AppendProperties DEF Streams
<1>4. \A i \in 1..2 : i = 1 \/ i = 2
  OBVIOUS
<1>5. Append(x, b) = z
  BY <1>1, <1>3, <1>4, SeqEqual DEF Streams
<1>. QED
  BY <1>2, <1>5 DEF x, y, z

\* The text that is collected before the LF that ends a line.
LEMMA LineText ==
  ASSUME NEW l \in LineSet, NEW ending \in Endings
  PROVE  \E text \in Streams :
           /\ l \o ending = text \o <<LF>> /\ Len(text) + 1 = Len(l) + Len(ending)
           /\ \A i \in 1..Len(text) : text[i] # LF
           /\ WithoutCR(text) = l
<1>1. /\ l \in Streams /\ Len(l) \in Nat /\ <<CR>> \in Streams /\ <<LF>> \in Streams
      /\ \A i \in 1..Len(l) : l[i] # CR /\ l[i] # LF
      /\ CR # LF
  BY LineTypes, LineEndUnits DEF LineSet, Streams, CR, LF, Unit
<1>2. CASE ending = <<LF>>
  <2>1. WithoutCR(l) = l
    <3>1. l # <<>> => Len(l) \in 1..Len(l)
      BY <1>1, EmptySeq DEF Streams
    <3>2. l # <<>> => Last(l) # CR
      BY <1>1, <3>1 DEF Last
    <3>. QED
      BY <3>2 DEF WithoutCR
  <2>2. Len(ending) = 1
    BY <1>2
  <2>. QED
    BY <1>1, <1>2, <2>1, <2>2
<1>3. CASE ending = <<CR, LF>>
  <2> DEFINE text == l \o <<CR>>
  <2>1. /\ text \in Streams /\ Len(text) = Len(l) + 1
        /\ \A i \in 1..Len(l) : text[i] = l[i]
        /\ text[Len(l) + 1] = CR
    <3>1. Len(<<CR>>) = 1 /\ <<CR>>[1] = CR
      OBVIOUS
    <3>2. /\ text \in Streams /\ Len(text) = Len(l) + 1
          /\ \A i \in 1..(Len(l) + 1) :
               text[i] = IF i <= Len(l) THEN l[i] ELSE <<CR>>[i - Len(l)]
      BY <1>1, <3>1, ConcatProperties DEF Streams
    <3>. HIDE DEF text
    <3>3. \A i \in 1..Len(l) : i \in 1..(Len(l) + 1) /\ i <= Len(l)
      BY <1>1
    <3>4. Len(l) + 1 \in 1..(Len(l) + 1) /\ ~(Len(l) + 1 <= Len(l)) /\ (Len(l) + 1) - Len(l) = 1
      BY <1>1
    <3>. QED
      BY <3>1, <3>2, <3>3, <3>4
  <2>2. l \o ending = text \o <<LF>>
    <3>1. <<CR>> \o <<LF>> = <<CR, LF>>
      BY LineEndUnits, TwoUnits
    <3>2. (l \o <<CR>>) \o <<LF>> = l \o (<<CR>> \o <<LF>>)
      BY <1>1, ConcatAssociative DEF Streams
    <3>. QED
      BY <1>3, <3>1, <3>2
  <2>. HIDE DEF text
  <2>3. \A i \in 1..Len(text) : text[i] # LF
    <3>1. \A i \in 1..Len(text) : i \in 1..Len(l) \/ i = Len(l) + 1
      BY <1>1, <2>1
    <3>. QED
      BY <1>1, <2>1, <3>1
  <2>4. WithoutCR(text) = l
    <3>1. text # <<>> /\ Last(text) = CR
      BY <1>1, <2>1, EmptySeq DEF Last
    <3>2. WithoutCR(text) = SubSeq(text, 1, Len(text) - 1) /\ Len(text) - 1 = Len(l)
      BY <1>1, <2>1, <3>1 DEF WithoutCR, Front
    <3>3. \A i \in 1..Len(l) : text[i] \in UnitSet
      BY <1>1, <2>1, ElementOfSeq DEF Streams
    <3>4. /\ SubSeq(text, 1, Len(l)) \in Streams
          /\ Len(SubSeq(text, 1, Len(l))) = Len(l)
          /\ \A i \in 1..Len(l) : SubSeq(text, 1, Len(l))[i] = text[i]
      <4>1. /\ SubSeq(text, 1, Len(l)) \in Streams
            /\ Len(SubSeq(text, 1, Len(l))) = IF 1 <= Len(l) THEN Len(l) - 1 + 1 ELSE 0
            /\ \A i \in 1..(Len(l) - 1 + 1) : SubSeq(text, 1, Len(l))[i] = text[1 + i - 1]
        BY <1>1, <3>3, SubSeqProperties DEF Streams
      <4>2. Len(l) - 1 + 1 = Len(l) /\ \A i \in 1..Len(l) : 1 + i - 1 = i
        BY <1>1
      <4>. QED
        BY <1>1, <4>1, <4>2
    <3>5. SubSeq(text, 1, Len(l)) = l
      BY <1>1, <2>1, <3>4, SeqEqual DEF Streams
    <3>. QED
      BY <3>2, <3>5
  <2>5. Len(ending) = 2 /\ Len(text) + 1 = Len(l) + 2
    BY <1>1, <1>3, <2>1
  <2>. QED
    BY <2>1, <2>2, <2>3, <2>4, <2>5
<1>. QED
  BY <1>2, <1>3 DEF Endings

\* A line with its ending comes down to one EndOfLine with the text of the line,
\* unless the head has grown too long by then.
LEMMA LineFed ==
  ASSUME NEW p, Sound(p), Within(p), p.event = "more", p.line = <<>>,
         NEW l \in LineSet, NEW ending \in Endings
  PROVE  LET size == Len(l) + Len(ending)
         IN  IF p.total + size <= MaxHead
               THEN Feed(p, l \o ending) = EndOfLine([p EXCEPT !.total = p.total + size], l)
               ELSE Feed(p, l \o ending).event = "oversized_header"
<1>1. PICK text \in Streams :
        /\ l \o ending = text \o <<LF>> /\ Len(text) + 1 = Len(l) + Len(ending)
        /\ \A i \in 1..Len(text) : text[i] # LF
        /\ WithoutCR(text) = l
  BY LineText
<1> DEFINE n == Len(text)
           q == Feed(p, text)
<1>2. /\ p \in ParserSet /\ p.total \in Nat /\ MaxHead \in Nat /\ n \in Nat
      /\ p.total + (n + 1) = (p.total + n) + 1
  BY HeadAssumption, LenProperties DEF Sound, ParserSet, Streams
<1>3. Feed(p, l \o ending) = Push(q, LF)
  BY <1>1, LineEndUnits, OneFed, FeedSplits
<1>4. Collected(p, text, n, q) /\ Sound(q)
  <2>1. n \in 0..Len(text)
    BY <1>2
  <2>. QED
    BY <1>1, <2>1, TextFed, FedFacts DEF Feed
<1>5. SubSeq(text, 1, n) = text
  BY SubSeqFull DEF Streams
<1>. HIDE DEF n, q
<1>6. CASE p.total + n <= MaxHead
  <2>1. q = [p EXCEPT !.total = p.total + n, !.line = text]
    BY <1>4, <1>5, <1>6 DEF Collected
  <2>2. q.event = "more" /\ q.total = p.total + n /\ q.line = text
    BY <1>2, <2>1 DEF ParserSet
  <2> DEFINE counted == [q EXCEPT !.total = @ + 1]
  <2>3. counted.total = p.total + (n + 1) /\ counted \in ParserSet
    <3>1. q \in ParserSet /\ q.total + 1 \in Nat /\ q.total + 1 = p.total + (n + 1)
      BY <1>2, <1>4, <2>2 DEF Sound
    <3>. QED
      BY <3>1 DEF ParserSet
  <2>4. [counted EXCEPT !.line = <<>>] = [p EXCEPT !.total = p.total + (n + 1)]
    <3>1. q.total + 1 = p.total + (n + 1)
      BY <1>2, <2>2
    <3>2. [[q EXCEPT !.total = p.total + (n + 1)] EXCEPT !.line = <<>>]
            = [p EXCEPT !.total = p.total + (n + 1)]
      BY <1>2, <2>1 DEF ParserSet
    <3>. QED
      BY <3>1, <3>2
  <2>5. CASE p.total + (n + 1) <= MaxHead
    <3>1. ~Oversized(counted)
      BY <1>2, <2>3, <2>5 DEF Oversized
    <3>2. Push(q, LF) = EndOfLine([counted EXCEPT !.line = <<>>], WithoutCR(q.line))
      BY <2>2, <3>1 DEF Push
    <3>. QED
      BY <1>1, <1>3, <2>2, <2>4, <2>5, <3>2 DEF n
  <2>6. CASE ~(p.total + (n + 1) <= MaxHead)
    <3>1. Oversized(counted)
      BY <1>2, <2>3, <2>6 DEF Oversized
    <3>2. Push(q, LF) = Reject(counted, "oversized_header")
      BY <2>2, <3>1 DEF Push
    <3>3. "oversized_header" \in Errors
      BY DEF Errors
    <3>. HIDE DEF counted
    <3>4. Push(q, LF).event = "oversized_header"
      BY <2>3, <3>2, <3>3, RejectType
    <3>. QED
      BY <1>1, <1>3, <2>6, <3>4 DEF n
  <2>. QED
    BY <2>5, <2>6
<1>7. CASE ~(p.total + n <= MaxHead)
  <2>1. q.event = "oversized_header" /\ q.event # "more"
    BY <1>4, <1>7 DEF Collected
  <2>2. Push(q, LF) = q
    BY <1>4, <2>1, LineEndUnits, PushStep
  <2>3. ~(p.total + (n + 1) <= MaxHead)
    BY <1>2, <1>7
  <2>. QED
    BY <1>1, <1>3, <2>1, <2>2, <2>3 DEF n
<1>. QED
  BY <1>6, <1>7

\* What may stand in a head before its empty line: the status line, then headers
\* of which at most one is a length.
HasLine(lines, kind) == \E i \in 2..Len(lines) : IsLine(lines[i], kind)

Readable(lines) ==
  /\ lines # <<>> => IsLine(lines[1], "status")
  /\ \A i \in 2..Len(lines) : \E kind \in {"length", "chunked", "field"} : IsLine(lines[i], kind)
  /\ \A i, j \in 2..Len(lines) :
       IsLine(lines[i], "length") /\ IsLine(lines[j], "length") => i = j

\* What the parser has recorded when it has been fed the lines.
Recorded(p, lines) ==
  /\ p.state = IF lines = <<>> THEN "status" ELSE "headers"
  /\ lines # <<>> => p.status = lines[1][1].n
  /\ p.chunked <=> HasLine(lines, "chunked")
  /\ p.length = NoLength <=> ~HasLine(lines, "length")
  /\ \A i \in 2..Len(lines) : IsLine(lines[i], "length") => p.length = lines[i][1].n

Reads(p, lines, size) ==
  IF Readable(lines) /\ size <= MaxHead
    THEN p.event = "more" /\ p.line = <<>> /\ p.total = size /\ Recorded(p, lines)
    ELSE p.event \in Errors

LEMMA LastLine ==
  ASSUME NEW lines \in Seq(LineSet), NEW l \in LineSet
  PROVE  LET more == Append(lines, l)
             n    == Len(lines)
         IN  /\ more \in Seq(LineSet) /\ more # <<>> /\ Len(more) = n + 1 /\ n \in Nat
             /\ more[n + 1] = l
             /\ \A i \in 1..n : more[i] = lines[i]
             /\ n = 0 <=> lines = <<>>
             /\ \A i \in 2..(n + 1) : i \in 2..n \/ i = n + 1
             /\ n # 0 => n + 1 \in 2..(n + 1)
<1>1. /\ Append(lines, l) \in Seq(LineSet) /\ Len(Append(lines, l)) = Len(lines) + 1
      /\ Append(lines, l)[Len(lines) + 1] = l
      /\ \A i \in 1..Len(lines) : Append(lines, l)[i] = lines[i]
  BY AppendProperties
<1>2. Len(lines) \in Nat /\ (Len(lines) = 0 <=> lines = <<>>)
  BY LenProperties, EmptySeq
<1>3. Append(lines, l) # <<>>
  BY <1>1, <1>2, EmptySeq
<1>. QED
  BY <1>1, <1>2, <1>3

LEMMA HasLineAppend ==
  ASSUME NEW lines \in Seq(LineSet), NEW l \in LineSet, NEW kind
  PROVE  HasLine(Append(lines, l), kind)
           <=> HasLine(lines, kind) \/ (lines # <<>> /\ IsLine(l, kind))
<1> DEFINE more == Append(lines, l)
           n == Len(lines)
<1>1. /\ Len(more) = n + 1 /\ n \in Nat /\ more[n + 1] = l
      /\ \A i \in 1..n : more[i] = lines[i]
      /\ n = 0 <=> lines = <<>>
      /\ \A i \in 2..(n + 1) : i \in 2..n \/ i = n + 1
      /\ n # 0 => n + 1 \in 2..(n + 1)
  BY LastLine
<1>. HIDE DEF more
<1>2. \A i \in 2..n : i \in 1..n /\ i \in 2..(n + 1)
  BY <1>1
<1>3. HasLine(more, kind) <=> \E i \in 2..(n + 1) : IsLine(more[i], kind)
  BY <1>1 DEF HasLine
<1>4. HasLine(lines, kind) <=> \E i \in 2..n : IsLine(lines[i], kind)
  BY DEF HasLine
<1>. HIDE DEF n
<1>5. ASSUME HasLine(more, kind)
      PROVE  HasLine(lines, kind) \/ (lines # <<>> /\ IsLine(l, kind))
  <2>1. PICK i \in 2..(n + 1) : IsLine(more[i], kind)
    BY <1>3, <1>5
  <2>2. CASE i \in 2..n
    BY <1>1, <1>2, <1>4, <2>1, <2>2
  <2>3. CASE i = n + 1
    <3>1. n # 0
      BY <1>1, <2>1, <2>3
    <3>. QED
      BY <1>1, <2>1, <2>3, <3>1
  <2>. QED
    BY <1>1, <2>1, <2>2, <2>3
<1>6. ASSUME HasLine(lines, kind)
      PROVE  HasLine(more, kind)
  <2>1. PICK i \in 2..n : IsLine(lines[i], kind)
    BY <1>4, <1>6
  <2>. QED
    BY <1>1, <1>2, <1>3, <2>1
<1>7. ASSUME lines # <<>>, IsLine(l, kind)
      PROVE  HasLine(more, kind)
  BY <1>1, <1>3, <1>7
<1>. QED
  BY <1>5, <1>6, <1>7 DEF more

LEMMA ReadableAppend ==
  ASSUME NEW lines \in Seq(LineSet), NEW l \in LineSet
  PROVE  /\ Readable(Append(lines, l)) => Readable(lines)
         /\ lines = <<>> => (Readable(Append(lines, l)) <=> IsLine(l, "status"))
         /\ lines # <<>> /\ Readable(lines) =>
              (Readable(Append(lines, l)) <=>
                 \/ IsLine(l, "length") /\ ~HasLine(lines, "length")
                 \/ IsLine(l, "chunked")
                 \/ IsLine(l, "field"))
<1> DEFINE more == Append(lines, l)
           n == Len(lines)
           Known(x) == \E kind \in {"length", "chunked", "field"} : IsLine(x, kind)
           Size(x) == IsLine(x, "length")
<1>1. /\ Len(more) = n + 1 /\ n \in Nat /\ more # <<>> /\ more[n + 1] = l
      /\ \A i \in 1..n : more[i] = lines[i]
      /\ n = 0 <=> lines = <<>>
      /\ \A i \in 2..(n + 1) : i \in 2..n \/ i = n + 1
      /\ n # 0 => n + 1 \in 2..(n + 1)
  BY LastLine
<1>2. \A i \in 2..n : i \in 1..n /\ i \in 2..(n + 1) /\ i # n + 1
  BY <1>1
<1>. HIDE DEF more
<1>3. Readable(more) <=> /\ IsLine(more[1], "status")
                         /\ \A i \in 2..(n + 1) : Known(more[i])
                         /\ \A i, j \in 2..(n + 1) : Size(more[i]) /\ Size(more[j]) => i = j
  BY <1>1 DEF Readable
<1>4. Readable(lines) <=> /\ lines # <<>> => IsLine(lines[1], "status")
                          /\ \A i \in 2..n : Known(lines[i])
                          /\ \A i, j \in 2..n : Size(lines[i]) /\ Size(lines[j]) => i = j
  BY DEF Readable
<1>5. HasLine(lines, "length") <=> \E i \in 2..n : Size(lines[i])
  BY DEF HasLine
<1>6. n # 0 => 1 \in 1..n
  BY <1>1
<1>7. Known(l) <=> Size(l) \/ IsLine(l, "chunked") \/ IsLine(l, "field")
  OBVIOUS
<1>. HIDE DEF n, Known, Size
<1>8. Readable(more) => Readable(lines)
  BY <1>1, <1>2, <1>3, <1>4, <1>6
<1>9. ASSUME lines = <<>>
      PROVE  Readable(more) <=> IsLine(l, "status")
  <2>1. n = 0 /\ n + 1 = 1 /\ 2..(n + 1) = {}
    BY <1>1, <1>9
  <2>. QED
    BY <1>1, <1>3, <2>1
<1>10. ASSUME lines # <<>>, Readable(lines)
       PROVE  Readable(more) <=> Known(l) /\ (Size(l) => ~HasLine(lines, "length"))
  <2>1. n # 0 /\ n + 1 \in 2..(n + 1) /\ 1 \in 1..n
    BY <1>1, <1>6, <1>10
  <2>2. ASSUME Readable(more)
        PROVE  Known(l) /\ (Size(l) => ~HasLine(lines, "length"))
    BY <1>1, <1>2, <1>3, <1>5, <2>1, <2>2
  <2>3. ASSUME Known(l), Size(l) => ~HasLine(lines, "length")
        PROVE  Readable(more)
    <3>1. IsLine(more[1], "status")
      BY <1>1, <1>4, <1>10, <2>1
    <3>2. \A i \in 2..(n + 1) : Known(more[i])
      BY <1>1, <1>2, <1>4, <1>10, <2>3
    <3>3. ASSUME NEW i \in 2..(n + 1), NEW j \in 2..(n + 1), Size(more[i]), Size(more[j])
          PROVE  i = j
      <4>1. CASE i \in 2..n /\ j \in 2..n
        BY <1>1, <1>2, <1>4, <1>10, <3>3, <4>1
      <4>2. CASE i \in 2..n /\ j = n + 1
        BY <1>1, <1>2, <1>5, <2>3, <3>3, <4>2
      <4>3. CASE i = n + 1 /\ j \in 2..n
        BY <1>1, <1>2, <1>5, <2>3, <3>3, <4>3
      <4>. QED
        BY <1>1, <3>3, <4>1, <4>2, <4>3
    <3>. QED
      BY <1>3, <3>1, <3>2, <3>3
  <2>. QED
    BY <2>2, <2>3
<1>11. /\ Size(l) <=> IsLine(l, "length")
       /\ IsLine(l, "chunked") \/ IsLine(l, "field") => ~IsLine(l, "length")
  BY DEF Size, IsLine
<1>12. Known(l) /\ (Size(l) => ~HasLine(lines, "length"))
         <=> \/ IsLine(l, "length") /\ ~HasLine(lines, "length")
             \/ IsLine(l, "chunked")
             \/ IsLine(l, "field")
  BY <1>7, <1>11
<1>. QED
  BY <1>8, <1>9, <1>10, <1>12 DEF more

\* What one line that is not empty does to a parser that has recorded the lines
\* before it: it records the line too, or refuses it.
LEMMA LineRecorded ==
  ASSUME NEW p \in ParserSet, p.event = "more", NEW lines \in Seq(LineSet),
         Recorded(p, lines), Readable(lines),
         NEW l \in LineSet, lines # <<>> => l # <<>>
  PROVE  IF Readable(Append(lines, l))
           THEN /\ EndOfLine(p, l).event = "more" /\ EndOfLine(p, l).line = p.line
                /\ EndOfLine(p, l).total = p.total
                /\ Recorded(EndOfLine(p, l), Append(lines, l))
           ELSE EndOfLine(p, l).event \in Errors
<1> DEFINE more == Append(lines, l)
           n == Len(lines)
           r == EndOfLine(p, l)
<1>1. /\ Len(more) = n + 1 /\ n \in Nat /\ more # <<>> /\ more[n + 1] = l
      /\ \A i \in 1..n : more[i] = lines[i]
      /\ n = 0 <=> lines = <<>>
      /\ \A i \in 2..(n + 1) : i \in 2..n \/ i = n + 1
      /\ n # 0 => n + 1 \in 2..(n + 1)
  BY LastLine
<1>2. \A i \in 2..n : i \in 1..n
  OBVIOUS
<1>3. /\ HasLine(more, "chunked") <=> HasLine(lines, "chunked") \/ (lines # <<>> /\ IsLine(l, "chunked"))
      /\ HasLine(more, "length") <=> HasLine(lines, "length") \/ (lines # <<>> /\ IsLine(l, "length"))
  BY HasLineAppend
<1>4. /\ lines = <<>> => (Readable(more) <=> IsLine(l, "status"))
      /\ lines # <<>> => (Readable(more) <=> \/ IsLine(l, "length") /\ ~HasLine(lines, "length")
                                             \/ IsLine(l, "chunked")
                                             \/ IsLine(l, "field"))
  BY ReadableAppend
<1>5. l \in Streams /\ (IsLine(l, "status") \/ IsLine(l, "length") => l[1].n \in Nat)
  <2>1. l \in Streams
    BY DEF LineSet
  <2>2. ASSUME Len(l) = 1
        PROVE  l[1].n \in Nat
    <3>1. 1 \in 1..Len(l)
      BY <2>2
    <3>2. l[1] \in UnitSet
      BY <2>1, <3>1, ElementOfSeq DEF Streams
    <3>. QED
      BY <3>2 DEF UnitSet
  <2>. QED
    BY <2>1, <2>2 DEF IsLine
<1>6. /\ Reject(p, "malformed_status").event \in Errors
      /\ Reject(p, "malformed_header").event \in Errors
      /\ Reject(p, "duplicate_content_length").event \in Errors
  BY RejectType DEF Errors
<1>. HIDE DEF more
<1>7. CASE lines = <<>>
  <2>1. p.state = "status" /\ p.chunked = FALSE /\ p.length = NoLength /\ 2..(n + 1) = {} /\ more[1] = l
    <3>1. n = 0 /\ 2..n = {} /\ 2..(n + 1) = {} /\ n + 1 = 1
      BY <1>1, <1>7
    <3>2. ~HasLine(lines, "chunked") /\ ~HasLine(lines, "length")
      BY <3>1 DEF HasLine
    <3>. QED
      BY <1>1, <1>7, <3>1, <3>2 DEF Recorded, ParserSet
  <2>2. CASE IsLine(l, "status")
    <3>1. r = [p EXCEPT !.state = "headers", !.status = l[1].n]
      BY <2>1, <2>2 DEF EndOfLine
    <3>. HIDE DEF r
    <3>2. /\ r.event = p.event /\ r.line = p.line /\ r.total = p.total
          /\ r.state = "headers" /\ r.status = l[1].n
          /\ r.chunked = p.chunked /\ r.length = p.length
      BY <3>1 DEF ParserSet
    <3>3. ~HasLine(more, "chunked") /\ ~HasLine(more, "length")
      BY <1>1, <2>1 DEF HasLine
    <3>4. Recorded(r, more)
      BY <1>1, <2>1, <3>2, <3>3 DEF Recorded
    <3>. QED
      BY <1>4, <1>7, <2>2, <3>2, <3>4 DEF more, r
  <2>3. CASE ~IsLine(l, "status")
    <3>1. r = Reject(p, "malformed_status")
      BY <2>1, <2>3 DEF EndOfLine
    <3>2. ~Readable(more)
      BY <1>4, <1>7, <2>3
    <3>. QED
      BY <1>6, <3>1, <3>2 DEF more
  <2>. QED
    BY <2>2, <2>3
<1>8. CASE lines # <<>>
  <2>1. p.state = "headers" /\ r = Header(p, l)
    BY <1>8 DEF Recorded, EndOfLine
  <2>2. /\ p.status = lines[1][1].n /\ more[1] = lines[1]
        /\ p.chunked <=> HasLine(lines, "chunked")
        /\ p.length = NoLength <=> ~HasLine(lines, "length")
        /\ \A i \in 2..n : IsLine(lines[i], "length") => p.length = lines[i][1].n
        /\ \A i \in 2..n : more[i] = lines[i]
    <3>1. 1 \in 1..n
      BY <1>1, <1>8
    <3>. QED
      BY <1>1, <1>2, <1>8, <3>1 DEF Recorded
  <2>3. CASE IsLine(l, "length") /\ ~HasLine(lines, "length")
    <3>1. r = [p EXCEPT !.length = l[1].n]
      <4>1. p.length = NoLength
        BY <2>2, <2>3
      <4>. QED
        BY <2>1, <2>3, <4>1 DEF Header, IsLine
    <3>. HIDE DEF r
    <3>2. /\ r.event = p.event /\ r.line = p.line /\ r.total = p.total
          /\ r.state = "headers" /\ r.status = p.status
          /\ r.chunked = p.chunked /\ r.length = l[1].n /\ r.length # NoLength
      BY <1>5, <2>1, <2>3, <3>1 DEF ParserSet, NoLength
    <3>3. /\ HasLine(more, "length")
          /\ HasLine(more, "chunked") <=> HasLine(lines, "chunked")
      BY <1>3, <1>8, <2>3 DEF IsLine
    <3>4. ASSUME NEW i \in 2..Len(more), IsLine(more[i], "length")
          PROVE  r.length = more[i][1].n
      <4>1. CASE i \in 2..n
        BY <2>2, <2>3, <3>4, <4>1 DEF HasLine
      <4>2. CASE i = n + 1
        BY <1>1, <3>2, <4>2
      <4>. QED
        BY <1>1, <4>1, <4>2
    <3>5. Recorded(r, more)
      BY <1>1, <2>2, <3>2, <3>3, <3>4 DEF Recorded
    <3>. QED
      BY <1>4, <1>8, <2>3, <3>2, <3>5 DEF more, r
  <2>4. CASE IsLine(l, "length") /\ HasLine(lines, "length")
    <3>1. r = Reject(p, "duplicate_content_length")
      <4>1. p.length # NoLength
        BY <2>2, <2>4
      <4>. QED
        BY <2>1, <2>4, <4>1 DEF Header, IsLine
    <3>2. ~Readable(more)
      BY <1>4, <1>8, <2>4 DEF IsLine
    <3>. QED
      BY <1>6, <3>1, <3>2 DEF more
  <2>5. ASSUME NEW flag \in BOOLEAN, flag = IsLine(l, "chunked"),
               IsLine(l, "chunked") \/ IsLine(l, "field")
        PROVE  r.event = "more" /\ r.line = p.line /\ r.total = p.total /\ Recorded(r, more)
    <3>1. r = IF flag THEN [p EXCEPT !.chunked = TRUE] ELSE p
      BY <2>1, <2>5 DEF Header, IsLine
    <3>. HIDE DEF r
    <3>2. /\ r.event = p.event /\ r.line = p.line /\ r.total = p.total
          /\ r.state = "headers" /\ r.status = p.status
          /\ r.chunked <=> p.chunked \/ flag
          /\ r.length = p.length
      BY <2>1, <3>1 DEF ParserSet
    <3>3. /\ HasLine(more, "length") <=> HasLine(lines, "length")
          /\ HasLine(more, "chunked") <=> HasLine(lines, "chunked") \/ flag
          /\ ~IsLine(more[n + 1], "length")
      BY <1>1, <1>3, <1>8, <2>5 DEF IsLine
    <3>4. ASSUME NEW i \in 2..Len(more), IsLine(more[i], "length")
          PROVE  r.length = more[i][1].n
      <4>1. i \in 2..n
        BY <1>1, <3>3, <3>4
      <4>. QED
        BY <2>2, <3>2, <3>4, <4>1
    <3>. QED
      BY <1>1, <2>2, <3>2, <3>3, <3>4 DEF Recorded
  <2>6. CASE IsLine(l, "chunked") \/ IsLine(l, "field")
    <3>1. /\ r.event = "more" /\ r.line = p.line /\ r.total = p.total
          /\ Recorded(r, more)
      <4>1. IsLine(l, "chunked") \in BOOLEAN
        BY DEF IsLine
      <4>. QED
        BY <2>5, <2>6, <4>1
    <3>2. Readable(more)
      BY <1>4, <1>8, <2>6
    <3>. QED
      BY <3>1, <3>2 DEF more
  <2>7. CASE ~IsLine(l, "length") /\ ~IsLine(l, "chunked") /\ ~IsLine(l, "field")
    <3>1. r = Reject(p, "malformed_header")
      BY <2>1, <2>7 DEF Header
    <3>2. ~Readable(more)
      BY <1>4, <1>8, <2>7
    <3>. QED
      BY <1>6, <3>1, <3>2 DEF more
  <2>. QED
    BY <2>3, <2>4, <2>6, <2>7
<1>. QED
  BY <1>7, <1>8

\* A parser that is over, in error or complete, stays as it is whatever it is fed.
LEMMA OverStays ==
  ASSUME NEW p, Sound(p), p.event # "more", NEW units \in Streams
  PROVE  Feed(p, units) = p
<1>1. Len(units) \in Nat
  BY LenProperties
<1>2. 0 \in 0..Len(units) /\ Len(units) \in 0..Len(units) /\ Fed(p, units)[0] = p
  BY <1>1, FedAt
<1>. QED
  BY <1>2, FedOver DEF Feed

LEMMA LineRead ==
  ASSUME NEW p, Sound(p), Within(p), NEW lines \in Seq(LineSet), NEW size \in Nat,
         Reads(p, lines, size), NEW ending \in Endings,
         NEW l \in LineSet, lines # <<>> => l # <<>>
  PROVE  Reads(Feed(p, l \o ending), Append(lines, l), size + (Len(l) + Len(ending)))
<1> DEFINE more == Append(lines, l)
           long == Len(l) + Len(ending)
           q == Feed(p, l \o ending)
<1>1. long \in Nat /\ l \o ending \in Streams /\ MaxHead \in Nat
  BY LineTypes, HeadAssumption
<1>2. (Readable(more) => Readable(lines)) /\ more # <<>>
  BY ReadableAppend, LastLine
<1>3. "more" \notin Errors /\ "oversized_header" \in Errors
  BY DEF Errors
<1>4. IF Readable(lines) /\ size <= MaxHead
        THEN p.event = "more" /\ p.line = <<>> /\ p.total = size /\ Recorded(p, lines)
        ELSE p.event \in Errors
  BY DEF Reads
<1>5. IF Readable(more) /\ size + long <= MaxHead
        THEN q.event = "more" /\ q.line = <<>> /\ q.total = size + long /\ Recorded(q, more)
        ELSE q.event \in Errors
  <2>1. CASE ~(Readable(lines) /\ size <= MaxHead)
    <3>1. p.event \in Errors /\ p.event # "more"
      BY <1>3, <1>4, <2>1
    <3>2. q = p
      BY <1>1, <3>1, OverStays
    <3>3. ~(Readable(more) /\ size + long <= MaxHead)
      BY <1>1, <1>2, <2>1
    <3>. QED
      BY <3>1, <3>2, <3>3
  <2>2. CASE Readable(lines) /\ size <= MaxHead
    <3>1. p.event = "more" /\ p.line = <<>> /\ p.total = size /\ Recorded(p, lines)
      BY <1>4, <2>2
    <3> DEFINE c == [p EXCEPT !.total = p.total + long]
    <3>2. IF p.total + long <= MaxHead
            THEN q = EndOfLine(c, l)
            ELSE q.event = "oversized_header"
      BY <3>1, LineFed
    <3>3. CASE size + long <= MaxHead
      <4>1. q = EndOfLine(c, l)
        BY <3>1, <3>2, <3>3
      <4>2. /\ c \in ParserSet /\ c.event = "more" /\ c.line = <<>> /\ c.total = size + long
            /\ c.state = p.state /\ c.status = p.status /\ c.chunked = p.chunked
            /\ c.length = p.length
        BY <1>1, <3>1 DEF Sound, ParserSet
      <4>. HIDE DEF c
      <4>3. Recorded(c, lines)
        BY <3>1, <4>2 DEF Recorded
      <4>4. IF Readable(more)
              THEN /\ EndOfLine(c, l).event = "more" /\ EndOfLine(c, l).line = c.line
                   /\ EndOfLine(c, l).total = c.total
                   /\ Recorded(EndOfLine(c, l), more)
              ELSE EndOfLine(c, l).event \in Errors
        BY <2>2, <4>2, <4>3, LineRecorded
      <4>. HIDE DEF q, more
      <4>. QED
        BY <3>3, <4>1, <4>2, <4>4
    <3>4. CASE ~(size + long <= MaxHead)
      BY <1>3, <3>1, <3>2, <3>4
    <3>. QED
      BY <3>3, <3>4
  <2>. QED
    BY <2>1, <2>2
<1>. QED
  BY <1>5 DEF Reads

\* Only the first line may be empty.
Plain(lines) == \A i \in 2..Len(lines) : lines[i] # <<>>

\* Fed lines none of which ends the head, the parser has recorded them, unless
\* one of them can not stand there or they are too long.
LEMMA LinesRead ==
  ASSUME NEW ending \in Endings, NEW lines \in Seq(LineSet), Plain(lines)
  PROVE  Reads(Feed(NewParser, Stream(lines, ending)), lines, Len(Stream(lines, ending)))
<1> DEFINE Holds(ls) == Reads(Feed(NewParser, Stream(ls, ending)), ls, Len(Stream(ls, ending)))
           S == {n \in Nat : \A ls \in Seq(LineSet) : Len(ls) = n /\ Plain(ls) => Holds(ls)}
<1>1. 0 \in S
  <2>1. Holds(<<>>)
    <3> DEFINE none == <<>>
    <3>1. none \in Streams /\ Len(none) = 0
      BY EmptySeq DEF Streams
    <3>2. Feed(NewParser, none) = NewParser
      <4>. HIDE DEF none
      <4>. QED
        BY <3>1, FedAt DEF Feed
    <3>3. 2..Len(none) = {}
      BY <3>1
    <3>4. Readable(none) /\ ~HasLine(none, "chunked") /\ ~HasLine(none, "length")
      BY <3>3 DEF Readable, HasLine
    <3>5. Recorded(NewParser, none)
      BY <3>3, <3>4 DEF Recorded, NewParser
    <3>6. NewParser.event = "more" /\ NewParser.line = none /\ NewParser.total = 0 /\ 0 <= MaxHead
      BY HeadAssumption DEF NewParser
    <3>7. Reads(NewParser, none, 0)
      BY <3>4, <3>5, <3>6 DEF Reads
    <3>. QED
      BY <3>1, <3>2, <3>7, StreamOfNone
  <2>2. \A ls \in Seq(LineSet) : Len(ls) = 0 => ls = <<>>
    BY EmptySeq
  <2>. QED
    BY <2>1, <2>2
<1>2. ASSUME NEW n \in Nat, n \in S
      PROVE  n + 1 \in S
  <2>. SUFFICES ASSUME NEW ls \in Seq(LineSet), Len(ls) = n + 1, Plain(ls)
                PROVE  Holds(ls)
    OBVIOUS
  <2>1. ls # <<>>
    BY EmptySeq
  <2>2. PICK front \in Seq(LineSet), l \in LineSet : ls = Append(front, l)
    BY <2>1, SequenceEmptyOrAppend
  <2>3. /\ Len(ls) = Len(front) + 1 /\ Len(front) \in Nat
        /\ ls[Len(front) + 1] = l
        /\ \A i \in 1..Len(front) : ls[i] = front[i]
        /\ Len(front) = 0 <=> front = <<>>
        /\ Len(front) # 0 => Len(front) + 1 \in 2..(Len(front) + 1)
    BY <2>2, LastLine
  <2>4. Len(front) = n
    BY <2>3
  <2>5. Plain(front) /\ (front # <<>> => l # <<>>)
    <3>1. \A i \in 2..Len(front) : i \in 1..Len(front) /\ i \in 2..Len(ls)
      BY <2>3
    <3>2. \A i \in 2..Len(front) : front[i] # <<>>
      BY <2>3, <3>1 DEF Plain
    <3>3. front # <<>> => l # <<>>
      BY <2>3 DEF Plain
    <3>. QED
      BY <3>2, <3>3 DEF Plain
  <2> DEFINE s == Stream(front, ending)
             p == Feed(NewParser, s)
  <2>6. Reads(p, front, Len(s))
    BY <1>2, <2>4, <2>5
  <2>7. s \in Streams /\ Stream(ls, ending) = s \o (l \o ending)
    BY <2>2, StreamAppend
  <2>8. l \o ending \in Streams /\ Len(l \o ending) = Len(l) + Len(ending) /\ Len(s) \in Nat
    BY <2>7, LineTypes, LenProperties DEF Streams
  <2>. HIDE DEF s
  <2>9. Sound(p) /\ Within(p)
    <3>1. Len(s) \in 0..Len(s)
      BY <2>8
    <3>. QED
      BY <2>7, <3>1, NewParserSound, FedFacts DEF Feed
  <2>10. Feed(NewParser, Stream(ls, ending)) = Feed(p, l \o ending)
    BY <2>7, <2>8, FeedSplits
  <2>11. Len(Stream(ls, ending)) = Len(s) + (Len(l) + Len(ending))
    BY <2>7, <2>8, ConcatProperties DEF Streams
  <2>. HIDE DEF p
  <2>12. Reads(Feed(p, l \o ending), ls, Len(s) + (Len(l) + Len(ending)))
    BY <2>2, <2>5, <2>6, <2>8, <2>9, LineRead
  <2>. QED
    BY <2>10, <2>11, <2>12
<1>3. Nat \subseteq S
  <2>. HIDE DEF S
  <2>. QED
    BY <1>1, <1>2, SetInduction
<1>4. Len(lines) \in Nat
  BY LenProperties
<1>. QED
  BY <1>3, <1>4

\* Which heads the reference accepts, in terms of the lines before the empty one.
LEMMA AcceptableHead ==
  ASSUME NEW front \in Seq(LineSet), front # <<>>, NEW size \in Nat
  PROVE  Acceptable(Append(front, <<>>), size)
           <=> /\ size <= MaxHead /\ Readable(front) /\ StatusAccepted(front[1][1].n)
               /\ ~HasLine(front, "chunked")
               /\ HasLine(front, "length") \/ front[1][1].n = 404
<1> DEFINE none == <<>>
           lines == Append(front, none)
           n == Len(front)
           lengths == {i \in 2..Len(lines) : IsLine(lines[i], "length")}
           Size(x) == IsLine(x, "length")
           Chunk(x) == IsLine(x, "chunked")
           Other(x) == IsLine(x, "field")
           status == front[1][1].n
<1>1. none \in LineSet /\ \A kind : ~IsLine(none, kind)
  <2>1. none \in Streams /\ Len(none) = 0
    BY EmptySeq DEF Streams
  <2>. HIDE DEF none
  <2>. QED
    BY <2>1 DEF LineSet, IsLine
<1>. HIDE DEF none
<1>2. /\ Len(lines) = n + 1 /\ n \in Nat /\ n # 0 /\ lines # <<>>
      /\ lines[n + 1] = none
      /\ \A i \in 1..n : lines[i] = front[i]
      /\ \A i \in 2..(n + 1) : i \in 2..n \/ i = n + 1
  BY <1>1, LastLine
<1>3. /\ \A i \in 2..n : i \in 1..n /\ i \in 2..(n + 1)
      /\ 1 \in 1..n /\ n + 1 >= 2 /\ (n + 1) - 1 = n
  BY <1>2
<1>4. lines[1] = front[1] /\ \A i \in 2..n : lines[i] = front[i]
  BY <1>2, <1>3
<1>5. Acceptable(lines, size)
        <=> /\ size <= MaxHead /\ IsLine(lines[1], "status") /\ StatusAccepted(lines[1][1].n)
            /\ lines[Len(lines)] = <<>>
            /\ \A i \in 2..(Len(lines) - 1) : Size(lines[i]) \/ Other(lines[i])
            /\ \/ \E i \in lengths : lengths = {i}
               \/ lengths = {} /\ lines[1][1].n = 404
  <2>1. Len(lines) >= 2
    BY <1>2, <1>3
  <2>. HIDE DEF lines
  <2>. QED
    BY <2>1 DEF Acceptable
<1>6. lengths = {i \in 2..n : Size(front[i])}
  <2>1. \A i \in 2..(n + 1) : IsLine(lines[i], "length") <=> i \in 2..n /\ Size(front[i])
    <3>1. ASSUME NEW i \in 2..(n + 1), i \in 2..n
          PROVE  IsLine(lines[i], "length") <=> Size(front[i])
      BY <1>4, <3>1
    <3>2. ~IsLine(lines[n + 1], "length") /\ n + 1 \notin 2..n
      BY <1>1, <1>2
    <3>. HIDE DEF lines, Size, n
    <3>. QED
      BY <1>2, <3>1, <3>2
  <2>2. Len(lines) = n + 1
    BY <1>2
  <2>. HIDE DEF lines, n, Size
  <2>. QED
    BY <1>3, <2>1, <2>2
<1>7. Acceptable(lines, size)
        <=> /\ size <= MaxHead /\ IsLine(front[1], "status") /\ StatusAccepted(status)
            /\ \A i \in 2..n : Size(front[i]) \/ Other(front[i])
            /\ \/ \E i \in lengths : lengths = {i}
               \/ lengths = {} /\ status = 404
  <2>1. lines[Len(lines)] = <<>> /\ Len(lines) - 1 = n
    BY <1>2, <1>3 DEF none
  <2>2. \A i \in 2..n : lines[i] = front[i]
    BY <1>4
  <2>. HIDE DEF lines, lengths, n, Size, Other
  <2>. QED
    BY <1>4, <1>5, <2>1, <2>2
<1>8. \A x : /\ Size(x) => ~Chunk(x) /\ ~Other(x)
             /\ Other(x) => ~Chunk(x) /\ ~Size(x)
  BY DEF IsLine
<1>9. /\ Readable(front)
           <=> /\ IsLine(front[1], "status")
               /\ \A i \in 2..n : Size(front[i]) \/ Chunk(front[i]) \/ Other(front[i])
               /\ \A i, j \in 2..n : Size(front[i]) /\ Size(front[j]) => i = j
      /\ HasLine(front, "chunked") <=> \E i \in 2..n : Chunk(front[i])
      /\ HasLine(front, "length") <=> \E i \in 2..n : Size(front[i])
  BY DEF Readable, HasLine
<1>. HIDE DEF n, Size, Chunk, Other, lengths, status, lines
<1>10. ASSUME Acceptable(lines, size)
       PROVE  /\ size <= MaxHead /\ Readable(front) /\ StatusAccepted(status)
              /\ ~HasLine(front, "chunked")
              /\ HasLine(front, "length") \/ status = 404
  <2>1. \A i, j \in 2..n : Size(front[i]) /\ Size(front[j]) => i = j
    BY <1>6, <1>7, <1>10
  <2>2. ~HasLine(front, "chunked")
    BY <1>7, <1>8, <1>9, <1>10
  <2>3. HasLine(front, "length") \/ status = 404
    BY <1>6, <1>7, <1>9, <1>10
  <2>. QED
    BY <1>7, <1>9, <1>10, <2>1, <2>2, <2>3
<1>11. ASSUME /\ size <= MaxHead /\ Readable(front) /\ StatusAccepted(status)
              /\ ~HasLine(front, "chunked")
              /\ HasLine(front, "length") \/ status = 404
       PROVE  Acceptable(lines, size)
  <2>1. CASE HasLine(front, "length")
    <3>1. PICK i \in 2..n : Size(front[i])
      BY <1>9, <2>1
    <3>2. i \in lengths /\ lengths = {i}
      BY <1>6, <1>9, <1>11, <3>1
    <3>. QED
      BY <1>7, <1>9, <1>11, <3>2
  <2>2. CASE ~HasLine(front, "length")
    <3>1. lengths = {}
      BY <1>6, <1>9, <2>2
    <3>. QED
      BY <1>7, <1>9, <1>11, <2>2, <3>1
  <2>. QED
    BY <2>1, <2>2
<1>. QED
  BY <1>10, <1>11 DEF lines, none, status

\* Fed a whole head and nothing more, the parser completes exactly the
\* acceptable ones, and has the status and the length they declare.
LEMMA HeadDecided ==
  ASSUME NEW lines \in Seq(LineSet), NEW ending \in Endings,
         \A i \in 1..(Len(lines) - 1) : i > 1 => lines[i] # <<>>
  PROVE  LET head == Stream(lines, ending)
             p    == Feed(NewParser, head)
         IN  /\ p.event = "complete" /\ p.total = Len(head) <=> Acceptable(lines, Len(head))
             /\ Acceptable(lines, Len(head)) =>
                  /\ p.status = lines[1][1].n
                  /\ \A i \in 2..Len(lines) : IsLine(lines[i], "length") => p.length = lines[i][1].n
<1> DEFINE head == Stream(lines, ending)
           p == Feed(NewParser, head)
           size == Len(head)
<1>1. Len(lines) \in Nat /\ "more" \notin Errors /\ "complete" \notin Errors /\ MaxHead \in Nat
  BY LenProperties, ErrorsApart, HeadAssumption
<1>2. CASE Plain(lines)
  <2>1. Reads(p, lines, size)
    BY <1>2, LinesRead
  <2>2. p.event # "complete"
    BY <1>1, <2>1 DEF Reads
  <2>3. ~Acceptable(lines, size)
    <3>1. SUFFICES ASSUME Len(lines) >= 2, lines[Len(lines)] = <<>>
                   PROVE  FALSE
      BY DEF Acceptable
    <3>2. Len(lines) \in 2..Len(lines)
      BY <1>1, <3>1
    <3>. QED
      BY <1>2, <3>1, <3>2 DEF Plain
  <2>. QED
    BY <2>2, <2>3
<1>3. CASE ~Plain(lines)
  <2> DEFINE none == <<>>
  <2>1. PICK k \in 2..Len(lines) : lines[k] = none
    BY <1>3 DEF Plain
  <2>2. lines # <<>>
    BY <1>1, <2>1, EmptySeq
  <2>3. PICK front \in Seq(LineSet), l \in LineSet : lines = Append(front, l)
    BY <2>2, SequenceEmptyOrAppend
  <2>4. /\ Len(lines) = Len(front) + 1 /\ Len(front) \in Nat
        /\ lines[Len(front) + 1] = l
        /\ \A i \in 1..Len(front) : lines[i] = front[i]
        /\ Len(front) = 0 <=> front = <<>>
    BY <2>3, LastLine
  <2>5. k = Len(lines)
    BY <1>1, <2>1
  <2>6. l = none /\ front # <<>> /\ 1 \in 1..Len(front)
    BY <2>1, <2>4, <2>5
  <2>7. Plain(front)
    <3>1. \A i \in 2..Len(front) : i \in 1..(Len(lines) - 1) /\ i > 1 /\ i \in 1..Len(front)
      BY <2>4
    <3>. QED
      BY <2>4, <3>1 DEF Plain
  <2> DEFINE s == Stream(front, ending)
             b == Feed(NewParser, s)
             status == front[1][1].n
  <2>8. Reads(b, front, Len(s))
    BY <2>7, LinesRead
  <2>9. s \in Streams /\ head = s \o (l \o ending)
    BY <2>3, StreamAppend
  <2>10. /\ l \o ending \in Streams /\ Len(l \o ending) = Len(l) + Len(ending)
         /\ Len(l) + Len(ending) \in Nat /\ Len(s) \in Nat
    BY <2>9, LineTypes, LenProperties DEF Streams
  <2>. HIDE DEF s
  <2>11. size = Len(s) + (Len(l) + Len(ending)) /\ size \in Nat
    BY <2>9, <2>10, ConcatProperties DEF Streams
  <2>12. p = Feed(b, l \o ending)
    BY <2>9, <2>10, FeedSplits
  <2>13. Sound(b) /\ Within(b)
    <3>1. Len(s) \in 0..Len(s)
      BY <2>10
    <3>. QED
      BY <2>9, <3>1, NewParserSound, FedFacts DEF Feed
  <2>14. Acceptable(lines, size)
           <=> /\ size <= MaxHead /\ Readable(front) /\ StatusAccepted(status)
               /\ ~HasLine(front, "chunked")
               /\ HasLine(front, "length") \/ status = 404
    BY <2>3, <2>6, <2>11, AcceptableHead
  <2>. HIDE DEF head, size, p, b, none
  <2>15. CASE ~(Readable(front) /\ Len(s) <= MaxHead)
    <3>1. b.event \in Errors
      BY <2>8, <2>15 DEF Reads
    <3>2. p = b
      BY <1>1, <2>10, <2>12, <2>13, <3>1, OverStays
    <3>3. p.event # "complete"
      BY <1>1, <3>1, <3>2
    <3>4. ~Acceptable(lines, size)
      BY <1>1, <2>10, <2>11, <2>14, <2>15
    <3>. QED
      BY <3>3, <3>4 DEF p, head, size
  <2>16. CASE Readable(front) /\ Len(s) <= MaxHead
    <3>1. /\ b.event = "more" /\ b.line = <<>> /\ b.total = Len(s) /\ Recorded(b, front)
      BY <2>8, <2>16 DEF Reads
    <3>2. /\ b.state = "headers" /\ b.status = status
          /\ b.chunked <=> HasLine(front, "chunked")
          /\ b.length = NoLength <=> ~HasLine(front, "length")
          /\ \A i \in 2..Len(front) : IsLine(front[i], "length") => b.length = front[i][1].n
      BY <2>6, <3>1 DEF Recorded
    <3> DEFINE c == [b EXCEPT !.total = b.total + (Len(l) + Len(ending))]
    <3>3. IF size <= MaxHead THEN p = EndOfLine(c, l) ELSE p.event = "oversized_header"
      BY <2>11, <2>12, <2>13, <3>1, LineFed
    <3>4. CASE ~(size <= MaxHead)
      BY <2>14, <3>3, <3>4 DEF p, head, size
    <3>5. CASE size <= MaxHead
      <4>1. /\ c \in ParserSet /\ c.total = size /\ c.state = "headers" /\ c.status = b.status
            /\ c.chunked = b.chunked /\ c.length = b.length
        BY <2>10, <2>11, <2>13, <3>1, <3>2 DEF Sound, ParserSet
      <4>2. p = EndOfLine(c, l)
        BY <3>3, <3>5
      <4>. HIDE DEF c
      <4>3. p = Finish(c)
        BY <2>6, <4>1, <4>2 DEF EndOfLine, none
      <4>4. /\ Reject(c, "transfer_encoding").event # "complete"
            /\ Reject(c, "unexpected_status").event # "complete"
            /\ Reject(c, "missing_content_length").event # "complete"
        BY <4>1, RejectType, ErrorsApart DEF Errors
      <4>5. CASE /\ ~c.chunked /\ StatusAccepted(c.status)
                 /\ ~(c.length = NoLength /\ c.status # 404)
        <5>1. p = [c EXCEPT !.state = "done", !.event = "complete"]
          BY <4>3, <4>5 DEF Finish
        <5>2. p.event = "complete" /\ p.total = size /\ p.status = status /\ p.length = b.length
          BY <3>2, <4>1, <5>1 DEF ParserSet
        <5>3. Acceptable(lines, size)
          BY <2>14, <2>16, <3>2, <3>5, <4>1, <4>5
        <5>4. p.status = lines[1][1].n
          BY <2>4, <2>6, <5>2
        <5>5. ASSUME NEW i \in 2..Len(lines), IsLine(lines[i], "length")
              PROVE  p.length = lines[i][1].n
          <6>1. lines[i] # none
            BY <5>5, EmptySeq DEF IsLine, none
          <6>2. i \in 2..Len(front) /\ i \in 1..Len(front)
            BY <2>4, <2>6, <5>5, <6>1
          <6>. QED
            BY <2>4, <3>2, <5>2, <5>5, <6>2
        <5>. QED
          BY <5>2, <5>3, <5>4, <5>5 DEF p, head, size
      <4>6. CASE ~(/\ ~c.chunked /\ StatusAccepted(c.status)
                   /\ ~(c.length = NoLength /\ c.status # 404))
        <5>1. p.event # "complete"
          BY <4>3, <4>4, <4>6 DEF Finish
        <5>2. ~Acceptable(lines, size)
          BY <2>14, <3>2, <4>1, <4>6
        <5>. QED
          BY <5>1, <5>2 DEF p, head, size
      <4>. QED
        BY <4>5, <4>6
    <3>. QED
      BY <3>4, <3>5
  <2>. QED
    BY <2>15, <2>16
<1>. QED
  BY <1>2, <1>3

\* What follows a stream that was fed to its end is left over.
LEMMA RestLeftOver ==
  ASSUME NEW a \in Streams, NEW b \in Streams, Feed(NewParser, a \o b).total = Len(a)
  PROVE  Leftover(NewParser, a \o b) = b
<1> DEFINE s == a \o b
           m == Len(a)
           n == Len(b)
           rest == SubSeq(s, m + 1, m + n)
<1>1. /\ s \in Streams /\ Len(s) = m + n /\ m \in Nat /\ n \in Nat
      /\ \A i \in 1..(m + n) : s[i] = IF i <= m THEN a[i] ELSE b[i - m]
  BY ConcatProperties, LenProperties DEF Streams
<1>2. Leftover(NewParser, s) = rest
  <2>1. 1 + Feed(NewParser, s).total - NewParser.total = m + 1
    BY <1>1 DEF NewParser
  <2>. QED
    BY <1>1, <2>1 DEF Leftover
<1>. HIDE DEF s
<1>3. \A i \in 1..n : m + i \in 1..(m + n) /\ ~(m + i <= m) /\ (m + i) - m = i
  BY <1>1
<1>4. \A i \in 1..n : s[m + i] = b[i]
  BY <1>1, <1>3
<1>5. /\ rest \in Streams /\ Len(rest) = n
      /\ \A i \in 1..n : rest[i] = s[m + i]
  <2>1. m + 1 \in Nat /\ m + n \in Nat
    BY <1>1
  <2>2. \A i \in (m + 1)..(m + n) : s[i] \in UnitSet
    <3>1. \A i \in (m + 1)..(m + n) : i \in 1..Len(s)
      BY <1>1
    <3>. QED
      BY <1>1, <3>1, ElementOfSeq DEF Streams
  <2>3. /\ rest \in Streams
        /\ Len(rest) = IF m + 1 <= m + n THEN m + n - (m + 1) + 1 ELSE 0
        /\ \A i \in 1..(m + n - (m + 1) + 1) : rest[i] = s[m + 1 + i - 1]
    BY <2>1, <2>2, SubSeqProperties DEF Streams
  <2>4. /\ (IF m + 1 <= m + n THEN m + n - (m + 1) + 1 ELSE 0) = n
        /\ m + n - (m + 1) + 1 = n
        /\ \A i \in 1..n : m + 1 + i - 1 = m + i
    BY <1>1
  <2>. HIDE DEF rest, m, n
  <2>. QED
    BY <2>3, <2>4
<1>. HIDE DEF rest, m, n
<1>6. rest = b
  BY <1>1, <1>4, <1>5, SeqEqual DEF Streams, n
<1>. QED
  BY <1>2, <1>6 DEF s

\* push and finish of ota/http.rs decide every head, of whatever lines, with
\* whatever after it, as the reference does: they complete the acceptable heads
\* and no others, at their last unit, with the status and the length they
\* declare, and leave over exactly what follows.
THEOREM ParserDecides ==
  ASSUME NEW lines \in Seq(LineSet), NEW ending \in Endings, NEW body \in Streams
  PROVE  ParserAgreesOn(lines, ending, body)
<1> DEFINE head == Stream(lines, ending)
           a == Feed(NewParser, head)
           p == Feed(NewParser, head \o body)
<1>. SUFFICES ASSUME \A i \in 1..(Len(lines) - 1) : i > 1 => lines[i] # <<>>
              PROVE  /\ p.event = "complete" /\ p.total = Len(head) <=> Acceptable(lines, Len(head))
                     /\ Acceptable(lines, Len(head)) =>
                          /\ p.status = lines[1][1].n
                          /\ \A i \in 2..Len(lines) :
                               IsLine(lines[i], "length") => p.length = lines[i][1].n
                          /\ Leftover(NewParser, head \o body) = body
  BY DEF ParserAgreesOn
<1>1. /\ a.event = "complete" /\ a.total = Len(head) <=> Acceptable(lines, Len(head))
      /\ Acceptable(lines, Len(head)) =>
           /\ a.status = lines[1][1].n
           /\ \A i \in 2..Len(lines) : IsLine(lines[i], "length") => a.length = lines[i][1].n
  BY HeadDecided
<1>2. head \in Streams
  <2>1. CASE lines = <<>>
    BY <2>1, StreamOfNone, EmptySeq DEF Streams
  <2>2. CASE lines # <<>>
    BY <2>2, SequenceEmptyOrAppend, StreamAppend
  <2>. QED
    BY <2>1, <2>2
<1>. HIDE DEF head
<1>3. p = Feed(a, body)
  BY <1>2, FeedSplits
<1>4. Len(head) \in Nat /\ Len(body) \in Nat
  BY <1>2, LenProperties DEF Streams
<1>5. /\ Sound(a)
      /\ a.event = "more" => a.total = Len(head)
  <2>1. Len(head) \in 0..Len(head) /\ NewParser.total = 0
    BY <1>4 DEF NewParser
  <2>2. /\ Sound(Fed(NewParser, head)[Len(head)])
        /\ Fed(NewParser, head)[Len(head)].event = "more"
             => Fed(NewParser, head)[Len(head)].total = NewParser.total + Len(head)
    BY <1>2, <2>1, NewParserSound, FedFacts
  <2>. QED
    BY <1>4, <2>1, <2>2 DEF Feed
<1>. HIDE DEF a
<1>6. CASE a.event # "more"
  <2>1. p = a
    BY <1>3, <1>5, <1>6, OverStays
  <2>2. ASSUME Acceptable(lines, Len(head))
        PROVE  Leftover(NewParser, head \o body) = body
    BY <1>1, <1>2, <2>1, <2>2, RestLeftOver
  <2>. HIDE DEF p
  <2>. QED
    BY <1>1, <2>1, <2>2
<1>7. CASE a.event = "more"
  <2>1. ~Acceptable(lines, Len(head))
    BY <1>1, <1>7
  <2>2. CASE Len(body) = 0
    <3>1. Fed(a, body)[0] = a
      BY FedAt
    <3>2. p = a
      BY <1>3, <2>2, <3>1 DEF Feed
    <3>. HIDE DEF p
    <3>. QED
      BY <1>7, <2>1, <3>2
  <2>3. CASE Len(body) # 0
    <3>1. Len(body) \in 0..Len(body) /\ Len(body) > 0
      BY <1>4, <2>3
    <3>2. p.total > a.total /\ p.total \in a.total..(a.total + Len(body))
      BY <1>3, <1>5, <1>7, <3>1, FedFacts DEF Feed
    <3>. HIDE DEF p
    <3>3. p.total # Len(head)
      BY <1>4, <1>5, <1>7, <3>2
    <3>. QED
      BY <2>1, <3>3
  <2>. QED
    BY <2>2, <2>3
<1>. QED
  BY <1>6, <1>7

=============================================================================
