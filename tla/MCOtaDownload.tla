--------------------------- MODULE MCOtaDownload ---------------------------
(***************************************************************************)
(* The instance of OtaDownload that TLC checks.                            *)
(***************************************************************************)
EXTENDS OtaDownload

MCBlank == Unit("blank", 0)

\* One image fills its slot, the others end inside a sector.
MCImageSizes == <<3, 4, 1>>

\* Heads of up to four lines, some with the same header twice.
LineTexts ==
  {Unit("status", n) : n \in {200, 404, 500}}
    \cup {Unit("length", 5), Unit("chunked", 0), Unit("field", 0), Unit("text", 0)}

Lines == {<<>>} \cup {<<unit>> : unit \in LineTexts}

\* The head parser is what its reference definition says, on every head of up to
\* four lines, with and without CR, with and without a body behind it.  (One
\* state is enough to evaluate that in: the first check has not begun.)
ParserAgrees ==
  pc = "wait" /\ trigger /\ built = <<Factory>> =>
    \A n \in 0..4 : \A lines \in [1..n -> Lines] :
      \A ending \in {CRLF, <<LF>>} : \A body \in {<<>>, <<LF, CR>>} :
        ParserAgreesOn(lines, ending, body)

=============================================================================
