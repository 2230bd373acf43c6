---------------------------- MODULE MCParallelPool ----------------------------
(***************************************************************************)
(* Small instances of ParallelPool.  With two threads the plan allows      *)
(* eight chunks, so MCPair is cut into two chunks of one index, MCUneven   *)
(* into a chunk of three and one of two indices, and MCInline, below two   *)
(* chunks of min_chunk, runs inline.                                       *)
(***************************************************************************)
EXTENDS ParallelPoolInv
LOCAL INSTANCE SequencesExt

MCPair   == [lo |-> 1, hi |-> 3, min_chunk |-> 1]
MCUneven == [lo |-> 0, hi |-> 5, min_chunk |-> 2]
MCInline == [lo |-> 0, hi |-> 2, min_chunk |-> 2]

MCPairOnly     == {MCPair}
MCUnevenInline == {MCUneven, MCInline}

-----------------------------------------------------------------------------
\* The decimal number that mtp_parse_count should read: the digits that follow
\* the leading blanks.
LeadingDigits(text) ==
  LET rest == SelectInSeq(text, LAMBDA c : c # Blank)
      from == IF rest = 0 THEN <<>> ELSE SubSeq(text, rest, Len(text))
      stop == SelectInSeq(from, LAMBDA c : c \notin Digit)
  IN  IF stop = 0 THEN from ELSE SubSeq(from, 1, stop - 1)
Decimal(digits) == FoldLeft(LAMBDA acc, d : acc * 10 + d, 0, digits)

\* The number of threads that was asked for: the number in the environment when
\* that is at least 1, the hardware's otherwise, and never more than the cap.
ThreadsAsked(text, hardware) ==
  LET asked == Decimal(LeadingDigits(text))
      want  == IF asked >= 1 THEN asked ELSE hardware
  IN  IF want > METTLE_PARALLEL_MAX_THREADS
      THEN METTLE_PARALLEL_MAX_THREADS ELSE want

\* Reading digit by digit and stopping at the cap gives the same as reading the
\* whole number, on every text of up to four characters over these.
ASSUME ParseAssumption ==
  \A text \in UNION {[1..n -> {0, 1, 4, 6, 9, Blank, Other}] : n \in 0..4} :
    \A hardware \in {1, 3, 64, 100} :
      mtp_threads(text, hardware) = ThreadsAsked(text, hardware)
=============================================================================
