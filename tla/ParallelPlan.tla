----------------------------- MODULE ParallelPlan -----------------------------
(***************************************************************************)
(* How a parallel range is cut into chunks (src/runtime/parallel.c,        *)
(* mtp_parse_count, mtp_threads, mtp_plan and the arithmetic of mtp_work). *)
(* Everything here is a pure operator on integers; module ParallelPool     *)
(* uses it for the chunk a thread runs after it has claimed a ticket.      *)
(***************************************************************************)
EXTENDS Integers, Sequences

METTLE_PARALLEL_MAX_THREADS == 64
MTP_CHUNKS_PER_THREAD == 4

(***************************************************************************)
(* The text of METTLE_PARALLEL_THREADS is a sequence of characters: a      *)
(* digit is its value, a space or tab is Blank, anything else is Other.    *)
(***************************************************************************)
Digit == 0..9
Blank == 10
Other == 11
Character == Digit \cup {Blank, Other}

\* The digits mtp_parse_count reads: blanks are skipped once at the front and
\* the reading stops at the first character that is not a digit.
FirstNonBlank(text) ==
  IF \E i \in DOMAIN text : text[i] # Blank
  THEN CHOOSE i \in DOMAIN text :
         /\ text[i] # Blank
         /\ \A j \in 1..(i - 1) : text[j] = Blank
  ELSE Len(text) + 1

\* mtp_parse_count: the value saturates at METTLE_PARALLEL_MAX_THREADS as soon
\* as it passes it, and an empty number is 0.
mtp_parse_count(text) ==
  LET value[i \in 1..(Len(text) + 1), acc \in 0..METTLE_PARALLEL_MAX_THREADS] ==
        IF i > Len(text) \/ text[i] \notin Digit
        THEN acc
        ELSE LET next == acc * 10 + text[i]
             IN  IF next > METTLE_PARALLEL_MAX_THREADS
                 THEN METTLE_PARALLEL_MAX_THREADS
                 ELSE value[i + 1, next]
  IN  value[FirstNonBlank(text), 0]

\* mtp_threads on its first call: the environment wins over the hardware count,
\* and both are capped.
mtp_threads(text, hardware) ==
  LET parsed    == mtp_parse_count(text)
      requested == IF parsed < 1 THEN hardware ELSE parsed
  IN  IF requested > METTLE_PARALLEL_MAX_THREADS
      THEN METTLE_PARALLEL_MAX_THREADS
      ELSE requested

-----------------------------------------------------------------------------
(***************************************************************************)
(* mtp_plan: the number of chunks, and the length of all but the last.     *)
(***************************************************************************)
PlanLimit(threads) == threads * MTP_CHUNKS_PER_THREAD

PlanTarget(threads, total, min_chunk) ==
  LET wanted == total \div (IF min_chunk < 1 THEN 1 ELSE min_chunk)
  IN  IF wanted > PlanLimit(threads) THEN PlanLimit(threads) ELSE wanted

PlanSpan(threads, total, min_chunk) ==
  LET count == PlanTarget(threads, total, min_chunk)
  IN  IF count < 2 THEN total ELSE (total + count - 1) \div count

PlanCount(threads, total, min_chunk) ==
  LET span == PlanSpan(threads, total, min_chunk)
  IN  IF PlanTarget(threads, total, min_chunk) < 2
      THEN 1
      ELSE (total + span - 1) \div span

-----------------------------------------------------------------------------
(***************************************************************************)
(* The half-open range mtp_work hands to the body for one chunk of a job.  *)
(***************************************************************************)
ChunkStart(job, chunk) == job.lo + job.span * chunk

\* Mutant: the end of a chunk overlaps the start of the next.
ChunkEnd_Inclusive(job, chunk) ==
  LET end == ChunkStart(job, chunk) + job.span + 1
  IN  IF end < job.hi THEN end ELSE job.hi

ChunkEnd(job, chunk) ==
  LET end == ChunkStart(job, chunk) + job.span
  IN  IF end < job.hi THEN end ELSE job.hi

ChunkRange(job, chunk) == ChunkStart(job, chunk)..(ChunkEnd(job, chunk) - 1)
=============================================================================
