------------------------------ MODULE DebugAgent ------------------------------
(***************************************************************************)
(* The runtime of a --debug-hooks program with a debugger attached: the    *)
(* main thread that runs the hooks and stops in them, the reader thread    *)
(* that takes the adapter's commands from the pipe, and the queue between  *)
(* the two (src/runtime/debug.c).                                          *)
(*                                                                         *)
(* The adapter is not part of the repository.  It is modelled as a client  *)
(* that resumes the program only when it has been told of a stop, once per *)
(* stop, and otherwise sends what it likes and leaves when it likes.  The  *)
(* transport is the named pipe, whose other end is seen to close.          *)
(***************************************************************************)
EXTENDS Integers, SequencesExt

CONSTANTS
  DBG_CMD_QUEUE, DBG_MAX_STACK, DBG_MAX_BREAKPOINTS,
  Main, Functions,   \* the entry function, and the functions it can call
  FileOf,            \* g_fn_file: the file of each function
  Lines,             \* the lines of each file that carry a hook
  Edits,             \* the breakpoint commands the client may send
  MaxCalls,          \* bound on the depth of the program's calls
  PipeBound,         \* bound on the commands in the pipe
  MaxCommands        \* bound on the commands the client sends

ASSUME DebugConstants ==
  /\ DBG_MAX_STACK \in Nat \ {0}
  /\ \A c \in Edits : c.verb \in {"setbp", "bpadd", "clearall"}

VARIABLES
  conn, pipe, told, leaving,   \* the client: its end, what it sent, whether it
  sent,                        \* knows of a stop, whether it sent detach, how much
  reader,                      \* off, reading or exited
  pc, reason, calls,           \* the main thread, why it stops, its real calls
  g_active, g_paused, g_mode, g_step_depth,
  g_stack,                     \* the shadow stack: one function per frame
  g_breakpoints,
  queue,                       \* g_cmd_queue from g_cmd_head to g_cmd_tail
  asked,                       \* history: the breakpoints the client wants
  step,                        \* history: the last resume and its real depth
  lost,                        \* history: the kinds of commands that were dropped,
                               \*   or applied out of their order
  deep,                        \* history: the calls outgrew the shadow stack
  undone                       \* history: the departure that start-up undid

client == <<conn, pipe, told, leaving, sent, asked>>
program == <<calls, deep>>
agent == <<g_mode, g_step_depth, g_breakpoints>>
vars == <<client, program, agent, reader, pc, reason, g_active, g_paused, g_stack,
          queue, step, lost, undone>>

Breakpoint(file, line, cond) == [file |-> file, line |-> line, cond |-> cond]
Always == ""

Plain(verb) == [verb |-> verb]
Resumes == {Plain(v) : v \in {"go", "stepin", "next", "stepout"}}
Setbp(file, lines) == [verb |-> "setbp", file |-> file, lines |-> lines]
Bpadd(file, line, cond) ==
  [verb |-> "bpadd", file |-> file, line |-> line, cond |-> cond]

\* A query remembers whether its sender knew the program to be stopped.
Query(stop) == [verb |-> "query", stop |-> stop]
dbg_is_query(c) == c.verb = "query"

\* Mutant: a step out does not end the stop.
IsResume_NotStepout(c) == c \in {Plain(v) : v \in {"go", "stepin", "next", "detach"}}

\* Mutant: a pause ends the stop as a resume does.
IsResume_Pause(c) == c \in Resumes \cup {Plain("detach"), Plain("pause")}

IsResume(c) == c \in Resumes \cup {Plain("detach")}

\* What a command that is dropped would have done.
Kind(c) ==
  CASE c \in Resumes -> {"resume"}
    [] c \in Edits -> {"edit"}
    [] c = Plain("detach") -> {"detach"}
    [] OTHER -> {}

Init ==
  /\ conn = "open" /\ pipe = <<>> /\ told = FALSE /\ leaving = FALSE /\ sent = 0 /\ asked = {}
  /\ reader = "off" /\ pc = "start" /\ reason = "none" /\ calls = <<Main>> /\ deep = FALSE
  /\ g_active = FALSE /\ g_paused = FALSE /\ g_mode = "run" /\ g_step_depth = 0
  /\ g_stack = <<>> /\ g_breakpoints = <<>> /\ queue = <<>>
  /\ step = [verb |-> "go", depth |-> 0] /\ lost = {} /\ undone = "none"

------------------------------------------------------------------------------
(* The client (external)                                                   *)

Wanted(c) ==
  CASE c.verb = "setbp"    -> {b \in asked : b.file # c.file}
                                \cup {Breakpoint(c.file, l, Always) : l \in c.lines}
    [] c.verb = "bpadd"    -> asked \cup {Breakpoint(c.file, c.line, c.cond)}
    [] c.verb = "clearall" -> {}
    [] OTHER               -> asked

Send(c) ==
  /\ conn = "open" /\ ~leaving /\ pc # "ended"
  /\ Len(pipe) < PipeBound /\ sent < MaxCommands /\ sent' = sent + 1
  /\ pipe' = Append(pipe, c)
  /\ asked' = IF "edit" \in lost THEN {} ELSE Wanted(c)
  /\ leaving' = (c.verb = "detach")
  /\ told' = (told /\ ~IsResume(c))
  /\ UNCHANGED <<conn, program, agent, reader, pc, reason, g_active, g_paused, g_stack,
                 queue, step, lost, undone>>

Commands ==
  Edits \cup {Query(told), Plain("pause"), Plain("detach")}
    \cup (IF told THEN Resumes ELSE {})

Close ==
  /\ conn = "open" /\ pc # "ended" /\ conn' = "closed"
  /\ UNCHANGED <<pipe, told, leaving, sent, asked, program, agent, reader, pc, reason, g_active,
                 g_paused, g_stack, queue, step, lost, undone>>

------------------------------------------------------------------------------
(* Control commands                                                        *)

\* Mutant: setbp adds to the breakpoints of the file instead of replacing them.
EditedBreakpoints_Keep(c) ==
  CASE c.verb = "setbp" ->
         g_breakpoints \o SetToSeq({Breakpoint(c.file, l, Always) : l \in c.lines})
    [] c.verb = "bpadd" -> Append(g_breakpoints, Breakpoint(c.file, c.line, c.cond))
    [] c.verb = "clearall" -> <<>>
    [] OTHER -> g_breakpoints

EditedBreakpoints(c) ==
  CASE c.verb = "setbp" ->
         SelectSeq(g_breakpoints, LAMBDA b : b.file # c.file)
           \o SetToSeq({Breakpoint(c.file, l, Always) : l \in c.lines})
    [] c.verb = "bpadd" -> Append(g_breakpoints, Breakpoint(c.file, c.line, c.cond))
    [] c.verb = "clearall" -> <<>>
    [] OTHER -> g_breakpoints

\* What does not fit in the table is left out without a word.
TableFull(c) == Len(EditedBreakpoints(c)) > DBG_MAX_BREAKPOINTS

NewBreakpoints(c) ==
  IF TableFull(c) THEN SubSeq(EditedBreakpoints(c), 1, DBG_MAX_BREAKPOINTS)
  ELSE EditedBreakpoints(c)

NewMode(c) ==
  CASE c.verb \in {"go", "detach"} -> "run"
    [] c.verb \in {"stepin", "next", "stepout", "pause"} -> c.verb
    [] OTHER -> g_mode

dbg_apply_control(c) ==
  /\ g_mode' = NewMode(c)
  /\ g_step_depth' = IF c.verb \in {"next", "stepout"} THEN Len(g_stack) ELSE g_step_depth
  /\ g_active' = (g_active /\ c.verb # "detach")
  /\ g_breakpoints' = NewBreakpoints(c)

------------------------------------------------------------------------------
(* The reader thread                                                       *)

\* The main thread holds g_lock while it drains the queue.
LockFree == pc \notin {"drain", "ended"}

\* A breakpoint command is applied before one that a resume has left in the queue.
Overtakes(c) == c \in Edits /\ ToSet(queue) \cap Edits # {}

Receive ==
  LET c == Head(pipe)
      room == Len(queue) < DBG_CMD_QUEUE - 1
  IN  /\ reader = "reading" /\ pipe # <<>> /\ LockFree
      /\ pipe' = Tail(pipe)
      /\ IF dbg_is_query(c) \/ g_paused
           THEN /\ queue' = IF room THEN Append(queue, c) ELSE queue
                /\ lost' = IF room THEN lost ELSE lost \cup Kind(c)
                /\ UNCHANGED <<agent, g_active>>
           ELSE /\ dbg_apply_control(c)
                /\ lost' = IF TableFull(c) \/ Overtakes(c) THEN lost \cup Kind(c) ELSE lost
                /\ UNCHANGED queue
      /\ UNCHANGED <<conn, told, leaving, sent, asked, program, reader, pc, reason, g_paused,
                     g_stack, step, undone>>

\* Mutant: a lost connection resets the run mode and leaves the hooks on.
Disconnect_StillActive ==
  /\ reader = "reading" /\ conn = "closed" /\ LockFree
  /\ reader' = "exited" /\ g_mode' = "run"
  /\ UNCHANGED <<client, program, g_step_depth, g_breakpoints, pc, reason, g_active,
                 g_paused, g_stack, queue, step, lost, undone>>

Disconnect ==
  /\ reader = "reading" /\ conn = "closed" /\ LockFree
  /\ reader' = "exited" /\ g_active' = FALSE /\ g_mode' = "run"
  /\ UNCHANGED <<client, program, g_step_depth, g_breakpoints, pc, reason, g_paused,
                 g_stack, queue, step, lost, undone>>

------------------------------------------------------------------------------
(* The main thread: start-up and the hooks                                 *)

Goto(from, to) == pc = from /\ pc' = to

\* dbg_try_init: the reader runs from here on, the hooks from the next step on.
dbg_try_init ==
  /\ Goto("start", "activate")
  /\ reader' = "reading"
  /\ UNCHANGED <<client, program, agent, reason, g_active, g_paused, g_stack, queue, step,
                 lost, undone>>

\* A departure that the reader has seen by now is forgotten.
Activate ==
  /\ Goto("activate", "entry")
  /\ g_active' = TRUE
  /\ undone' = CASE reader = "exited" -> "close"
                 [] reader # "exited" /\ leaving /\ pipe = <<>> -> "detach"
                 [] OTHER -> "none"
  /\ UNCHANGED <<client, program, agent, reader, reason, g_paused, g_stack, queue, step, lost>>

\* The first mettle_dbg_enter, behind dbg_try_init: the entry stop, unless the
\* client has gone again.
EnterMain ==
  /\ \/ /\ g_active /\ Goto("entry", "pause")
        /\ reason' = "entry" /\ g_stack' = <<Main>>
     \/ /\ ~g_active /\ Goto("entry", "run")
        /\ UNCHANGED <<reason, g_stack>>
  /\ UNCHANGED <<client, program, agent, reader, g_active, g_paused, queue, step, lost, undone>>

mettle_dbg_enter(fn) ==
  /\ g_active /\ Goto("run", "line") /\ Len(calls) < MaxCalls
  /\ calls' = Append(calls, fn)
  /\ g_stack' = IF Len(g_stack) < DBG_MAX_STACK
                  THEN Append(g_stack, fn) ELSE g_stack
  /\ deep' = (deep \/ Len(calls') > DBG_MAX_STACK)
  /\ UNCHANGED <<client, agent, reader, reason, g_active, g_paused, queue, step, lost, undone>>

mettle_dbg_exit ==
  /\ g_active /\ Goto("run", IF Len(calls) = 1 THEN "ended" ELSE "run")
  /\ calls' = Front(calls)
  /\ g_stack' = IF g_stack # <<>> THEN Front(g_stack) ELSE g_stack
  /\ UNCHANGED <<client, agent, reader, reason, g_active, g_paused, queue, step, lost, deep,
                 undone>>

\* Mutant: a step over stops at the next line wherever it is.
StepDue_AnyDepth ==
  \/ g_mode \in {"stepin", "next"}
  \/ g_mode = "stepout" /\ Len(g_stack) < g_step_depth

StepDue ==
  \/ g_mode = "stepin"
  \/ g_mode = "next" /\ Len(g_stack) <= g_step_depth
  \/ g_mode = "stepout" /\ Len(g_stack) < g_step_depth

\* The first breakpoint on the line of the file decides, with its condition.
Hit(line, holds) ==
  LET here == SelectSeq(g_breakpoints,
                        LAMBDA b : b.file = FileOf[Last(g_stack)] /\ b.line = line)
  IN  here # <<>> /\ (here[1].cond = Always \/ holds)

\* Mutant: a requested pause is not looked for.
Line_NoPause ==
  /\ g_active /\ pc \in {"run", "line"}
  /\ \/ /\ g_stack # <<>> /\ StepDue
        /\ pc' = "reset" /\ reason' = "step"
     \/ /\ g_stack # <<>> /\ ~StepDue
        /\ pc' = "breakpoints" /\ UNCHANGED reason
     \/ g_stack = <<>> /\ pc' = "run" /\ UNCHANGED reason
  /\ UNCHANGED <<client, program, agent, reader, g_active, g_paused, g_stack, queue, step,
                 lost, undone>>

\* mettle_dbg_line: the run mode is read without the lock, the breakpoints with it.
Line ==
  /\ g_active /\ pc \in {"run", "line"}
  /\ \/ /\ g_stack # <<>> /\ (StepDue \/ g_mode = "pause")
        /\ pc' = "reset" /\ reason' = IF StepDue THEN "step" ELSE "pause"
     \/ /\ g_stack # <<>> /\ ~StepDue /\ g_mode # "pause"
        /\ pc' = "breakpoints" /\ UNCHANGED reason
     \/ g_stack = <<>> /\ pc' = "run" /\ UNCHANGED reason
  /\ UNCHANGED <<client, program, agent, reader, g_active, g_paused, g_stack, queue, step,
                 lost, undone>>

Breakpoints(line, holds) ==
  /\ Goto("breakpoints", IF Hit(line, holds) THEN "reset" ELSE "run")
  /\ reason' = IF Hit(line, holds) THEN "breakpoint" ELSE reason
  /\ UNCHANGED <<client, program, agent, reader, g_active, g_paused, g_stack, queue, step,
                 lost, undone>>

\* dbg_vectored_handler: the program faults, and ends when the stop is over.
Fault ==
  /\ g_active /\ Goto("run", "reset") /\ reason' = "exception"
  /\ UNCHANGED <<client, program, agent, reader, g_active, g_paused, g_stack, queue, step,
                 lost, undone>>

Reset ==
  /\ Goto("reset", "pause")
  /\ g_mode' = "run"
  /\ UNCHANGED <<client, program, reader, reason, g_active, g_paused, g_stack, g_step_depth,
                 g_breakpoints, queue, step, lost, undone>>

------------------------------------------------------------------------------
(* dbg_pause_here                                                          *)

Pause ==
  /\ Goto("pause", "announce")
  /\ g_paused' = TRUE
  /\ UNCHANGED <<client, program, agent, reader, reason, g_active, g_stack, queue, step, lost,
                 undone>>

Announce ==
  /\ Goto("announce", "wait")
  /\ told' = (conn = "open" /\ ~leaving)
  /\ UNCHANGED <<conn, pipe, leaving, sent, asked, program, agent, reader, reason, g_active,
                 g_paused, g_stack, queue, step, lost, undone>>

Leave ==
  /\ pc' = IF reason = "exception" THEN "ended" ELSE "run"
  /\ reason' = "none" /\ g_paused' = FALSE

Wait ==
  /\ pc = "wait"
  /\ \/ g_active /\ queue # <<>> /\ pc' = "drain" /\ UNCHANGED <<reason, g_paused>>
     \/ ~g_active /\ Leave
  /\ UNCHANGED <<client, program, agent, reader, g_active, g_stack, queue, step, lost, undone>>

Asked(c) == [verb |-> c.verb,
             depth |-> IF c.verb \in {"next", "stepout"} THEN Len(calls) ELSE 0]

\* The queue is drained under the lock, which an answer to a query lets go of.
Drain ==
  /\ pc = "drain"
  /\ LET c == Head(queue) IN
     \/ /\ queue = <<>> /\ pc' = "wait"
        /\ UNCHANGED <<queue, agent, reason, g_active, g_paused, step, lost>>
     \/ /\ queue # <<>> /\ dbg_is_query(c)
        /\ pc' = "answer" /\ queue' = Tail(queue)
        /\ UNCHANGED <<agent, reason, g_active, g_paused, step, lost>>
     \/ /\ queue # <<>> /\ ~dbg_is_query(c)
        /\ queue' = Tail(queue)
        /\ dbg_apply_control(c)
        /\ IF IsResume(c) THEN Leave ELSE UNCHANGED <<pc, reason, g_paused>>
        /\ step' = IF IsResume(c) THEN Asked(c) ELSE step
        /\ lost' = IF TableFull(c) THEN lost \cup Kind(c) ELSE lost
  /\ UNCHANGED <<client, program, reader, g_stack, undone>>

dbg_apply_query ==
  /\ Goto("answer", "drain")
  /\ UNCHANGED <<client, program, agent, reader, reason, g_active, g_paused, g_stack, queue,
                 step, lost, undone>>

\* With g_active off every hook returns at once: the program is on its own.
Free == pc = "ended" \/ (~g_active /\ pc \in {"run", "line"})
Stranded == pc = "wait" /\ queue = <<>> /\ g_active /\ reader = "exited"
Ended == (Free \/ Stranded) /\ UNCHANGED vars

Stop == Reset \/ Pause \/ Announce \/ Wait \/ Drain \/ dbg_apply_query

Hooks ==
  \/ dbg_try_init \/ Activate \/ EnterMain
  \/ Line \/ \E line \in Lines, holds \in BOOLEAN : Breakpoints(line, holds)
  \/ Stop

MainThread ==
  \/ Hooks
  \/ \E fn \in Functions : mettle_dbg_enter(fn)
  \/ mettle_dbg_exit \/ Fault

Reader == Receive \/ Disconnect

Next == (\E c \in Commands : Send(c)) \/ Close \/ Reader \/ MainThread \/ Ended

Spec == Init /\ [][Next]_vars

\* The scheduler runs both threads, the program goes on from line to line, and an
\* adapter's command or departure is seen.  That the program calls, returns or
\* faults is not assumed: it may loop over its lines for ever.
FairSpec == Spec /\ WF_vars(Hooks) /\ WF_vars(Reader)
------------------------------------------------------------------------------
(* Properties                                                              *)

Pending == ToSet(pipe) \cup ToSet(queue)

(* A resume or a query the client sends at a stop reaches the program during that stop:  *)
(* no resume is left over to end the next stop, and no query is answered from the frames *)
(* of a later one.                                                                       *)
StopCommandsMeetTheirStop ==
  g_active => \A c \in Pending : c \in Resumes \cup {Query(TRUE)} => g_paused

(* Once every breakpoint command has been delivered, the breakpoints in force are those  *)
(* the client's commands add up to in the order they were sent, whichever thread applied *)
(* each of them, also when a resume left some of them in the queue until the next stop.  *)
(* The exceptions are the ones the code makes: a breakpoint command that found the queue *)
(* or the table full, and one the reader applied while an older one was left behind.     *)
BreakpointsAsAsked ==
  "edit" \notin lost /\ Pending \cap Edits = {} => ToSet(g_breakpoints) = asked

\* The step the client last asked for ends on this line of the real call stack.
StepAsked ==
  \/ step.verb = "stepin"
  \/ step.verb = "next" /\ Len(calls) <= step.depth
  \/ step.verb = "stepout" /\ Len(calls) < step.depth

(* A line ends a step exactly where the client's step ends it, by the calls the program  *)
(* really has open: next never stops in a callee nor misses the caller, and stepout      *)
(* stops in the caller; unless a pause overtook the step, and as long as the calls never *)
(* outgrew the shadow stack.                                                             *)
StepsLandWhereAsked ==
  [][(pc \in {"run", "line"} /\ ~deep /\ g_mode # "pause") =>
       ((pc' = "breakpoints" => ~StepAsked) /\ (pc' = "reset" /\ reason' = "step" => StepAsked))]_vars

(* A resume the client sends ends the stop it is for, unless that resume found the queue *)
(* full and was dropped.                                                                 *)
ResumeCarriedOut ==
  (Pending \cap Resumes # {}) ~> (pc \in {"run", "ended"} \/ "resume" \in lost)

Detach == Plain("detach")

\* The program runs on while the client's detach waits for the next stop.
DetachLeftBehind == Detach \in ToSet(queue) /\ pc = "run"

(* What becomes of the program when its client leaves.  Once the pipe is closed, the     *)
(* program runs on with its hooks off, unless the reader had seen the close before       *)
(* start-up turned the hooks on.  Once a detach has been sent, the same, with two more   *)
(* exceptions: the detach found the queue full, or it arrived behind a resume of the     *)
(* same stop, and the program runs on with its hooks on.  A detach left behind in that   *)
(* way is carried out at the next stop.                                                  *)
DetachedRunsOn ==
  /\ conn = "closed" ~> (Free \/ undone = "close")
  /\ leaving ~> (Free \/ undone # "none" \/ "detach" \in lost \/ DetachLeftBehind)
  /\ (pc = "wait" /\ Detach \in ToSet(queue) /\ ToSet(queue) \cap Resumes = {}) ~> Free

(* A pause that is applied while the program runs stops it, unless the program ends, is  *)
(* detached, or goes on with an empty shadow stack: that happens once calls deeper than  *)
(* DBG_MAX_STACK have returned, and mettle_dbg_line then looks at no mode any more.      *)
PauseTakesEffect ==
  (g_mode = "pause" /\ pc = "run") ~>
    (g_paused \/ ~g_active \/ pc = "ended" \/ g_stack = <<>>)
==============================================================================
