--------------------------- MODULE DebugAgent_proofs ---------------------------
(***************************************************************************)
(* For any debugger, any sizes of the queue, the table and the stack, and  *)
(* any calls of the program: the commands a debugger sends at a stop are   *)
(* taken at that stop, and steps end where they were asked to end.         *)
(***************************************************************************)
EXTENDS DebugAgent, SequenceTheorems, TLAPS

Command == Edits \cup {Query(TRUE), Query(FALSE), Plain("pause"), Plain("detach")} \cup Resumes

\* What the client sends only while it knows of a stop.
AtStop(c) == c \in Resumes \cup {Query(TRUE)}

\* The program is stopped, and has said so.
Stopped == pc \in {"wait", "drain", "answer"}

TypeInv ==
  /\ pipe \in Seq(Command) /\ queue \in Seq(Command)
  /\ told \in BOOLEAN /\ g_active \in BOOLEAN /\ g_paused \in BOOLEAN

\* Nothing in s is meant for a stop, nothing ends one, and nothing meant for a stop
\* comes after what ends it.
NoneAtStop(s) == \A i \in 1 .. Len(s) : ~AtStop(s[i])
NoResume(s) == \A i \in 1 .. Len(s) : s[i] \notin Resumes
ResumeEnds(s) == \A i, j \in 1 .. Len(s) : i < j /\ s[i] \in Resumes => ~AtStop(s[j])

\* Nothing meant for a stop is on its way.
Quiet == ~told /\ NoneAtStop(pipe) /\ NoneAtStop(queue)

\* A resume is the last thing the client sends at a stop.
ResumeLast ==
  /\ told => NoResume(pipe) /\ NoResume(queue)
  /\ ResumeEnds(pipe) /\ ResumeEnds(queue)
  /\ NoResume(queue) \/ NoneAtStop(pipe)

\* The debugger is attached, or is about to be.
On == g_active \/ pc \in {"start", "activate"}

StopInv ==
  On => /\ ~Stopped => Quiet
        /\ Stopped \/ pc = "announce" => g_paused
        /\ ResumeLast

Depths ==
  /\ calls \in Seq(Functions \cup {Main}) /\ g_stack \in Seq(Functions \cup {Main})
  /\ deep \in BOOLEAN
  /\ pc # "ended" => Len(calls) > 0
  /\ pc \in {"start", "activate", "entry"} => Len(calls) = 1
  /\ g_active /\ ~deep /\ pc # "entry" => Len(g_stack) = Len(calls) /\ Len(calls) <= DBG_MAX_STACK

Running == pc \in {"run", "line", "breakpoints"}

\* The mode the hooks work by is the last resume's, unless a pause overtook it.
ModeInv ==
  g_active /\ Running /\ g_mode # "pause" =>
    \/ step.verb = "go" /\ g_mode = "run"
    \/ step.verb = "stepin" /\ g_mode = "stepin"
    \/ /\ step.verb \in {"next", "stepout"} /\ g_mode = step.verb
       /\ ~deep => step.depth = g_step_depth

IInv == TypeInv /\ StopInv /\ Depths /\ ModeInv

(* What the verbs of the commands settle: a query or a resume of a stop is none of the   *)
(* commands a client may send at any time (dbg_is_query, dbg_apply_control).              *)
LEMMA Kinds ==
  /\ \A c \in Edits \cup {Query(FALSE), Plain("pause"), Plain("detach")} : ~AtStop(c)
  /\ \A c \in Edits \cup {Plain("pause")} : c.verb \in {"setbp", "bpadd", "clearall", "pause"}
  /\ \A c \in Resumes : c.verb \in {"go", "stepin", "next", "stepout"}
  /\ Plain("detach").verb = "detach"
  /\ \A q \in BOOLEAN : Query(q).verb = "query"
<1>1. \A c \in Resumes : c.verb \in {"go", "stepin", "next", "stepout"}
  BY DEF Resumes, Plain
<1>2. /\ Plain("detach").verb = "detach" /\ Plain("pause").verb = "pause"
      /\ \A q \in BOOLEAN : Query(q).verb = "query" /\ Query(q).stop = q
  BY DEF Plain, Query
<1>3. \A c \in Edits : c.verb \in {"setbp", "bpadd", "clearall"}
  BY DebugConstants
<1> QED
  BY <1>1, <1>2, <1>3 DEF AtStop

(* A client only sends commands, and those of a stop only while it knows of one (Send).   *)
LEMMA Sendable ==
  ASSUME told \in BOOLEAN, NEW c \in Commands
  PROVE  c \in Command /\ (AtStop(c) => told)
<1>1. CASE told
  BY <1>1 DEF Commands, Command
<1>2. CASE ~told
  BY <1>2, Kinds DEF Commands, Command
<1> QED
  BY <1>1, <1>2

(* What adding a command at the end does to a sequence of commands (Send, Receive).       *)
LEMMA AtTheEnd ==
  ASSUME NEW s \in Seq(Command), NEW c \in Command
  PROVE  /\ NoneAtStop(s) /\ ~AtStop(c) => NoneAtStop(Append(s, c))
         /\ NoResume(s) /\ c \notin Resumes => NoResume(Append(s, c))
         /\ ResumeEnds(s) /\ (NoResume(s) \/ ~AtStop(c)) => ResumeEnds(Append(s, c))
<1> DEFINE t == Append(s, c)
<1>1. /\ Len(t) = Len(s) + 1 /\ t[Len(s) + 1] = c /\ \A i \in 1 .. Len(s) : t[i] = s[i]
      /\ Len(s) \in Nat
  OBVIOUS
<1> HIDE DEF t
<1>2. \A i \in 1 .. Len(t) : i \in 1 .. Len(s) \/ i = Len(s) + 1
  BY <1>1
<1>3. NoneAtStop(s) /\ ~AtStop(c) => NoneAtStop(t)
  BY <1>1, <1>2 DEF NoneAtStop
<1>4. NoResume(s) /\ c \notin Resumes => NoResume(t)
  BY <1>1, <1>2 DEF NoResume
<1>5. ResumeEnds(s) /\ (NoResume(s) \/ ~AtStop(c)) => ResumeEnds(t)
  <2> SUFFICES ASSUME ResumeEnds(s), NoResume(s) \/ ~AtStop(c),
                      NEW i \in 1 .. Len(t), NEW j \in 1 .. Len(t), i < j, t[i] \in Resumes
               PROVE  ~AtStop(t[j])
    BY DEF ResumeEnds
  <2>1. i \in 1 .. Len(s) /\ s[i] \in Resumes
    BY <1>1
  <2>2. CASE j \in 1 .. Len(s)
    BY <1>1, <2>1, <2>2 DEF ResumeEnds
  <2>3. CASE j = Len(s) + 1
    BY <1>1, <2>1, <2>3 DEF NoResume
  <2> QED
    BY <1>2, <2>2, <2>3
<1> QED
  BY <1>3, <1>4, <1>5 DEF t

(* What taking the first command does to a sequence of commands (Receive, Drain).         *)
LEMMA FromTheFront ==
  ASSUME NEW s \in Seq(Command), s # <<>>
  PROVE  /\ Head(s) \in Command /\ Tail(s) \in Seq(Command)
         /\ NoneAtStop(s) => ~AtStop(Head(s)) /\ NoneAtStop(Tail(s))
         /\ NoResume(s) => Head(s) \notin Resumes /\ NoResume(Tail(s))
         /\ ResumeEnds(s) => ResumeEnds(Tail(s)) /\ (Head(s) \in Resumes => NoneAtStop(Tail(s)))
<1> DEFINE t == Tail(s)
<1>1. /\ Len(s) \in Nat /\ Len(s) > 0 /\ Len(t) = Len(s) - 1 /\ Head(s) = s[1]
      /\ \A i \in 1 .. Len(t) : t[i] = s[i + 1]
      /\ Head(s) \in Command /\ t \in Seq(Command)
  OBVIOUS
<1> HIDE DEF t
<1>2. \A i \in 1 .. Len(t) : i + 1 \in 1 .. Len(s) /\ t[i] = s[i + 1]
  BY <1>1
<1>3. 1 \in 1 .. Len(s)
  BY <1>1
<1>4. NoneAtStop(s) => ~AtStop(Head(s)) /\ NoneAtStop(t)
  BY <1>1, <1>2, <1>3 DEF NoneAtStop
<1>5. NoResume(s) => Head(s) \notin Resumes /\ NoResume(t)
  BY <1>1, <1>2, <1>3 DEF NoResume
<1>6. ASSUME ResumeEnds(s) PROVE ResumeEnds(t)
  <2> SUFFICES ASSUME NEW i \in 1 .. Len(t), NEW j \in 1 .. Len(t), i < j, t[i] \in Resumes
               PROVE  ~AtStop(t[j])
    BY DEF ResumeEnds
  <2>1. i + 1 < j + 1
    OBVIOUS
  <2> QED
    BY <1>2, <1>6, <2>1 DEF ResumeEnds
<1>7. ASSUME ResumeEnds(s), Head(s) \in Resumes PROVE NoneAtStop(t)
  <2> SUFFICES ASSUME NEW j \in 1 .. Len(t) PROVE ~AtStop(t[j])
    BY DEF NoneAtStop
  <2>1. 1 < j + 1
    OBVIOUS
  <2> QED
    BY <1>1, <1>2, <1>3, <1>7, <2>1 DEF ResumeEnds
<1> QED
  BY <1>1, <1>4, <1>5, <1>6, <1>7 DEF t

(* Where nothing is meant for a stop, nothing ends one.                                   *)
LEMMA QuietEnds ==
  ASSUME NEW s \in Seq(Command), NoneAtStop(s)
  PROVE  NoResume(s) /\ ResumeEnds(s)
  BY DEF NoneAtStop, NoResume, ResumeEnds, AtStop

(* The queue and the pipe hold commands (Receive and Drain move them, Send adds one).     *)
LEMMA TypeStep == TypeInv /\ [Next]_vars => TypeInv'
<1> SUFFICES ASSUME TypeInv, [Next]_vars PROVE TypeInv'
  OBVIOUS
<1> USE DEF TypeInv, client
<1>1. CASE \E c \in Commands : Send(c)
  BY <1>1, Sendable DEF Send
<1>2. CASE Receive
  <2>1. Head(pipe) \in Command /\ Tail(pipe) \in Seq(Command)
    BY <1>2 DEF Receive
  <2>2. pipe' = Tail(pipe) /\ (queue' = queue \/ queue' = Append(queue, Head(pipe)))
    BY <1>2 DEF Receive
  <2>3. told' = told /\ g_paused' = g_paused /\ g_active' \in BOOLEAN
    BY <1>2 DEF Receive, dbg_apply_control
  <2> QED
    BY <2>1, <2>2, <2>3
<1>3. CASE Drain
  <2>1. queue' = queue \/ (queue # <<>> /\ queue' = Tail(queue))
    BY <1>3 DEF Drain
  <2>2. pipe' = pipe /\ told' = told /\ g_active' \in BOOLEAN /\ g_paused' \in BOOLEAN
    BY <1>3 DEF Drain, dbg_apply_control, Leave
  <2> QED
    BY <2>1, <2>2
<1>4. CASE \/ Close \/ Disconnect \/ dbg_try_init \/ Activate \/ EnterMain \/ Reset \/ Pause
           \/ Announce \/ Wait \/ dbg_apply_query \/ mettle_dbg_exit \/ Line \/ Fault
           \/ \E fn \in Functions : mettle_dbg_enter(fn)
           \/ \E line \in Lines, holds \in BOOLEAN : Breakpoints(line, holds)
  BY <1>4 DEF Close, Disconnect, dbg_try_init, Activate, EnterMain, Goto, Reset, Pause, Announce, Wait, Leave,
              dbg_apply_query, mettle_dbg_exit, Line, Fault, mettle_dbg_enter, Breakpoints
<1>5. CASE UNCHANGED vars
  BY <1>5 DEF vars
<1> QED
  BY <1>1, <1>2, <1>3, <1>4, <1>5 DEF Next, Reader, MainThread, Hooks, Stop, Ended

(* No resume or query of a stop is under way when the program is not stopped, because a   *)
(* resume is the last thing the client sends at a stop (dbg_pause_here).                  *)
LEMMA StopStep == TypeInv /\ StopInv /\ [Next]_vars => StopInv'
<1> SUFFICES ASSUME TypeInv, StopInv, [Next]_vars, On' PROVE StopInv'
  BY DEF StopInv
<1> USE DEF TypeInv, client
<1>1. CASE \E c \in Commands : Send(c)
  <2> PICK c \in Commands : Send(c)
    BY <1>1
  <2>1. /\ pipe' = Append(pipe, c) /\ told' = (told /\ ~IsResume(c))
        /\ UNCHANGED <<queue, pc, g_active, g_paused>>
    BY DEF Send
  <2>2. c \in Command /\ (AtStop(c) => told) /\ (c \in Resumes => AtStop(c) /\ IsResume(c))
    BY Sendable DEF AtStop, IsResume
  <2>3. On /\ Stopped' = Stopped
    BY <2>1 DEF On, Stopped
  <2>4. ~Stopped => Quiet'
    BY <2>1, <2>2, <2>3, AtTheEnd DEF StopInv, Quiet
  <2>5. ResumeLast'
    BY <2>1, <2>2, <2>3, AtTheEnd DEF StopInv, ResumeLast
  <2> QED
    BY <2>1, <2>3, <2>4, <2>5 DEF StopInv
<1>2. CASE Receive
  <2>1. pipe # <<>> /\ pipe' = Tail(pipe) /\ UNCHANGED <<told, pc, g_paused>>
    BY <1>2 DEF Receive
  <2>2. queue' = queue \/ queue' = Append(queue, Head(pipe))
    BY <1>2 DEF Receive
  <2>3. On /\ Stopped' = Stopped
    BY <1>2, <2>1 DEF On, Stopped, Receive, dbg_apply_control
  <2>4. ~Stopped => Quiet'
    BY <2>1, <2>2, <2>3, AtTheEnd, FromTheFront DEF StopInv, Quiet
  <2>5. ResumeLast'
    BY <2>1, <2>2, <2>3, AtTheEnd, FromTheFront DEF StopInv, ResumeLast, AtStop
  <2> QED
    BY <2>1, <2>3, <2>4, <2>5 DEF StopInv
<1>3. CASE Drain
  <2>1. /\ pc = "drain" /\ Stopped /\ UNCHANGED <<pipe, told>>
        /\ queue' = queue \/ (queue # <<>> /\ queue' = Tail(queue))
    BY <1>3 DEF Drain, Stopped
  <2>2. On
    BY <1>3, <2>1 DEF On, Drain, dbg_apply_control, Leave
  <2>3. g_paused /\ ResumeLast
    BY <2>1, <2>2 DEF StopInv
  <2>4. ResumeLast'
    BY <2>1, <2>3, FromTheFront DEF ResumeLast
  <2>5. CASE pc' \in {"wait", "drain", "answer"} /\ g_paused' = g_paused
    BY <2>3, <2>4, <2>5 DEF StopInv, Stopped
  <2>6. CASE ~(pc' \in {"wait", "drain", "answer"} /\ g_paused' = g_paused)
    <3> DEFINE c == Head(queue)
    <3>1. /\ queue # <<>> /\ IsResume(c) /\ dbg_apply_control(c) /\ Leave
          /\ queue' = Tail(queue)
      BY <1>3, <2>1, <2>6 DEF Drain
    <3>2. pc' \in {"run", "ended"}
      BY <3>1 DEF Leave
    <3>3. c \in Resumes
      BY <3>1, <3>2, Kinds DEF dbg_apply_control, On, IsResume
    <3>4. Quiet'
      BY <3>1, <3>3, <2>1, <2>3, FromTheFront DEF Quiet, ResumeLast
    <3> QED
      BY <3>2, <3>4, <2>4 DEF StopInv, Stopped
  <2> QED
    BY <2>5, <2>6
<1>4. CASE Announce
  <2>1. /\ Quiet /\ g_paused /\ ResumeLast /\ UNCHANGED <<pipe, queue, g_paused>>
        /\ pc' = "wait"
    BY <1>4 DEF Announce, Goto, StopInv, On, Stopped
  <2>2. ResumeLast'
    BY <2>1, QuietEnds DEF Quiet, ResumeLast
  <2> QED
    BY <2>1, <2>2 DEF StopInv, Stopped
<1>5. CASE Wait
  <2>1. g_active /\ pc = "wait" /\ pc' = "drain" /\ UNCHANGED <<pipe, told, queue, g_paused, g_active>>
    BY <1>5 DEF Wait, Leave, On
  <2> QED
    BY <2>1 DEF StopInv, On, Stopped, ResumeLast
<1>6. CASE \/ dbg_try_init \/ Activate \/ EnterMain \/ Reset \/ mettle_dbg_exit \/ Line \/ Fault
           \/ \E fn \in Functions : mettle_dbg_enter(fn)
           \/ \E line \in Lines, holds \in BOOLEAN : Breakpoints(line, holds)
  <2>1. /\ On /\ ~Stopped /\ ~Stopped' /\ pc' # "announce" /\ UNCHANGED <<pipe, told, queue>>
    BY <1>6 DEF dbg_try_init, Activate, EnterMain, Reset, mettle_dbg_exit, Line, Fault, mettle_dbg_enter,
                Breakpoints, Goto, On, Stopped
  <2> QED
    BY <2>1 DEF StopInv, Quiet, ResumeLast
<1>7. CASE Pause
  <2>1. /\ On /\ ~Stopped /\ ~Stopped' /\ g_paused' /\ UNCHANGED <<pipe, told, queue>>
    BY <1>7 DEF Pause, Goto, On, Stopped
  <2> QED
    BY <2>1 DEF StopInv, Quiet, ResumeLast
<1>8. CASE Close \/ Disconnect \/ dbg_apply_query \/ UNCHANGED vars
  <2>1. /\ On /\ Stopped' = Stopped /\ (pc' = "announce") = (pc = "announce")
        /\ UNCHANGED <<pipe, told, queue, g_paused>>
    BY <1>8 DEF Close, Disconnect, dbg_apply_query, Goto, On, Stopped, vars
  <2> QED
    BY <2>1 DEF StopInv, Quiet, ResumeLast
<1> QED
  BY <1>1, <1>2, <1>3, <1>4, <1>5, <1>6, <1>7, <1>8 DEF Next, Reader, MainThread, Hooks, Stop, Ended

(* What returning from a call does to a stack of calls (mettle_dbg_exit).                 *)
LEMMA FrontIs ==
  ASSUME NEW S, NEW s \in Seq(S), Len(s) > 0
  PROVE  Front(s) \in Seq(S) /\ Len(Front(s)) = Len(s) - 1
<1>1. PICK n \in Int : n = Len(s) - 1
  OBVIOUS
<1>2. 1 \in Int /\ \A i \in 1 .. n : s[i] \in S
  BY <1>1
<1>3. SubSeq(s, 1, n) \in Seq(S) /\ Len(SubSeq(s, 1, n)) = IF 1 <= n THEN n - 1 + 1 ELSE 0
  BY <1>2, SubSeqProperties
<1>4. Front(s) = SubSeq(s, 1, n)
  BY <1>1, Zenon DEF Front
<1>5. (IF 1 <= n THEN n - 1 + 1 ELSE 0) = n
  BY <1>1
<1> QED
  BY <1>1, <1>3, <1>4, <1>5, Zenon

(* The shadow stack is as deep as the program's calls until they outgrow it, since enter  *)
(* and exit push and pop it together with them (mettle_dbg_enter, mettle_dbg_exit).       *)
LEMMA DepthStep == TypeInv /\ Depths /\ [Next]_vars => Depths'
<1> SUFFICES ASSUME TypeInv, Depths, [Next]_vars PROVE Depths'
  OBVIOUS
<1> USE DEF program
<1> DEFINE Frames == Seq(Functions \cup {Main})
<1>0. calls \in Frames /\ g_stack \in Frames /\ Len(calls) \in Nat /\ Len(g_stack) \in Nat
  BY DEF Depths
<1>1. CASE Activate
  <2>1. pc = "activate" /\ pc' = "entry" /\ UNCHANGED <<calls, g_stack, deep>>
    BY <1>1 DEF Activate, Goto
  <2> QED
    BY <2>1 DEF Depths
<1>2. CASE \E fn \in Functions : mettle_dbg_enter(fn)
  <2> PICK fn \in Functions : mettle_dbg_enter(fn)
    BY <1>2
  <2>1. /\ g_active /\ pc = "run" /\ pc' = "line"
        /\ calls' = Append(calls, fn)
        /\ g_stack' = IF Len(g_stack) < DBG_MAX_STACK THEN Append(g_stack, fn) ELSE g_stack
    BY DEF mettle_dbg_enter, Goto
  <2>2. deep' \in BOOLEAN /\ (deep \/ Len(calls') > DBG_MAX_STACK => deep')
    BY DEF mettle_dbg_enter
  <2>3. \A s \in Frames : Append(s, fn) \in Frames /\ Len(Append(s, fn)) = Len(s) + 1
    OBVIOUS
  <2>4. calls' \in Frames /\ g_stack' \in Frames /\ Len(calls') = Len(calls) + 1
    BY <1>0, <2>1, <2>3
  <2>5. ~deep' => Len(g_stack') = Len(calls') /\ Len(calls') <= DBG_MAX_STACK
    <3> SUFFICES ASSUME ~deep' PROVE Len(g_stack') = Len(calls') /\ Len(calls') <= DBG_MAX_STACK
      OBVIOUS
    <3>1. ~deep /\ ~(Len(calls') > DBG_MAX_STACK)
      BY <2>2
    <3>2. Len(g_stack) = Len(calls)
      BY <2>1, <3>1 DEF Depths
    <3> QED
      BY <1>0, <2>1, <2>3, <2>4, <3>1, <3>2, DebugConstants
  <2>6. Len(calls') > 0
    BY <1>0, <2>4
  <2> QED
    BY <2>1, <2>2, <2>4, <2>5, <2>6 DEF Depths
<1>3. CASE mettle_dbg_exit
  <2>1. /\ pc = "run" /\ g_active' = g_active /\ deep' = deep
        /\ pc' = IF Len(calls) = 1 THEN "ended" ELSE "run"
        /\ calls' = Front(calls)
        /\ g_stack' = IF g_stack # <<>> THEN Front(g_stack) ELSE g_stack
    BY <1>3 DEF mettle_dbg_exit, Goto
  <2>2. ASSUME NEW s \in Frames, Len(s) > 0
        PROVE  Front(s) \in Frames /\ Len(Front(s)) = Len(s) - 1
    BY <2>2, FrontIs
  <2>3. Len(calls) > 0 /\ (g_stack # <<>> <=> Len(g_stack) > 0)
    BY <1>0, <2>1 DEF Depths
  <2>4. /\ calls' \in Frames /\ Len(calls') = Len(calls) - 1
        /\ g_stack' \in Frames /\ (Len(g_stack) > 0 => Len(g_stack') = Len(g_stack) - 1)
    BY <1>0, <2>1, <2>2, <2>3
  <2>5. deep' \in BOOLEAN
    BY <2>1 DEF Depths
  <2>6. pc' # "ended" => Len(calls') > 0
    BY <1>0, <2>1, <2>3, <2>4
  <2>7. g_active' /\ ~deep' => Len(g_stack') = Len(calls') /\ Len(calls') <= DBG_MAX_STACK
    BY <1>0, <2>1, <2>3, <2>4, DebugConstants DEF Depths
  <2> QED
    BY <2>1, <2>4, <2>5, <2>6, <2>7 DEF Depths
<1>4. CASE Receive \/ Disconnect \/ Drain
  <2>1. UNCHANGED <<calls, deep, g_stack>>
    BY <1>4 DEF Receive, Disconnect, Drain
  <2>2. g_active' => g_active
    <3>1. CASE Receive
      BY <3>1 DEF Receive, dbg_apply_control, TypeInv
    <3>2. CASE Disconnect
      BY <3>2 DEF Disconnect
    <3>3. CASE Drain
      BY <3>3 DEF Drain, dbg_apply_control, TypeInv
    <3> QED
      BY <1>4, <3>1, <3>2, <3>3
  <2>3. /\ pc' # "ended" => pc # "ended"
        /\ pc' \in {"start", "activate", "entry"} => pc \in {"start", "activate", "entry"}
        /\ pc' # "entry" => pc # "entry" \/ ~g_active'
    BY <1>4 DEF Receive, Disconnect, Drain, Leave
  <2> QED
    BY <2>1, <2>2, <2>3 DEF Depths
<1>5. CASE \/ (\E c \in Commands : Send(c)) \/ Close \/ dbg_try_init \/ Reset \/ Pause \/ Announce
           \/ Wait \/ dbg_apply_query \/ Line \/ Fault \/ UNCHANGED vars
           \/ \E line \in Lines, holds \in BOOLEAN : Breakpoints(line, holds)
  <2>1. UNCHANGED <<calls, deep, g_stack, g_active>>
    BY <1>5 DEF Send, Close, dbg_try_init, Reset, Pause, Announce, Wait, Leave, dbg_apply_query,
                Line, Fault, Breakpoints, vars
  <2>2. /\ pc' # "ended" => pc # "ended"
        /\ pc' \in {"start", "activate", "entry"} => pc \in {"start", "activate", "entry"}
        /\ pc' # "entry" => pc # "entry"
    BY <1>5 DEF Send, Close, dbg_try_init, Reset, Pause, Announce, Wait, Leave, dbg_apply_query,
                Line, Fault, Breakpoints, Goto, vars
  <2> QED
    BY <2>1, <2>2 DEF Depths
<1>6. CASE EnterMain
  <2>1. CASE g_active
    <3>1. /\ pc = "entry" /\ pc' = "pause" /\ g_stack' = <<Main>>
          /\ UNCHANGED <<calls, deep>>
      BY <1>6, <2>1 DEF EnterMain, Goto
    <3>2. <<Main>> \in Frames /\ Len(<<Main>>) = 1
      OBVIOUS
    <3>3. Len(calls') = 1 /\ Len(g_stack') = 1 /\ calls' \in Frames /\ g_stack' \in Frames
      BY <3>1, <3>2 DEF Depths
    <3>4. deep' \in BOOLEAN
      BY <3>1 DEF Depths
    <3> QED
      BY <3>1, <3>3, <3>4, DebugConstants DEF Depths
  <2>2. CASE ~g_active
    <3>1. pc = "entry" /\ pc' = "run" /\ ~g_active' /\ UNCHANGED <<calls, g_stack, deep>>
      BY <1>6, <2>2 DEF EnterMain, Goto
    <3> QED
      BY <3>1 DEF Depths
  <2> QED
    BY <2>1, <2>2
<1> QED
  BY <1>1, <1>2, <1>3, <1>4, <1>5, <1>6 DEF Next, Reader, MainThread, Hooks, Stop, Ended

(* The hooks work by the last resume: nothing the reader applies while the program runs   *)
(* is a resume, so only the end of a stop sets the mode to a step (dbg_apply_control).    *)
LEMMA ModeStep == IInv /\ [Next]_vars => ModeInv'
<1> SUFFICES ASSUME IInv, [Next]_vars, g_active', Running', g_mode' # "pause" PROVE ModeInv'
  BY DEF ModeInv
<1> USE DEF agent
<1>1. CASE Receive
  <2> DEFINE c == Head(pipe)
  <2>1. /\ pipe # <<>> /\ UNCHANGED <<pc, step, deep>> /\ g_active
    BY <1>1 DEF Receive, dbg_apply_control, program, IInv, TypeInv
  <2>2. Running
    BY <2>1 DEF Running
  <2>3. CASE UNCHANGED agent
    BY <2>1, <2>2, <2>3 DEF IInv, ModeInv
  <2>4. CASE ~dbg_is_query(c) /\ dbg_apply_control(c)
    <3>1. c \in Command /\ ~AtStop(c)
      BY <2>1, <2>2, FromTheFront DEF IInv, TypeInv, StopInv, On, Running, Stopped, Quiet
    <3>2. c \in Edits \cup {Plain("pause"), Plain("detach")}
      BY <3>1, <2>4, Kinds DEF Command, AtStop, dbg_is_query
    <3>3. c.verb \in {"setbp", "bpadd", "clearall", "pause", "detach"}
      BY <3>2, Kinds
    <3>4. g_mode' = g_mode /\ g_step_depth' = g_step_depth
      BY <3>3, <2>4 DEF dbg_apply_control, NewMode
    <3> QED
      BY <3>4, <2>1, <2>2 DEF IInv, ModeInv
  <2> QED
    BY <1>1, <2>3, <2>4 DEF Receive
<1>2. CASE Drain
  <2> DEFINE c == Head(queue)
  <2>1. /\ pc = "drain" /\ queue # <<>> /\ IsResume(c) /\ dbg_apply_control(c) /\ step' = Asked(c)
        /\ UNCHANGED <<calls, deep, g_stack>>
    BY <1>2 DEF Drain, Running, program
  <2>2. c \in Resumes /\ g_active
    BY <2>1, Kinds DEF dbg_apply_control, IsResume, IInv, TypeInv
  <2>3. c.verb \in {"go", "stepin", "next", "stepout"}
    BY <2>2, Kinds
  <2>4. /\ g_mode' = IF c.verb = "go" THEN "run" ELSE c.verb
        /\ c.verb \in {"next", "stepout"} => g_step_depth' = Len(g_stack)
    BY <2>1, <2>3 DEF dbg_apply_control, NewMode
  <2>5. /\ step'.verb = c.verb
        /\ c.verb \in {"next", "stepout"} => step'.depth = Len(calls)
    BY <2>1 DEF Asked
  <2>6. ~deep' => Len(g_stack) = Len(calls)
    BY <2>1, <2>2 DEF IInv, Depths
  <2> QED
    BY <2>3, <2>4, <2>5, <2>6 DEF ModeInv
<1>3. CASE Wait
  BY <1>3 DEF Wait, Leave, Running
<1>4. CASE \/ dbg_try_init \/ Activate \/ EnterMain \/ Reset \/ Pause \/ Announce \/ dbg_apply_query \/ Fault
  BY <1>4 DEF dbg_try_init, Activate, EnterMain, Reset, Pause, Announce, dbg_apply_query, Fault, Goto,
              Running
<1>5. CASE \/ (\E cmd \in Commands : Send(cmd)) \/ Close \/ Line \/ mettle_dbg_exit
           \/ (\E fn \in Functions : mettle_dbg_enter(fn)) \/ UNCHANGED vars
           \/ \E line \in Lines, holds \in BOOLEAN : Breakpoints(line, holds)
  <2>1. /\ Running /\ UNCHANGED <<g_active, g_mode, g_step_depth, step>> /\ (deep => deep')
    BY <1>5 DEF Send, Close, Line, mettle_dbg_exit, mettle_dbg_enter, Breakpoints, Goto, Running,
                program, vars, IInv, Depths
  <2> QED
    BY <2>1 DEF IInv, ModeInv
<1>6. CASE Disconnect
  BY <1>6 DEF Disconnect
<1> QED
  BY <1>1, <1>2, <1>3, <1>4, <1>5, <1>6 DEF Next, Reader, MainThread, Hooks, Stop, Ended

(* Everything above holds from the start of the program on.                               *)
THEOREM Invariance == Spec => []IInv
<1>1. Init => IInv
  <2> SUFFICES ASSUME Init PROVE IInv
    OBVIOUS
  <2>0. /\ <<>> \in Seq(Command) /\ <<>> \in Seq(Functions \cup {Main}) /\ Len(<<>>) = 0
        /\ <<Main>> \in Seq(Functions \cup {Main}) /\ Len(<<Main>>) = 1
    OBVIOUS
  <2>1. TypeInv
    BY <2>0, Zenon DEF Init, TypeInv
  <2>2. StopInv
    BY DEF Init, StopInv, Stopped, Quiet, ResumeLast, NoneAtStop, NoResume, ResumeEnds
  <2>3. Depths
    <3>1. deep \in BOOLEAN /\ ~g_active
      BY DEF Init
    <3>2. calls = <<Main>> /\ g_stack = <<>>
      BY DEF Init
    <3> QED
      BY <2>0, <3>1, <3>2 DEF Depths
  <2> QED
    BY <2>1, <2>2, <2>3 DEF IInv, ModeInv, Init
<1>2. IInv /\ [Next]_vars => IInv'
  BY TypeStep, StopStep, DepthStep, ModeStep DEF IInv
<1> QED
  BY <1>1, <1>2, PTL DEF Spec

(* A resume or a query sent at a stop is never pending once the program has left it, so   *)
(* it neither ends nor inspects a later stop (dbg_reader_main, dbg_pause_here).            *)
THEOREM StopCommandsSafe == Spec => []StopCommandsMeetTheirStop
<1>1. IInv => StopCommandsMeetTheirStop
  <2> SUFFICES ASSUME IInv, g_active, NEW c \in Pending, AtStop(c) PROVE g_paused
    BY DEF StopCommandsMeetTheirStop, AtStop
  <2>1. ~NoneAtStop(pipe) \/ ~NoneAtStop(queue)
    BY DEF Pending, ToSet, NoneAtStop
  <2> QED
    BY <2>1 DEF IInv, StopInv, On, Quiet
<1> QED
  BY <1>1, Invariance, PTL

(* A step ends on exactly the lines the client's step ends on, by the real calls, though  *)
(* mettle_dbg_line decides by the shadow stack, the mode and the depth it has at hand.    *)
THEOREM StepsSafe == Spec => StepsLandWhereAsked
<1> DEFINE Lands ==
      (pc \in {"run", "line"} /\ ~deep /\ g_mode # "pause") =>
        ((pc' = "breakpoints" => ~StepAsked) /\ (pc' = "reset" /\ reason' = "step" => StepAsked))
<1>1. IInv /\ [Next]_vars => [Lands]_vars
  <2> SUFFICES ASSUME IInv, [Next]_vars, pc \in {"run", "line"}, ~deep, g_mode # "pause",
                      pc' = "breakpoints" \/ (pc' = "reset" /\ reason' = "step")
               PROVE  Lands
    OBVIOUS
  <2>1. Line
    BY DEF Next, Reader, MainThread, Hooks, Stop, Ended, vars, Send, Close, Receive, Disconnect,
           dbg_try_init, Activate, EnterMain, mettle_dbg_enter, mettle_dbg_exit, Fault, Breakpoints, Reset,
           Pause, Announce, Wait, Drain, dbg_apply_query, Goto
  <2>2. StepDue <=> StepAsked
    BY <2>1 DEF Line, IInv, Depths, ModeInv, Running, StepDue, StepAsked
  <2> QED
    BY <2>1, <2>2 DEF Line
<1> QED
  BY <1>1, Invariance, PTL DEF Spec, StepsLandWhereAsked
================================================================================
