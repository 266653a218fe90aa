-------------------------------- MODULE Irkbd --------------------------------
(***************************************************************************)
(* irkbd (tekram/irkbd.c): the poll protocol with the IR-660 docking       *)
(* station.  main connects and waits; two signal handlers do the rest: the *)
(* SIGALRM handler sends the next command, the SIGIO handler receives the  *)
(* answer and arms the timer again.  Each is blocked while it runs, so     *)
(* either may interrupt the other, and both interrupt main, which goes on  *)
(* only between handlers and with no SIGIO pending (a pending SIGALRM is   *)
(* the same as a timer that expires a little later).                       *)
(*                                                                         *)
(* The socket (external) is a blocking stream: recv waits for data or the  *)
(* end of the connection, and takes everything that has arrived, of which  *)
(* the handler parses the first frame only.  The station (external)        *)
(* answers every command it gets, in order, with one frame.                *)
(*                                                                         *)
(* A frame is what it makes the handler do: "POLL" (a poll answer, mouse   *)
(* or keyboard data) arms the timer, "KBD" and "MS" (initialised or        *)
(* failed) also change the state, "NONE" is the empty frame.  How long the *)
(* timer runs is left out.                                                 *)
(*                                                                         *)
(* A definition followed by one it differs from in one place is a faulty   *)
(* variant of it, used only to see the properties fail.                    *)
(***************************************************************************)
EXTENDS Naturals, Sequences

CONSTANT MaxPending  \* bound on commands and answers on their way

ASSUME PendingAssumption == MaxPending \in Nat

VARIABLES
  pc,         \* where main is
  state,      \* self->state, without IRKBD_
  connected,  \* self->connected
  timer,      \* the interval timer runs
  sigalrm,    \* SIGALRM is pending
  sigio,      \* SIGIO is pending
  stack,      \* handlers running, the innermost first
  alrm,       \* the SIGALRM handler: its next step and the state it read
  io,         \* the next step of the SIGIO handler
  frame,      \* self->frame
  link,       \* the connection, seen from the socket
  outq,       \* commands the station has to answer
  inq         \* frames that can be received

kbdVars == <<pc, state, connected, timer, sigalrm, sigio, stack, alrm, io, frame,
          link, outq, inq>>
main    == <<pc, connected>>
signals == <<timer, sigalrm, sigio, stack>>
wire    == <<link, outq, inq>>

Frames == {"POLL", "KBD", "MS", "NONE"}

Quiescent == [step |-> "none", saw |-> "IDLE"]

(* irkbd_init                                                              *)
KbdInit ==
  /\ pc = "discover" /\ state = "IDLE" /\ connected = FALSE
  /\ timer = FALSE /\ sigalrm = FALSE /\ sigio = FALSE
  /\ stack = <<>> /\ alrm = Quiescent /\ io = "none"
  /\ frame = "NONE"
  /\ link = "down" /\ outq = <<>> /\ inq = <<>>

-----------------------------------------------------------------------------
(* main                                                                    *)

Main(from, to) ==
  /\ stack = <<>> /\ ~sigio
  /\ pc = from /\ pc' = to
  /\ UNCHANGED <<sigalrm, sigio, stack, alrm, io, frame>>

(* irkbd_connect_request up to connect(); when it fails main sleeps and    *)
(* tries again.                                                            *)
ConnectRequest ==
  /\ Main("discover", "up")
  /\ link = "down" /\ link' = "up"
  /\ UNCHANGED <<state, connected, timer, outq, inq>>

SetConnected ==
  /\ Main("up", "session")
  /\ connected' = TRUE
  /\ UNCHANGED <<state, timer, wire>>

SetInitKbd ==
  /\ Main("session", "kbd")
  /\ state' = "INIT_KBD"
  /\ UNCHANGED <<connected, timer, wire>>

SetInitMouse ==
  /\ Main("kbd", "mouse")
  /\ state' = "INIT_MOUSE"
  /\ UNCHANGED <<connected, timer, wire>>

StartTimer ==
  /\ Main("mouse", "wait")
  /\ timer' = TRUE
  /\ UNCHANGED <<state, connected, wire>>

LeaveWait ==
  /\ ~connected /\ Main("wait", "discover")
  /\ UNCHANGED <<state, connected, timer, wire>>

-----------------------------------------------------------------------------
(* Signals.  Bound: the timer does not run out with MaxPending commands,   *)
(* sent or about to be sent, and answers on their way.                     *)
Pending ==
  Len(outq) + Len(inq) + (IF sigalrm THEN 1 ELSE 0)
    + (IF alrm.step \in {"read", "send"} THEN 1 ELSE 0)

TimerExpires ==
  /\ timer /\ Pending < MaxPending
  /\ timer' = FALSE /\ sigalrm' = TRUE
  /\ UNCHANGED <<main, state, sigio, stack, alrm, io, frame, wire>>

EnterAlrm ==
  /\ sigalrm /\ alrm.step = "none"
  /\ sigalrm' = FALSE
  /\ stack' = <<"alrm">> \o stack
  /\ alrm' = [step |-> "read", saw |-> "IDLE"]
  /\ UNCHANGED <<main, state, timer, sigio, io, frame, wire>>

EnterIo ==
  /\ sigio /\ io = "none"
  /\ sigio' = FALSE
  /\ stack' = <<"io">> \o stack
  /\ io' = "recv"
  /\ UNCHANGED <<main, state, timer, sigalrm, alrm, frame, wire>>

Innermost(h) == stack # <<>> /\ Head(stack) = h

-----------------------------------------------------------------------------
(* irkbd_watchdog_timer_expired                                            *)

AlrmRead ==
  /\ Innermost("alrm") /\ alrm.step = "read"
  /\ alrm' = [step |-> "send", saw |-> state]
  /\ UNCHANGED <<main, state, signals, io, frame, wire>>

Command(s) ==
  CASE s \in {"POLLING", "READY"} -> "ENABLE"
    [] s = "INIT_KBD"   -> "INIT_KBD"
    [] s = "INIT_MOUSE" -> "INIT_MOUSE"
    [] s = "IDLE"       -> "none"

(* irkbd_data_request; on a lost connection send() fails.                  *)
AlrmSend ==
  /\ Innermost("alrm") /\ alrm.step = "send"
  /\ outq' = IF link = "up" /\ Command(alrm.saw) # "none"
             THEN Append(outq, Command(alrm.saw)) ELSE outq
  /\ alrm' = [alrm EXCEPT !.step = "finish"]
  /\ UNCHANGED <<main, state, signals, io, frame, link, inq>>

StateAfter_KeepsReady(saw) == state

StateAfter(saw) == IF saw = "READY" THEN "POLLING" ELSE state

AlrmFinish ==
  /\ Innermost("alrm") /\ alrm.step = "finish"
  /\ state' = StateAfter(alrm.saw)
  /\ timer' = (timer \/ alrm.saw = "POLLING")
  /\ alrm' = Quiescent
  /\ stack' = Tail(stack)
  /\ UNCHANGED <<main, sigalrm, sigio, io, frame, wire>>

-----------------------------------------------------------------------------
(* irkbd_data_indication                                                   *)

(* What the frame in the buffer makes the handler do first.                *)
FirstStep(f) == CASE f \in {"KBD", "MS"} -> "set"
                  [] f = "POLL"         -> "arm"
                  [] f = "NONE"         -> "leave"

IoRecv ==
  /\ Innermost("io") /\ io = "recv" /\ inq # <<>>
  /\ frame' = Head(inq)
  /\ inq' = <<>>
  /\ io' = FirstStep(Head(inq))
  /\ UNCHANGED <<main, state, signals, alrm, link, outq>>

IoEof_OnlyErrors ==
  /\ Innermost("io") /\ io = "recv" /\ inq = <<>> /\ link = "down"
  /\ io' = FirstStep(frame)
  /\ UNCHANGED <<main, state, signals, alrm, frame, wire>>

(* recv() <= 0 clears connected, and parses the last frame once more.      *)
IoEof ==
  /\ Innermost("io") /\ io = "recv" /\ inq = <<>> /\ link = "down"
  /\ connected' = FALSE
  /\ io' = FirstStep(frame)
  /\ UNCHANGED <<pc, state, signals, alrm, frame, wire>>

(* irkbd_handle_response                                                   *)
IoSetState ==
  /\ Innermost("io") /\ io = "set"
  /\ state' = IF frame = "KBD" THEN "INIT_MOUSE" ELSE "READY"
  /\ io' = "arm"
  /\ UNCHANGED <<main, signals, alrm, frame, wire>>

Rearms_NotMouse(f) == f # "MS"

Rearms(f) == TRUE

IoArm ==
  /\ Innermost("io") /\ io = "arm"
  /\ timer' = (timer \/ Rearms(frame))
  /\ io' = "leave"
  /\ UNCHANGED <<main, state, sigalrm, sigio, stack, alrm, frame, wire>>

IoLeave ==
  /\ Innermost("io") /\ io = "leave"
  /\ io' = "none"
  /\ stack' = Tail(stack)
  /\ UNCHANGED <<main, state, timer, sigalrm, sigio, alrm, frame, wire>>

-----------------------------------------------------------------------------
(* The station and the link (external)                                     *)

Answer(c) == CASE c = "ENABLE" -> "POLL" [] c = "INIT_KBD" -> "KBD"
               [] c = "INIT_MOUSE" -> "MS"

StationAnswers ==
  /\ link = "up" /\ outq # <<>>
  /\ outq' = Tail(outq)
  /\ inq' = Append(inq, Answer(Head(outq)))
  /\ sigio' = TRUE
  /\ UNCHANGED <<main, state, timer, sigalrm, stack, alrm, io, frame, link>>

LinkDown ==
  /\ link = "up"
  /\ link' = "down"
  /\ outq' = <<>>
  /\ sigio' = TRUE
  /\ UNCHANGED <<main, state, timer, sigalrm, stack, alrm, io, frame, inq>>

-----------------------------------------------------------------------------
MainStep == SetConnected \/ SetInitKbd \/ SetInitMouse \/ StartTimer \/ LeaveWait
AlrmStep == EnterAlrm \/ AlrmRead \/ AlrmSend \/ AlrmFinish
IoStep   == EnterIo \/ IoRecv \/ IoEof \/ IoSetState \/ IoArm \/ IoLeave

KbdNext ==
  \/ ConnectRequest
  \/ SetConnected \/ SetInitKbd \/ SetInitMouse \/ StartTimer \/ LeaveWait
  \/ TimerExpires
  \/ EnterAlrm \/ EnterIo
  \/ AlrmRead \/ AlrmSend \/ AlrmFinish
  \/ IoRecv \/ IoEof \/ IoSetState \/ IoArm \/ IoLeave
  \/ StationAnswers \/ LinkDown

(* The kernel delivers signals and runs the process, a timer expires, the  *)
(* station answers.  The shortest timer (15 ms) is far longer than a run of*)
(* the handlers, so alarms do not keep main and the SIGIO handler from     *)
(* getting on (strong).                                                    *)
KbdFairness ==
  /\ SF_kbdVars(MainStep) /\ SF_kbdVars(IoStep) /\ WF_kbdVars(AlrmStep)
  /\ WF_kbdVars(TimerExpires) /\ WF_kbdVars(StationAnswers)

KbdSpec     == KbdInit /\ [][KbdNext]_kbdVars
KbdFairSpec == KbdSpec /\ KbdFairness

-----------------------------------------------------------------------------
(* Properties                                                              *)

(* The SIGIO handler waits for data inside an interrupted SIGALRM handler, *)
(* which a late SIGIO, whose frame was taken by the recv before, can do.   *)
(* No alarm can be delivered then: only a frame or a disconnect ends it.   *)
BlockedInAlarm == stack = <<"io", "alrm">> /\ io = "recv" /\ inq = <<>>

(* There is no retry in the initialising states, so the exchange is kept   *)
(* going by a single token: on a live session there is always a timer, an  *)
(* alarm, a command, an answer or a handler that will produce one.         *)
KeepsPolling ==
  pc = "wait" /\ link = "up" =>
    \/ timer \/ sigalrm \/ alrm.step # "none"
    \/ outq # <<>> \/ inq # <<>> \/ io \in {"set", "arm"}

(* A session that stays up gets to the polling state, whatever an old      *)
(* timer, a late answer or a lost frame did on the way, unless the SIGIO   *)
(* handler blocks inside the SIGALRM handler.                              *)
GetsToPolling ==
  pc = "wait" /\ link = "up"
    ~> state = "POLLING" \/ link = "down" \/ BlockedInAlarm

(* A disconnect that reaches the waiting program with nothing unread makes *)
(* it look for the station again.                                          *)
Reconnects ==
  pc = "wait" /\ link = "down" /\ sigio /\ inq = <<>> ~> pc = "discover"
=============================================================================
