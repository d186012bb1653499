------------------------------- MODULE Capture -------------------------------
(***************************************************************************)
(* Packet capture (internal/capture, capture_packet in the XDP program):   *)
(* one session at a time, recorded by the drain goroutine of its own       *)
(* ringbuf reader, ended by a caller of Stop or by the timer Start armed.  *)
(*                                                                         *)
(* Start holds r.mu for its whole length.  Stop ends the session under     *)
(* r.mu but closes the reader and turns the kernel's switch off after      *)
(* releasing it.  The ring buffer belongs to the map: what no reader took  *)
(* stays in it for the next one.                                           *)
(***************************************************************************)
EXTENDS Naturals

CONSTANTS
  Caller,       \* goroutines that call Stop: handlers, the shutdown sequence
  MaxSessions,  \* bound: sessions ever started
  MaxPackets    \* bound: packets ever copied into the ring buffer

Session == 1 .. MaxSessions
Packet  == 1 .. MaxPackets

\* Who may be inside Stop: a caller, or the timer of a session.
Stopper == Caller \cup Session

ASSUME ConstantsOK ==
  MaxSessions \in Nat \ {0} /\ MaxPackets \in Nat /\ Caller \cap Nat = {}

VARIABLES
  running,    \* Recorder.running
  session,    \* how many sessions were started
  reader,     \* Recorder.reader, named by its session; 0 for nil
  stopTimer,  \* Recorder.stopTimer, the same
  timer,      \* what became of each session's timer
  readers,    \* readers that are open
  hand,       \* the event each drain goroutine has read and not appended
  buf,        \* Recorder.buf: the packets recorded
  enabled,    \* capture_cfg_map: the kernel's switch
  checked,    \* whether the XDP program is past its look at the switch
  ring,       \* capture_events: packets no reader has taken
  copied,     \* how many packets were copied into it
  pc,         \* how far each Stop has come
  overlapped  \* history: whether Start met a Stop under way

vars == <<running, session, reader, stopTimer, timer, readers, hand, buf, enabled,
          checked, ring, copied, pc, overlapped>>
kernel == <<enabled, checked, ring, copied>>
drains == <<hand, buf>>

\* A Stop under way: the reader it still has to close, or 0 when only the
\* switch is left.
Idle == [at |-> "idle", closes |-> 0]

FlagsOK ==
  running \in BOOLEAN /\ enabled \in BOOLEAN /\ checked \in BOOLEAN /\ overlapped \in BOOLEAN

SessionOK ==
  /\ session \in 0 .. MaxSessions /\ reader \in 0 .. session
  /\ stopTimer \in 0 .. session /\ (stopTimer # 0 => running)

DrainsOK ==
  /\ timer \in [Session -> {"none", "armed", "fired"}]
  /\ readers \subseteq Session
  /\ hand \in [Session -> 0 .. MaxPackets]

PacketsOK ==
  /\ copied \in 0 .. MaxPackets /\ (checked => copied < MaxPackets)
  /\ buf \subseteq Packet /\ ring \subseteq Packet

StopsOK ==
  pc \in [Stopper -> [at : {"idle", "close", "disable"}, closes : 0 .. MaxSessions]]

TypeOK == FlagsOK /\ SessionOK /\ DrainsOK /\ PacketsOK /\ StopsOK

Init ==
  /\ running = FALSE /\ session = 0 /\ reader = 0 /\ stopTimer = 0
  /\ timer = [s \in Session |-> "none"]
  /\ readers = {} /\ hand = [s \in Session |-> 0] /\ buf = {}
  /\ enabled = FALSE /\ checked = FALSE /\ ring = {} /\ copied = 0
  /\ pc = [c \in Stopper |-> Idle]
  /\ overlapped = FALSE

-----------------------------------------------------------------------------
(* Starting and stopping.                                                  *)

Stopping == {c \in Stopper : pc[c].at # "idle"}

\* Mutant: the kernel is not told.
SwitchOn_Forgotten == enabled
SwitchOn == TRUE

\* Start(duration): refused while a session runs; a duration of 0 arms no
\* timer.  (A reader or a switch that cannot be had changes nothing.)
Start(timed) ==
  LET s == session + 1
  IN /\ ~running /\ session < MaxSessions
     /\ running' = TRUE /\ enabled' = SwitchOn
     /\ session' = s /\ reader' = s
     /\ readers' = readers \cup {s}
     /\ buf' = {}
     /\ stopTimer' = IF timed THEN s ELSE stopTimer
     /\ timer' = IF timed THEN [timer EXCEPT ![s] = "armed"] ELSE timer
     /\ overlapped' = (Stopping # {})
     /\ UNCHANGED <<hand, checked, ring, copied, pc>>

\* The duration is over: a goroutine of its own calls Stop.
TimerFires(s) ==
  /\ timer[s] = "armed"
  /\ timer' = [timer EXCEPT ![s] = "fired"]
  /\ UNCHANGED <<running, session, reader, stopTimer, readers, drains, kernel, pc,
                 overlapped>>

\* Mutant: r.stopTimer.Stop() is forgotten.
Disarmed_Forgotten == timer

\* r.stopTimer.Stop(): too late for a timer that has fired.
Disarmed ==
  [s \in Session |-> IF s = stopTimer /\ timer[s] = "armed" THEN "none" ELSE timer[s]]

\* Mutant: r.stopTimer is left set.
NoTimer_Kept == stopTimer
NoTimer == 0

\* The half of Stop under r.mu that ends the session; t is timer' without the
\* timer that may be calling.
EndSession(c, t) ==
  /\ running
  /\ running' = FALSE
  /\ pc' = [pc EXCEPT ![c] = [at |-> "close", closes |-> reader]]
  /\ reader' = 0
  /\ timer' = t
  /\ stopTimer' = NoTimer
  /\ UNCHANGED <<session, readers, drains, kernel, overlapped>>

\* A handler or the shutdown sequence calls Stop; without a session it is a
\* no-op.
CallStop(c) ==
  /\ c \in Caller /\ pc[c].at = "idle"
  /\ EndSession(c, Disarmed)

\* Mutant: the timer gives way to any Stop under way.
TimerStop_GivesWay(s) ==
  /\ timer[s] = "fired"
  /\ \/ Stopping = {} /\ EndSession(s, [Disarmed EXCEPT ![s] = "none"])
     \/ /\ ~running \/ Stopping # {}
        /\ timer' = [timer EXCEPT ![s] = "none"]
        /\ UNCHANGED <<running, session, reader, stopTimer, readers, drains, kernel,
                       pc, overlapped>>

\* A timer that has fired calls Stop, whatever session runs by now.
TimerStop(s) ==
  /\ timer[s] = "fired"
  /\ \/ EndSession(s, [Disarmed EXCEPT ![s] = "none"])
     \/ /\ ~running
        /\ timer' = [timer EXCEPT ![s] = "none"]
        /\ UNCHANGED <<running, session, reader, stopTimer, readers, drains, kernel,
                       pc, overlapped>>

\* Mutant: the recorder's reader of the moment, not the one taken under r.mu.
Closing_Current(c) == reader
Closing(c) == pc[c].closes

\* reader.Close(), with r.mu released.
StopClose(c) ==
  /\ pc[c].at = "close"
  /\ readers' = readers \ {Closing(c)}
  /\ pc' = [pc EXCEPT ![c] = [at |-> "disable", closes |-> 0]]
  /\ UNCHANGED <<running, session, reader, stopTimer, timer, drains, kernel,
                 overlapped>>

\* Mutant: the switch is left on.
SwitchOff_Never == enabled
SwitchOff == FALSE

\* SetCaptureEnabled(false).
StopDisable(c) ==
  /\ pc[c].at = "disable"
  /\ enabled' = SwitchOff
  /\ pc' = [pc EXCEPT ![c] = Idle]
  /\ UNCHANGED <<running, session, reader, stopTimer, timer, readers, drains, checked,
                 ring, copied, overlapped>>

-----------------------------------------------------------------------------
(* Packets.                                                                *)

\* capture_packet() looks at the switch ...
CheckSwitch ==
  /\ enabled /\ ~checked /\ copied < MaxPackets
  /\ checked' = TRUE
  /\ UNCHANGED <<running, session, reader, stopTimer, timer, readers, drains, enabled,
                 ring, copied, pc, overlapped>>

\* ... and copies the packet, even if the switch was turned off meanwhile.
Submit ==
  /\ checked
  /\ checked' = FALSE
  /\ copied' = copied + 1
  /\ ring' = ring \cup {copied + 1}
  /\ UNCHANGED <<running, session, reader, stopTimer, timer, readers, drains, enabled,
                 pc, overlapped>>

\* drain() reads the oldest event.  With two readers open on one ring buffer
\* the other one may read it too.
Read(s) ==
  /\ s \in readers /\ hand[s] = 0
  /\ \E p \in ring :
       /\ \A q \in ring : p <= q
       /\ hand' = [hand EXCEPT ![s] = p]
       /\ \/ ring' = ring \ {p}
          \/ readers # {s} /\ UNCHANGED ring
  /\ UNCHANGED <<running, session, reader, stopTimer, timer, readers, buf, enabled,
                 checked, copied, pc, overlapped>>

\* Mutant: stragglers are recorded too.
Recorded_Always(p) == buf \cup {p}

\* appendRecord discards an event that arrives when no session runs.
Recorded(p) == IF running THEN buf \cup {p} ELSE buf

\* appendRecord, on behalf of the drain goroutine of session s.
Append(s) ==
  /\ hand[s] # 0
  /\ buf' = Recorded(hand[s])
  /\ hand' = [hand EXCEPT ![s] = 0]
  /\ UNCHANGED <<running, session, reader, stopTimer, timer, readers, kernel, pc,
                 overlapped>>

Next ==
  \/ \E timed \in BOOLEAN : Start(timed)
  \/ \E s \in Session : TimerFires(s) \/ TimerStop(s) \/ Read(s) \/ Append(s)
  \/ \E c \in Caller : CallStop(c)
  \/ \E c \in Stopper : StopClose(c) \/ StopDisable(c)
  \/ CheckSwitch \/ Submit

Spec == Init /\ [][Next]_vars

\* Timers fire, their goroutines get the lock, and a Stop that ended a session
\* runs to its end.  Nobody has to call Stop and no packet has to come.
FairSpec ==
  /\ Spec
  /\ \A s \in Session : WF_vars(TimerFires(s)) /\ WF_vars(TimerStop(s))
  /\ \A c \in Stopper : WF_vars(StopClose(c) \/ StopDisable(c))

-----------------------------------------------------------------------------
(* Properties.                                                             *)

\* The kernel copies packets only for a session, or until the Stop that ended
\* it has turned the switch off: no order of starts, stops and timers leaves
\* it on with nobody capturing.
SwitchTracked == enabled => running \/ Stopping # {}

\* The reader of the session that runs is open: no late Stop closes it.
ReaderOpen == running => reader = session /\ reader \in readers

\* A session that did not start inside a Stop has the kernel's switch on for
\* as long as it runs.
SwitchOnForSession == running /\ ~overlapped => enabled

\* Stop ends the session, not the data: what was recorded stays as it is until
\* the next Start.
DataKept == [][~running /\ ~running' => buf' = buf]_vars

\* A forgotten start with a duration does not run for ever.
TimedEnds ==
  \A s \in Session :
    running /\ session = s /\ stopTimer = s ~> ~(running /\ session = s)
=============================================================================
