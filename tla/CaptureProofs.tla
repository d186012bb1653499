---------------------------- MODULE CaptureProofs ----------------------------
(***************************************************************************)
(* The safety invariants of Capture, for any number of callers, sessions   *)
(* and packets.  The four are proved together: that a late Stop does not   *)
(* close the reader of the running session needs that every reader a Stop  *)
(* still has to close belongs to an earlier one, and that a session keeps  *)
(* the switch needs that no Stop is left from before it.                   *)
(***************************************************************************)
EXTENDS Capture, TLAPS

\* A Stop under way closes the reader of a session that was started, and of
\* an earlier one once another runs.
ClosesOld ==
  \A c \in Stopper :
    /\ pc[c].closes <= session
    /\ running => pc[c].closes < session

\* A session that did not start inside a Stop runs without one.
AloneInSession == running /\ ~overlapped => enabled /\ Stopping = {}

LEMMA Bounds == MaxSessions \in Nat \ {0} /\ MaxPackets \in Nat
  BY ConstantsOK DEF ConstantsOK

IInv == TypeOK /\ SwitchTracked /\ ReaderOpen /\ ClosesOld /\ AloneInSession

LEMMA InitInv == Init => IInv
  <1> SUFFICES ASSUME Init PROVE IInv
    OBVIOUS
  <1> USE Bounds DEF Init
  <1>1. TypeOK
    <2>1. FlagsOK
      BY Zenon DEF FlagsOK
    <2>4. SessionOK
      BY DEF SessionOK
    <2>2. DrainsOK /\ PacketsOK
      BY DEF DrainsOK, PacketsOK
    <2>3. StopsOK
      BY DEF StopsOK, Idle
    <2> QED
      BY <2>1, <2>2, <2>3, <2>4 DEF TypeOK
  <1>2. SwitchTracked /\ ReaderOpen /\ AloneInSession
    BY DEF SwitchTracked, ReaderOpen, AloneInSession
  <1>3. ClosesOld
    BY DEF ClosesOld, Idle
  <1> QED
    BY <1>1, <1>2, <1>3 DEF IInv

\* Start takes a session number no Stop has ever seen.
LEMMA StartInv ==
  ASSUME IInv, NEW timed \in BOOLEAN, Start(timed)
  PROVE  IInv'
  <1> USE Bounds DEF IInv, TypeOK, Start, SwitchOn
  <1>1. session \in Nat /\ session + 1 \in Session /\ session' = session + 1
    BY DEF SessionOK, Session
  <1>2. TypeOK'
    <2>1. FlagsOK'
      BY Zenon DEF FlagsOK
    <2>2. SessionOK'
      BY <1>1 DEF SessionOK
    <2>3. DrainsOK'
      BY <1>1 DEF DrainsOK
    <2>4. PacketsOK' /\ StopsOK'
      BY DEF PacketsOK, StopsOK
    <2> QED
      BY <2>1, <2>2, <2>3, <2>4
  <1>3. SwitchTracked' /\ ReaderOpen'
    BY <1>1 DEF SwitchTracked, ReaderOpen
  <1>4. ClosesOld'
    <2>1. ASSUME NEW c \in Stopper PROVE pc[c].closes < session + 1
      <3>1. pc[c].closes \in Nat /\ pc[c].closes <= session
        BY DEF StopsOK, ClosesOld
      <3> QED
        BY <1>1, <3>1
    <2>2. ASSUME NEW c \in Stopper PROVE pc[c].closes <= session + 1
      <3>1. pc[c].closes \in Nat /\ pc[c].closes <= session
        BY DEF StopsOK, ClosesOld
      <3> QED
        BY <1>1, <3>1
    <2> QED
      BY <1>1, <2>1, <2>2 DEF ClosesOld
  <1>5. AloneInSession'
    BY DEF AloneInSession, Stopping
  <1> QED
    BY <1>2, <1>3, <1>4, <1>5

\* The session is over; the reader its Stop has to close is its own.
LEMMA EndSessionInv ==
  ASSUME IInv, NEW c \in Stopper,
         NEW t \in [Session -> {"none", "armed", "fired"}], EndSession(c, t)
  PROVE  IInv'
  <1> USE Bounds DEF IInv, TypeOK, EndSession, drains, kernel
  <1>1. reader = session /\ session \in 0 .. MaxSessions
    BY DEF SessionOK, ReaderOpen
  <1>2. TypeOK'
    <2>1. FlagsOK'
      BY Zenon DEF FlagsOK
    <2>2. SessionOK'
      BY <1>1 DEF SessionOK, NoTimer
    <2>3. DrainsOK' /\ PacketsOK'
      BY DEF DrainsOK, PacketsOK
    <2>4. StopsOK'
      BY <1>1 DEF StopsOK
    <2> QED
      BY <2>1, <2>2, <2>3, <2>4
  <1>3. pc'[c].at = "close" /\ c \in Stopping'
    BY DEF StopsOK, Stopping
  <1>4. SwitchTracked' /\ ReaderOpen' /\ AloneInSession'
    BY <1>3 DEF SwitchTracked, ReaderOpen, AloneInSession
  <1>5. ClosesOld'
    <2>1. ASSUME NEW d \in Stopper PROVE pc'[d].closes <= session
      <3>1. CASE d = c
        BY <1>1, <3>1 DEF StopsOK
      <3>2. CASE d # c
        BY <3>2 DEF StopsOK, ClosesOld
      <3> QED
        BY <3>1, <3>2
    <2> QED
      BY <2>1 DEF ClosesOld
  <1> QED
    BY <1>2, <1>4, <1>5

LEMMA DisarmedType ==
  ASSUME TypeOK
  PROVE  Disarmed \in [Session -> {"none", "armed", "fired"}]
  BY DEF TypeOK, DrainsOK, Disarmed

\* The second half of a Stop, step by step.
LEMMA StopHalfInv ==
  ASSUME IInv, NEW c \in Stopper, StopClose(c) \/ StopDisable(c)
  PROVE  IInv'
  <1> USE Bounds DEF IInv, TypeOK, drains
  <1>0. c \in Stopping /\ pc[c].closes \in Nat /\ session \in Nat
    BY DEF SessionOK, StopsOK, Stopping, StopClose, StopDisable
  <1>1. UNCHANGED <<running, session, overlapped>>
    BY DEF StopClose, StopDisable
  <1>2. TypeOK'
    <2>1. FlagsOK'
      BY Zenon DEF FlagsOK, StopClose, StopDisable, SwitchOff, kernel
    <2>2. SessionOK' /\ DrainsOK' /\ PacketsOK'
      BY DEF SessionOK, DrainsOK, PacketsOK, StopClose, StopDisable, kernel
    <2>3. StopsOK'
      BY DEF StopsOK, StopClose, StopDisable, Idle
    <2> QED
      BY <2>1, <2>2, <2>3
  <1>3. ClosesOld'
    <2>1. ASSUME NEW d \in Stopper
          PROVE  pc'[d].closes <= session /\ (running => pc'[d].closes < session)
      <3>1. CASE d = c
        <4>1. pc'[d].closes = 0
          BY <3>1 DEF StopsOK, StopClose, StopDisable, Idle
        <4>2. running => 0 < session
          BY <1>0 DEF ClosesOld
        <4> QED
          BY <1>0, <4>1, <4>2
      <3>2. CASE d # c
        BY <3>2 DEF StopsOK, ClosesOld, StopClose, StopDisable
      <3> QED
        BY <3>1, <3>2
    <2> QED
      BY <1>1, <2>1 DEF ClosesOld
  <1>4. SwitchTracked'
    <2>1. CASE StopClose(c)
      <3>1. c \in Stopping'
        BY <2>1 DEF StopsOK, Stopping, StopClose
      <3> QED
        BY <3>1 DEF SwitchTracked
    <2>2. CASE StopDisable(c)
      BY <2>2 DEF SwitchTracked, StopDisable, SwitchOff
    <2> QED
      BY <2>1, <2>2
  <1>5. ReaderOpen'
    <2>1. CASE StopClose(c)
      <3>1. running => pc[c].closes # session
        BY <1>0 DEF ClosesOld
      <3> QED
        BY <2>1, <3>1 DEF StopClose, Closing, ReaderOpen
    <2>2. CASE StopDisable(c)
      BY <2>2 DEF StopDisable, ReaderOpen
    <2> QED
      BY <2>1, <2>2
  <1>6. AloneInSession'
    BY <1>0, <1>1 DEF AloneInSession
  <1> QED
    BY <1>2, <1>3, <1>4, <1>5, <1>6

\* What packets and firing timers do disturbs the type only.
LEMMA OtherInv ==
  ASSUME IInv, NEW s \in Session,
         \/ TimerFires(s) \/ Read(s) \/ Append(s) \/ CheckSwitch \/ Submit
         \/ UNCHANGED vars
  PROVE  IInv'
  <1> USE Bounds DEF IInv, TypeOK
  <1>1. UNCHANGED <<running, session, reader, stopTimer, readers, enabled, pc,
                    overlapped>>
    BY DEF TimerFires, Read, Append, CheckSwitch, Submit, vars, kernel, drains
  <1>2. checked' \in BOOLEAN
    BY Zenon DEF FlagsOK, TimerFires, Read, Append, CheckSwitch, Submit, vars, kernel
  <1>3. FlagsOK' /\ SessionOK' /\ StopsOK'
    <2>1. FlagsOK'
      BY <1>1, <1>2, Zenon DEF FlagsOK
    <2> QED
      BY <1>1, <2>1 DEF SessionOK, StopsOK
  <1>4. DrainsOK' /\ PacketsOK'
    <2> USE DEF DrainsOK, PacketsOK
    <2>1. CASE TimerFires(s)
      BY <2>1 DEF TimerFires, drains, kernel
    <2>2. CASE Read(s)
      <3>1. PICK p \in ring : hand' = [hand EXCEPT ![s] = p]
        BY <2>2 DEF Read
      <3>2. DrainsOK'
        BY <2>2, <3>1 DEF Read, Packet
      <3>3. ring' \subseteq ring /\ UNCHANGED <<copied, checked, buf>>
        BY <2>2 DEF Read
      <3> QED
        BY <3>2, <3>3
    <2>3. CASE Append(s)
      <3>1. hand[s] \in Packet
        BY <2>3 DEF Append, Packet
      <3> QED
        BY <2>3, <3>1 DEF Append, Recorded, kernel
    <2>4. CASE CheckSwitch
      BY <2>4 DEF CheckSwitch, drains
    <2>5. CASE Submit
      <3>1. copied + 1 \in Packet
        BY <2>5 DEF Submit, Packet
      <3> QED
        BY <2>5, <3>1 DEF Submit, drains, Packet
    <2>6. CASE UNCHANGED vars
      BY <2>6 DEF vars
    <2> QED
      BY <2>1, <2>2, <2>3, <2>4, <2>5, <2>6
  <1>5. SwitchTracked' /\ ReaderOpen' /\ ClosesOld' /\ AloneInSession'
    BY <1>1 DEF SwitchTracked, ReaderOpen, ClosesOld, AloneInSession, Stopping
  <1> QED
    BY <1>3, <1>4, <1>5

LEMMA NextInv == IInv /\ [Next]_vars => IInv'
  <1> SUFFICES ASSUME IInv, [Next]_vars PROVE IInv'
    OBVIOUS
  <1>0. Session # {} /\ Session \subseteq Stopper /\ Caller \subseteq Stopper
    BY Bounds DEF Session, Stopper
  <1>1. CASE \E timed \in BOOLEAN : Start(timed)
    BY <1>1, StartInv
  <1>2. CASE \E c \in Caller : CallStop(c)
    <2>1. PICK c \in Caller : CallStop(c)
      BY <1>2
    <2>2. EndSession(c, Disarmed)
      BY <2>1 DEF CallStop
    <2>3. TypeOK
      BY DEF IInv
    <2> QED
      BY <1>0, <2>2, <2>3, DisarmedType, EndSessionInv
  <1>3. CASE \E s \in Session : TimerStop(s)
    <2>1. PICK s \in Session : TimerStop(s)
      BY <1>3
    <2>2. TypeOK
      BY DEF IInv
    <2>3. CASE EndSession(s, [Disarmed EXCEPT ![s] = "none"])
      <3>1. [Disarmed EXCEPT ![s] = "none"] \in [Session -> {"none", "armed", "fired"}]
        BY <2>2, DisarmedType
      <3> QED
        BY <1>0, <2>3, <3>1, EndSessionInv
    <2>4. CASE ~EndSession(s, [Disarmed EXCEPT ![s] = "none"])
      <3>1. /\ UNCHANGED <<running, session, reader, stopTimer, readers, hand, buf, enabled,
                           checked, ring, copied, pc, overlapped>>
            /\ timer' = [timer EXCEPT ![s] = "none"]
        BY <2>1, <2>4 DEF TimerStop, drains, kernel
      <3>2. TypeOK'
        <4>1. FlagsOK' /\ SessionOK' /\ PacketsOK' /\ StopsOK'
          BY <2>2, <3>1 DEF TypeOK, FlagsOK, SessionOK, PacketsOK, StopsOK
        <4>2. DrainsOK'
          BY <2>2, <3>1 DEF TypeOK, DrainsOK
        <4> QED
          BY <4>1, <4>2 DEF TypeOK
      <3>3. SwitchTracked' /\ ReaderOpen' /\ ClosesOld' /\ AloneInSession'
        BY <3>1 DEF IInv, SwitchTracked, ReaderOpen, ClosesOld, AloneInSession, Stopping
      <3> QED
        BY <3>2, <3>3 DEF IInv
    <2> QED
      BY <2>3, <2>4
  <1>4. CASE \E c \in Stopper : StopClose(c) \/ StopDisable(c)
    BY <1>4, StopHalfInv
  <1>5. CASE \/ \E s \in Session : TimerFires(s) \/ Read(s) \/ Append(s)
             \/ CheckSwitch \/ Submit \/ UNCHANGED vars
    BY <1>0, <1>5, OtherInv
  <1> QED
    BY <1>1, <1>2, <1>3, <1>4, <1>5 DEF Next

LEMMA Invariance == Spec => []IInv
  BY InitInv, NextInv, PTL DEF Spec

\* Recorder's state stays within its types: a timer is remembered only while
\* a session runs.
THEOREM TypeCorrect == Spec => []TypeOK
  <1>1. IInv => TypeOK
    BY DEF IInv
  <1> QED
    BY <1>1, Invariance, PTL

\* The kernel never copies packets for nobody, whichever way starts, stops and
\* timers of any number of sessions interleave.
THEOREM SwitchIsTracked == Spec => []SwitchTracked
  <1>1. IInv => SwitchTracked
    BY DEF IInv
  <1> QED
    BY <1>1, Invariance, PTL

\* No late Stop closes the reader of the session that runs.
THEOREM ReaderStaysOpen == Spec => []ReaderOpen
  <1>1. IInv => ReaderOpen
    BY DEF IInv
  <1> QED
    BY <1>1, Invariance, PTL

\* Only a Stop still under way when a session starts can turn its switch off.
THEOREM SwitchStaysOn == Spec => []SwitchOnForSession
  <1>1. IInv => SwitchOnForSession
    BY DEF IInv, AloneInSession, SwitchOnForSession
  <1> QED
    BY <1>1, Invariance, PTL

\* With no session running only the next Start changes what was recorded: a
\* Stop under way, a firing timer and a straggler in a drain goroutine do not.
THEOREM DataIsKept == Spec => DataKept
  <1>1. [Next]_vars => [~running /\ ~running' => buf' = buf]_vars
    <2> SUFFICES ASSUME Next, ~running, ~running' PROVE buf' = buf
      BY DEF vars
    <2>1. ASSUME NEW timed \in BOOLEAN, Start(timed) PROVE FALSE
      BY <2>1 DEF Start
    <2>2. ASSUME NEW s \in Session, Append(s) PROVE buf' = buf
      BY <2>2 DEF Append, Recorded
    <2>3. ASSUME NEW s \in Session, TimerFires(s) \/ TimerStop(s) \/ Read(s)
          PROVE  buf' = buf
      BY <2>3 DEF TimerFires, TimerStop, EndSession, Read, drains
    <2>4. ASSUME NEW c \in Stopper, StopClose(c) \/ StopDisable(c) PROVE buf' = buf
      BY <2>4 DEF StopClose, StopDisable, drains
    <2>5. ASSUME NEW c \in Caller, CallStop(c) PROVE buf' = buf
      BY <2>5 DEF CallStop, EndSession, drains
    <2>6. CASE CheckSwitch \/ Submit
      BY <2>6 DEF CheckSwitch, Submit, drains
    <2> QED
      BY <2>1, <2>2, <2>3, <2>4, <2>5, <2>6 DEF Next
  <1> QED
    BY <1>1, PTL DEF Spec, DataKept
=============================================================================
