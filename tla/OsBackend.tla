----------------------------- MODULE OsBackend -----------------------------
(***************************************************************************)
(* firewall.Firewall on Windows and macOS: a rule of the operating system  *)
(* set by an external command, then the mirror under f.mu, then the block  *)
(* observers, of which the map's recorder is one.  Nothing holds a lock    *)
(* from the command to the mirror, so calls on one target interleave.      *)
(*                                                                         *)
(* netsh adds a second rule of the same name beside the first, deletes all *)
(* of that name, and fails where there is none; a pf table is a set.       *)
(* Windows rules outlive the process, a pf table may.                      *)
(***************************************************************************)
EXTENDS Topology, FiniteSets

CONSTANTS
  Ip,          \* addresses
  Cidr,        \* ranges
  Scopes,      \* bound: the sets of targets a daemon may ever be asked about
  Caller,      \* goroutines that call the backend
  MaxCopies    \* bound on the rules of one name

ASSUME OsConstantsOK ==
  Ip \cap Cidr = {} /\ Scopes \subseteq SUBSET (Ip \cup Cidr) /\ MaxCopies \in Nat \ {0}

VARIABLES
  platform,  \* "windows" or "darwin"
  scope,     \* the targets the daemon is asked about
  up,        \* whether the daemon runs, or is closing: "up", "closing", "down"
  os,        \* target -> the operating system's block rules for it
  mirror,    \* keys of f.rules and f.geoRules
  call,      \* the call each goroutine is in
  toClose,   \* targets Close has still to unblock
  left,      \* history: targets whose rules an earlier life left behind
  mixed      \* history: targets two calls worked on at once

osVars == <<platform, scope, up, os, mirror, call, toClose, left, mixed>>
backendVars == <<osVars, mapVars>>

Target == Ip \cup Cidr
NoCall == [at |-> "idle", t |-> "none", do |-> "none", alone |-> TRUE]

BackendInit ==
  /\ MapInit
  /\ platform \in {"windows", "darwin"} /\ scope \in Scopes
  /\ up = "up" /\ os = [t \in Target |-> 0] /\ mirror = {}
  /\ call = [c \in Caller |-> NoCall]
  /\ toClose = {} /\ left = {} /\ mixed = {}

-----------------------------------------------------------------------------
(* The external commands.                                                  *)

\* netshAddBlock.
AddWindows(n) == n + 1

\* pfTableAdd.
AddDarwin(n) == 1

Copies(t) == IF platform = "windows" THEN AddWindows(os[t]) ELSE AddDarwin(os[t])

\* netshDeleteBlock fails where no rule has the name, pfTableDelete does not.
DeleteFails(t) == platform = "windows" /\ os[t] = 0

-----------------------------------------------------------------------------
(* Calls: Block, BlockWithReason, Unblock, BlockCIDR, UnblockCIDR.         *)

Set(c, stage) == call' = [call EXCEPT ![c].at = stage]
Return(c) == call' = [call EXCEPT ![c] = NoCall]
Busy(t) == \E c \in Caller : call[c].t = t

\* The calls on the targets of S have been crossed by another.
Crossed(S) == [d \in Caller |-> IF call[d].t \in S THEN [call[d] EXCEPT !.alone = FALSE] ELSE call[d]]

Begin(c, t, do) ==
  /\ up # "down" /\ call[c] = NoCall
  /\ LET crosses == Busy(t) \/ up = "closing" IN
     /\ mixed' = IF crosses THEN mixed \cup {t} ELSE mixed
     /\ call' = [Crossed({t}) EXCEPT ![c] =
          [at |-> "command", t |-> t, do |-> do, alone |-> ~crosses]]
  /\ UNCHANGED <<platform, scope, up, os, mirror, toClose, left, mapVars>>

\* Mutant: an Unblock whose command failed forgets the rule all the same.
Command_IgnoreError(c) ==
  LET t == call[c].t IN
  /\ call[c].at = "command"
  /\ \/ call[c].do = "block" /\ Return(c) /\ UNCHANGED os
     \/ /\ call[c].do = "block" /\ os[t] < MaxCopies
        /\ os' = [os EXCEPT ![t] = Copies(t)]
        /\ Set(c, "record")
     \/ /\ call[c].do = "unblock"
        /\ os' \in {os, [os EXCEPT ![t] = 0]}
        /\ Set(c, "record")
  /\ UNCHANGED <<platform, scope, up, mirror, toClose, left, mixed, mapVars>>

\* The command of a call; if it fails the call returns its error.
Command(c) ==
  LET t == call[c].t IN
  /\ call[c].at = "command"
  /\ \/ Return(c) /\ UNCHANGED os
     \/ /\ call[c].do = "block" /\ os[t] < MaxCopies
        /\ os' = [os EXCEPT ![t] = Copies(t)]
        /\ Set(c, "record")
     \/ /\ call[c].do = "unblock" /\ ~DeleteFails(t)
        /\ os' = [os EXCEPT ![t] = 0]
        /\ Set(c, "record")
  /\ UNCHANGED <<platform, scope, up, mirror, toClose, left, mixed, mapVars>>

\* The mirror, under f.mu; observers run for addresses, and not for reports of
\* other daemons.  A call that none has crossed puts rule and mirror in step.
Record(c) ==
  LET t == call[c].t IN
  /\ call[c].at = "record"
  /\ mirror' = IF call[c].do = "block" THEN mirror \cup {t} ELSE mirror \ {t}
  /\ left' = left \ {t}
  /\ mixed' = IF call[c].alone THEN mixed \ {t} ELSE mixed
  /\ \/ Return(c)
     \/ call[c].do = "block" /\ t \in Ip /\ Set(c, "observe")
  /\ UNCHANGED <<platform, scope, up, os, toClose, mapVars>>

\* The observers, outside f.mu.
Observers(c) ==
  /\ call[c].at = "observe"
  /\ Observe /\ Return(c)
  /\ UNCHANGED <<platform, scope, up, os, mirror, toClose, left, mixed>>

-----------------------------------------------------------------------------
(* The life of the daemon.                                                 *)

\* The calls still under way cross Close, as those that begin now will.
Closing ==
  /\ up' = "closing"
  /\ mixed' = mixed \cup {t \in Target : Busy(t)}
  /\ call' = Crossed(Target)

\* Windows: a copy of the mirror's keys, then Unblock for each; a failure is
\* noted and the next one tried.
CloseWindows ==
  /\ platform = "windows" /\ up = "up"
  /\ toClose' = mirror /\ Closing
  /\ UNCHANGED <<platform, scope, os, mirror, left, mapVars>>

CloseOne(t) ==
  /\ t \in toClose /\ toClose' = toClose \ {t}
  /\ \/ /\ ~DeleteFails(t)
        /\ os' = [os EXCEPT ![t] = 0] /\ mirror' = mirror \ {t}
        /\ UNCHANGED left
     \/ left' = left \cup {t} /\ UNCHANGED <<os, mirror>>
  /\ UNCHANGED <<platform, scope, up, call, mixed, mapVars>>

\* macOS: one command flushes the table; the mirror is not touched.
CloseDarwin ==
  /\ platform = "darwin" /\ up = "up"
  /\ Closing
  /\ \/ os' = [t \in Target |-> 0] /\ UNCHANGED left
     \/ left' = {t \in Target : os[t] > 0} /\ UNCHANGED os
  /\ UNCHANGED <<platform, scope, mirror, toClose, mapVars>>

\* The process ends, with what its calls have done so far.
Gone ==
  /\ mirror' = {} /\ call' = [c \in Caller |-> NoCall] /\ toClose' = {}
  /\ up' = "down" /\ mixed' = {}
  /\ RestartMap
  /\ UNCHANGED <<platform, scope, os>>

Exit ==
  /\ up = "closing" /\ toClose = {} /\ Gone
  /\ left' = left \cup {t \in mixed : os[t] > 0}

Crash ==
  /\ up # "down" /\ Gone
  /\ left' = {t \in Target : os[t] > 0}

\* Load: macOS loads its anchor anew, which may empty the table.
Load ==
  /\ up = "down" /\ up' = "up"
  /\ \/ UNCHANGED <<os, left>>
     \/ platform = "darwin" /\ os' = [t \in Target |-> 0] /\ left' = {}
  /\ UNCHANGED <<platform, scope, mirror, call, toClose, mixed, mapVars>>

BackendNext ==
  \/ \E c \in Caller :
       \/ \E t \in scope, do \in {"block", "unblock"} : Begin(c, t, do)
       \/ Command(c) \/ Record(c) \/ Observers(c)
  \/ CloseWindows \/ CloseDarwin \/ \E t \in Target : CloseOne(t)
  \/ Exit \/ Crash \/ Load
  \/ up # "down" /\ Browse /\ UNCHANGED osVars

BackendSpec == BackendInit /\ [][BackendNext]_backendVars

-----------------------------------------------------------------------------

\* Where no call is under way and none has crossed another, the list of blocks
\* is what the operating system enforces: nothing listed that is not enforced,
\* and nothing enforced that is not listed, but what an earlier life of the
\* daemon left behind.
QuietAgrees ==
  \A t \in Target \ mixed : ~Busy(t) /\ t \notin toClose =>
    /\ up = "up" /\ t \in mirror => os[t] > 0
    /\ os[t] > 0 => t \in mirror \cup left
=============================================================================
