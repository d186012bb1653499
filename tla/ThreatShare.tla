----------------------------- MODULE ThreatShare -----------------------------
(***************************************************************************)
(* Cross-daemon threat sharing (internal/threatshare): every block a       *)
(* daemon makes itself is relayed to its peers, which enforce it under     *)
(* ReasonShared until its TTL runs out.                                    *)
(*                                                                         *)
(* The firewall's rule table is reduced to who blocked an address: one     *)
(* reason per address, as in Firewall.rules.  Reports are HTTP POSTs sent  *)
(* from goroutines: they arrive in any order, or never.  Registry.Apply    *)
(* blocks first and takes reg.mu afterwards; the sweep deletes entries     *)
(* under reg.mu and unblocks after releasing it.                           *)
(***************************************************************************)
EXTENDS Naturals

CONSTANTS
  Node,         \* daemons
  Addr,         \* addresses they block
  Peers,        \* -threat-share-peers of each daemon
  Ttl,          \* TTLSeconds each daemon puts in its reports; 0 when unset
  DefaultTTL,
  MaxTime,      \* bound: the clock stops here
  MaxReports,   \* bound: local blocks made in the whole fleet
  MayUnblock    \* whether operators lift blocks

ASSUME ConstantsOK ==
  /\ Peers \in [Node -> SUBSET Node]
  /\ Ttl \in [Node -> Nat] /\ DefaultTTL \in Nat \ {0}
  /\ MaxTime \in Nat \ {0, 1} /\ MaxReports \in Nat
  /\ MayUnblock \in BOOLEAN

VARIABLES
  now,        \* the wall clock
  phase,      \* "boot" until AddBlockObserver(sharer.Report), then "serving"
  block,      \* the reason each daemon blocks each address for
  disk,       \* the same in its rules.json
  entries,    \* Registry.entries: when a shared block expires, 0 if unknown
  applying,   \* reports between the two halves of Registry.Apply
  expired,    \* addresses the running sweep has still to unblock
  net,        \* reports in flight
  made,       \* number of local blocks so far
  origin,     \* history: <<daemon, address>> of blocks made locally
  accepted,   \* history: how many reports each daemon took per address
  orphaned,   \* history: <<daemon, address>> of shared blocks from the file and
              \* of those whose unblock failed when they expired
  lifted      \* history: the same of blocks lifted by an operator, both until
              \* the next report

vars == <<now, phase, block, disk, entries, applying, expired, net, made,
          origin, accepted, orphaned, lifted>>

Report == [from : Node, to : Node, ip : Addr, id : 1 .. MaxReports]
Reason == {"none", "local", "shared"}

TypeOK ==
  /\ now \in 0 .. MaxTime
  /\ phase \in [Node -> {"boot", "serving"}]
  /\ block \in [Node -> [Addr -> Reason]]
  /\ disk \in [Node -> [Addr -> Reason]]
  /\ entries \in [Node -> [Addr -> Nat]]
  /\ applying \subseteq Report /\ net \subseteq Report
  /\ expired \in [Node -> SUBSET Addr]
  /\ made \in 0 .. MaxReports
  /\ origin \subseteq Node \X Addr
  /\ accepted \in [Node -> [Addr -> Nat]]
  /\ orphaned \subseteq Node \X Addr /\ lifted \subseteq Node \X Addr
  \* a daemon that boots has no handler and no sweep under way
  /\ \A n \in Node : phase[n] = "boot" => expired[n] = {}
  /\ \A r \in applying : phase[r.to] = "serving"

Nothing(v) == [n \in Node |-> [a \in Addr |-> v]]

Init ==
  /\ now = 0
  /\ phase = [n \in Node |-> "boot"]
  /\ block = Nothing("none") /\ disk = Nothing("none")
  /\ entries = Nothing(0) /\ accepted = Nothing(0)
  /\ applying = {} /\ net = {}
  /\ expired = [n \in Node |-> {}]
  /\ made = 0
  /\ origin = {} /\ orphaned = {} /\ lifted = {}

-----------------------------------------------------------------------------
(* The firewall under both halves.                                         *)

\* Mutant: the observers hear of every block, relayed ones too.
Observed_Always(n, r) == phase[n] = "serving"

\* BlockWithReason calls the block observers unless the block was itself
\* relayed, and the Sharer is one of them only once it is registered.
Observed(n, r) == r # "shared" /\ phase[n] = "serving"

\* Sharer.Report: one POST per peer, each from a goroutine of its own.
Relay(n, a) == {[from |-> n, to |-> p, ip |-> a, id |-> made + 1] : p \in Peers[n]}

\* BlockWithReason(a, r) and its observers; the reports in flight but those of
\* the block are others.
BlockWithReason(n, a, r, others) ==
  /\ block' = [block EXCEPT ![n][a] = r]
  /\ IF Observed(n, r) /\ made < MaxReports
     THEN net' = others \cup Relay(n, a) /\ made' = made + 1
     ELSE net' = others /\ UNCHANGED made

\* The operator, the detector or a feed blocks an address on n.
LocalBlock(n, a) ==
  /\ made < MaxReports
  /\ BlockWithReason(n, a, "local", net)
  /\ origin' = origin \cup {<<n, a>>}
  /\ UNCHANGED <<now, phase, disk, entries, applying, expired, accepted,
                 orphaned, lifted>>

\* DELETE /api/rules/{ip}; the registry is not told.
OperatorUnblock(n, a) ==
  /\ MayUnblock /\ phase[n] = "serving"
  /\ block' = [block EXCEPT ![n][a] = "none"]
  /\ lifted' = lifted \cup {<<n, a>>}
  /\ UNCHANGED <<now, phase, disk, entries, applying, expired, net, made, origin,
                 accepted, orphaned>>

\* Any create or delete through the API saves the whole table, shared blocks
\* and their reason included.
Persist(n) ==
  /\ phase[n] = "serving"
  /\ disk' = [disk EXCEPT ![n] = block[n]]
  /\ UNCHANGED <<now, phase, block, entries, applying, expired, net, made, origin,
                 accepted, orphaned, lifted>>

\* main() has restored the rules, applied the policy and filled the feeds.
Serve(n) ==
  /\ phase[n] = "boot"
  /\ phase' = [phase EXCEPT ![n] = "serving"]
  /\ UNCHANGED <<now, block, disk, entries, applying, expired, net, made, origin,
                 accepted, orphaned, lifted>>

\* Mutant: the kernel maps are pinned and outlive the registry.
Restart_Pinned(n) ==
  /\ phase' = [phase EXCEPT ![n] = "boot"]
  /\ entries' = [entries EXCEPT ![n] = [a \in Addr |-> 0]]
  /\ applying' = {r \in applying : r.to # n}
  /\ expired' = [expired EXCEPT ![n] = {}]
  /\ UNCHANGED <<now, block, disk, net, made, origin, accepted, orphaned, lifted>>

\* A crash takes the registry along; the restore loop brings back the file.
Restart(n) ==
  /\ phase' = [phase EXCEPT ![n] = "boot"]
  /\ block' = [block EXCEPT ![n] = disk[n]]
  /\ entries' = [entries EXCEPT ![n] = [a \in Addr |-> 0]]
  /\ applying' = {r \in applying : r.to # n}
  /\ expired' = [expired EXCEPT ![n] = {}]
  /\ orphaned' = orphaned \cup {<<n, a>> : a \in {b \in Addr : disk[n][b] = "shared"}}
  /\ UNCHANGED <<now, disk, net, made, origin, accepted, lifted>>

-----------------------------------------------------------------------------
(* Registry: the inbound half.                                             *)

\* TTLSeconds 0 means the receiver's default.
Lifetime(r) == IF Ttl[r.from] = 0 THEN DefaultTTL ELSE Ttl[r.from]

\* When the block of a report ends, cut off so that the clock gets there.
Expiry(r) == IF now + Lifetime(r) < MaxTime THEN now + Lifetime(r) ELSE MaxTime - 1

\* Mutant: the API is up before the daemon has restored its rules.
Accepts_Early(n) == Peers[n] # {}

\* handleThreatReport: 503 unless this daemon has peers of its own; nobody
\* answers before the server listens.
Accepts(n) == phase[n] = "serving" /\ Peers[n] # {}

\* Registry.Apply: the block comes first ...
ApplyBlock(r) ==
  /\ r \in net /\ Accepts(r.to)
  /\ BlockWithReason(r.to, r.ip, "shared", net \ {r})
  /\ applying' = applying \cup {r}
  /\ accepted' = [accepted EXCEPT ![r.to][r.ip] = @ + 1]
  /\ orphaned' = orphaned \ {<<r.to, r.ip>>}
  /\ lifted' = lifted \ {<<r.to, r.ip>>}
  /\ UNCHANGED <<now, phase, disk, entries, expired, origin>>

\* ... then, under reg.mu, the expiry.
ApplyEntry(r) ==
  /\ r \in applying
  /\ applying' = applying \ {r}
  /\ entries' = [entries EXCEPT ![r.to][r.ip] = Expiry(r)]
  /\ UNCHANGED <<now, phase, block, disk, expired, net, made, origin, accepted,
                 orphaned, lifted>>

\* A peer that is down, slow or refuses: the report is logged and forgotten.
Lose(r) ==
  /\ r \in net
  /\ net' = net \ {r}
  /\ UNCHANGED <<now, phase, block, disk, entries, applying, expired, made, origin,
                 accepted, orphaned, lifted>>

\* Mutant: the comparison the wrong way round.
Due_Before(n) == {a \in Addr : entries[n][a] # 0 /\ now < entries[n][a]}

Due(n) == {a \in Addr : entries[n][a] # 0 /\ now > entries[n][a]}

\* Mutant: the entries stay listed while their blocks are lifted.
Without_Kept(n, gone) == entries[n]

\* delete(reg.entries, ip) for every expired address.
Without(n, gone) == [a \in Addr |-> IF a \in gone THEN 0 ELSE entries[n][a]]

\* sweep(): collect and delete under reg.mu ...
SweepCollect(n) ==
  /\ phase[n] = "serving" /\ expired[n] = {} /\ Due(n) # {}
  /\ expired' = [expired EXCEPT ![n] = Due(n)]
  /\ entries' = [entries EXCEPT ![n] = Without(n, Due(n))]
  /\ UNCHANGED <<now, phase, block, disk, applying, net, made, origin, accepted,
                 orphaned, lifted>>

\* ... and lift the blocks one by one after releasing it.  An Unblock that
\* fails (a command of the operating system, a system call) is logged: the
\* entry is gone by then, and nobody tries again.
SweepUnblock(n, a) ==
  /\ a \in expired[n]
  /\ \/ /\ block' = [block EXCEPT ![n][a] = "none"]
        /\ UNCHANGED orphaned
     \/ /\ orphaned' = orphaned \cup {<<n, a>>}
        /\ UNCHANGED block
  /\ expired' = [expired EXCEPT ![n] = @ \ {a}]
  /\ UNCHANGED <<now, phase, disk, entries, applying, net, made, origin, accepted,
                 lifted>>

Tick ==
  /\ now < MaxTime
  /\ now' = now + 1
  /\ UNCHANGED <<phase, block, disk, entries, applying, expired, net, made, origin,
                 accepted, orphaned, lifted>>

Next ==
  \/ Tick
  \/ \E n \in Node : Persist(n) \/ Serve(n) \/ Restart(n) \/ SweepCollect(n)
  \/ \E n \in Node, a \in Addr :
       LocalBlock(n, a) \/ OperatorUnblock(n, a) \/ SweepUnblock(n, a)
  \/ \E r \in net : ApplyBlock(r) \/ Lose(r)
  \/ \E r \in applying : ApplyEntry(r)

Spec == Init /\ [][Next]_vars

\* The clock runs, a request handler finishes, the sweep's ticker fires and
\* its loop ends.  Nothing forces a report to arrive.
Fairness ==
  /\ WF_vars(Tick)
  /\ WF_vars(\E r \in applying : ApplyEntry(r))
  /\ \A n \in Node :
       /\ WF_vars(Serve(n)) /\ WF_vars(SweepCollect(n))
       /\ WF_vars(\E a \in Addr : SweepUnblock(n, a))

FairSpec == Spec /\ Fairness

-----------------------------------------------------------------------------
(* Properties.                                                             *)

\* No relay of a relay: a shared block comes from a daemon that blocked the
\* address itself and names this one among its peers, however the fleet is
\* wired.  BlockWithReason skips the observers for ReasonShared.
SharedHasOrigin ==
  \A n \in Node, a \in Addr : block[n][a] = "shared" =>
    \E m \in Node : <<m, a>> \in origin /\ n \in Peers[m]

\* Whoever enforces a shared block knows when to lift it: it is in the
\* registry, about to enter it, or about to be lifted.  (Orphans are tracked by
\* nobody until the next report: the file keeps shared blocks and not their
\* expiries, and the sweep forgets an entry before it tries to lift the block.)
SharedTracked ==
  \A n \in Node, a \in Addr : block[n][a] = "shared" =>
    \/ entries[n][a] # 0 \/ a \in expired[n] \/ <<n, a>> \in orphaned
    \/ \E r \in applying : r.to = n /\ r.ip = a

\* Every shared block is lifted in the end, so that one bad report does not
\* poison the fleet for ever; those brought back by the file, and those whose
\* unblock failed when they expired, excepted.
SharedExpires ==
  \A n \in Node, a \in Addr :
    block[n][a] = "shared" ~> block[n][a] # "shared" \/ <<n, a>> \in orphaned

\* What List shows is enforced unless an operator lifted it, for an address
\* one report has named.
FirstReportEnforced ==
  \A n \in Node, a \in Addr :
    entries[n][a] # 0 /\ accepted[n][a] = 1 /\ <<n, a>> \notin lifted =>
      block[n][a] # "none"
=============================================================================
