----------------------------- MODULE Controller -----------------------------
(***************************************************************************)
(* sxctl against a fleet: "controller push" and "controller status" fan    *)
(* out over the nodes of nodes.yaml, "policy apply" sends one daemon the   *)
(* whole policy.  Each sends its requests in order, waits for every answer *)
(* and tries again; a request whose client has given up may still be       *)
(* served, whenever.                                                       *)
(*                                                                         *)
(* Of a daemon only what these requests set is kept (RuleTable has its     *)
(* handlers in full); a request that never arrives is one never served.    *)
(***************************************************************************)
EXTENDS PolicyFile

CONSTANTS
  Host,       \* daemons
  NodeLists,  \* what loadNodes may return: sequences of [host, token]
  TokenOf,    \* Host -> the daemon's token, "" if it runs -insecure
  Address,    \* scalars that spell an IP address
  Attempts,   \* 3 in the code
  Parallel,   \* values of --parallel
  MaxEntries, \* bound on the block entries of a policy that is sent
  MaxLate     \* bound on the requests under way that nobody waits for

ASSUME FleetOK ==
  /\ Attempts \in Nat \ {0} /\ Parallel \subseteq Int
  /\ \A l \in NodeLists : \A i \in DOMAIN l : l[i].host \in Host
  /\ TokenOf \in [Host -> STRING]

VARIABLES
  cmd,      \* "none", or the command that runs
  nodes,    \* the nodes it talks to
  policy,   \* history: what the policy it was run with says
  jobs,     \* the requests it sends to each
  sem,      \* free places of fanOut's semaphore
  worker,   \* the goroutine of each node
  wire,     \* requests sent and not yet answered
  rules,    \* Host -> Address -> blocked, pps and kbps
  conf,     \* Host -> the SYN-cookie and knock settings
  removed,  \* history: Host -> addresses an operator deleted meanwhile
  late      \* history: Host -> what a request set that nobody waited for

fleetVars == <<cmd, policy, nodes, jobs, sem, worker, wire, rules, conf, removed, late>>
controlVars == <<policyVars, fleetVars>>

Worker == DOMAIN worker
Idle == [at |-> "queued", job |-> 1, attempt |-> 1, errs |-> 0, applied |-> 0]
Settings == {"syn_cookie", "knock"}
Said == Settings \cup {"block"}

ControlInit ==
  /\ PolicyInit
  /\ cmd = "none" /\ nodes = <<>> /\ jobs = <<>> /\ sem = 0
  /\ worker = <<>> /\ wire = {}
  /\ rules = [h \in Host |-> [a \in Address |-> [blocked |-> FALSE, pps |-> 0, kbps |-> 0]]]
  /\ conf = [h \in Host |-> [s \in Settings |-> Zero[s]]]
  /\ removed = [h \in Host |-> {}] /\ late = [h \in Host |-> {}]
  /\ policy = [s \in Said |-> Policy0[s]]

Load == PolicyNext /\ UNCHANGED fleetVars

-----------------------------------------------------------------------------
(* The commands.                                                           *)

RuleJob(r, kbps) ==
  [do |-> "rule", ip |-> r.ip, pps |-> r.rate_limit_pps, kbps |-> kbps]

\* pushToNode sends the block list and nothing else of the policy.
PushJobs(p) == [i \in DOMAIN p.block |-> RuleJob(p.block[i], p.block[i].rate_limit_kbps)]

\* policy apply leaves rate_limit_kbps out, and sets both features even where
\* the policy has no such section.
ApplyJobs(p) ==
  [i \in DOMAIN p.block |-> RuleJob(p.block[i], 0)]
  \o <<[do |-> "syn_cookie", cfg |-> p.syn_cookie], [do |-> "knock", cfg |-> p.knock]>>

Width(parallel) == IF parallel <= 0 THEN 8 ELSE parallel

Begin(c, list, work, parallel) ==
  /\ cmd' = c /\ nodes' = list /\ jobs' = work /\ sem' = Width(parallel)
  /\ policy' = [s \in Said |-> pol[s]]
  /\ worker' = [i \in DOMAIN list |-> Idle]
  /\ file' = <<>> /\ sect' = "none" /\ open' = <<>>
  /\ pol' = Policy0 /\ verdict' = "used"
  /\ UNCHANGED <<wire, rules, conf, removed, late>>

Push ==
  /\ verdict = "loaded" /\ Len(pol.block) <= MaxEntries
  /\ \E l \in NodeLists, p \in Parallel : Begin("push", l, PushJobs(pol), p)

Apply ==
  /\ verdict = "loaded" /\ Len(pol.block) <= MaxEntries
  /\ \E h \in Host : Begin("apply", <<[host |-> h, token |-> TokenOf[h]]>>, ApplyJobs(pol), 1)

Status ==
  /\ verdict = "reading" /\ file = <<>>
  /\ \E l \in NodeLists, p \in Parallel : Begin("status", l, <<[do |-> "health"]>>, p)

-----------------------------------------------------------------------------
(* fanOut and the goroutine of one node.                                   *)

At(w, stage) == worker[w].at = stage
Goto(w, stage) == worker' = [worker EXCEPT ![w].at = stage]

\* The loop takes a place for each node in turn.
Launch(w) ==
  /\ At(w, "queued") /\ \A v \in 1 .. w - 1 : ~At(v, "queued")
  /\ sem > 0 /\ sem' = sem - 1
  /\ Goto(w, "send")
  /\ UNCHANGED <<policyVars, cmd, policy, nodes, jobs, wire, rules, conf, removed, late>>

Send(w) ==
  /\ At(w, "send") /\ worker[w].job <= Len(jobs)
  /\ wire' = wire \cup
       {[w |-> w, j |-> worker[w].job, a |-> worker[w].attempt, at |-> "sent"]}
  /\ Goto(w, "wait")
  /\ UNCHANGED <<policyVars, cmd, policy, nodes, jobs, sem, rules, conf, removed, late>>

Waiting(r) ==
  At(r.w, "wait") /\ worker[r.w].job = r.j /\ worker[r.w].attempt = r.a

NextJob(w, failed) ==
  worker' = [worker EXCEPT ![w] =
    [at |-> "send", job |-> @.job + 1, attempt |-> 1,
     errs |-> @.errs + (IF failed THEN 1 ELSE 0),
     applied |-> @.applied + (IF failed THEN 0 ELSE 1)]]

\* Mutant: after the last attempt the error is forgotten.
Failed_Swallowed(w, again) ==
  IF again /\ worker[w].attempt < Attempts
  THEN worker' = [worker EXCEPT ![w].attempt = @ + 1, ![w].at = "send"]
  ELSE NextJob(w, ~again)

\* retryBackoff: an error is tried again or, in the end, noted.
Failed(w, again) ==
  IF again /\ worker[w].attempt < Attempts
  THEN worker' = [worker EXCEPT ![w].attempt = @ + 1, ![w].at = "send"]
  ELSE NextJob(w, TRUE)

\* nodeRequest does not tell a refusal from a lost connection; apiRequest does
\* and lets a refusal stand, and an answer that breaks off while it is read.
Answer(r) ==
  /\ r.at \in {"ok", "refused"} /\ Waiting(r)
  /\ wire' = wire \ {r}
  /\ \/ r.at = "ok" /\ NextJob(r.w, FALSE)
     \/ (r.at = "refused" \/ cmd = "apply") /\ Failed(r.w, cmd # "apply")
  /\ UNCHANGED <<policyVars, cmd, policy, nodes, jobs, sem, rules, conf, removed, late>>

\* The client's timeout, or a lost connection: the request is lost, its answer
\* has no reader any more, or it will still be served.
Timeout(w) ==
  /\ At(w, "wait")
  /\ Failed(w, TRUE)
  /\ LET mine == {r \in wire : r.w = w /\ Waiting(r)}
         abandoned == {r \in wire : ~Waiting(r)}
     IN \/ wire' = wire \ mine
        \/ /\ \A r \in mine : r.at \notin {"ok", "refused"}
           /\ Cardinality(abandoned) < MaxLate
           /\ UNCHANGED wire
  /\ UNCHANGED <<policyVars, cmd, policy, nodes, jobs, sem, rules, conf, removed, late>>

\* Mutant: a goroutine that had an error ends without giving its place back.
Leave_Leak(w) ==
  /\ At(w, "send") /\ worker[w].job > Len(jobs)
  /\ Goto(w, "done") /\ sem' = IF worker[w].errs > 0 THEN sem ELSE sem + 1
  /\ UNCHANGED <<policyVars, cmd, policy, nodes, jobs, wire, rules, conf, removed, late>>

Leave(w) ==
  /\ At(w, "send") /\ worker[w].job > Len(jobs)
  /\ Goto(w, "done") /\ sem' = sem + 1
  /\ UNCHANGED <<policyVars, cmd, policy, nodes, jobs, wire, rules, conf, removed, late>>

\* wg.Wait, after which the report is printed.
Reported == cmd # "none" /\ \A w \in Worker : At(w, "done")

-----------------------------------------------------------------------------
(* The daemons.                                                            *)

\* withAuth: a daemon without a token takes every request.
Authorized(w) == TokenOf[nodes[w].host] \in {"", nodes[w].token}

\* handleCreateRule calls RateLimit and BandwidthLimit for limits above 0 only.
After(job, stage) ==
  IF stage = "sent" /\ job.pps > 0 THEN "pps"
  ELSE IF stage \in {"sent", "pps"} /\ job.kbps > 0 THEN "kbps" ELSE "ok"

\* The request is at its next stage; one that is through and has no client any
\* more is gone.
Moves(r, stage) ==
  wire' = (wire \ {r}) \cup
    (IF stage \in {"ok", "refused"} /\ ~Waiting(r) THEN {} ELSE {[r EXCEPT !.at = stage]})

Marked(r, h, x) == late' = IF Waiting(r) THEN late ELSE [late EXCEPT ![h] = @ \cup {x}]

\* A stage of handleCreateRule that took effect, or failed (no address, or a
\* kernel map that is full): then what was done before it stays.
ServeRule(r, h, job) ==
  \/ /\ r.at = "sent" /\ job.ip \in Address
     /\ rules' = [rules EXCEPT ![h][job.ip].blocked = TRUE]
     /\ Moves(r, After(job, "sent")) /\ Marked(r, h, job.ip)
  \/ /\ r.at \in {"pps", "kbps"}
     /\ rules' = [rules EXCEPT ![h][job.ip][r.at] = job[r.at]]
     /\ Moves(r, After(job, r.at)) /\ Marked(r, h, job.ip)
  \/ Moves(r, "refused") /\ UNCHANGED <<rules, late>>

ServeSetting(r, h, job) ==
  /\ \/ conf' = [conf EXCEPT ![h][job.do] = job.cfg] /\ Moves(r, "ok")
     \/ Moves(r, "refused") /\ UNCHANGED conf
  /\ UNCHANGED late

Serve(r) ==
  LET h == nodes[r.w].host
      job == jobs[r.j]
  IN /\ r.at \in {"sent", "pps", "kbps"}
     /\ \/ ~Authorized(r.w) /\ Moves(r, "refused") /\ UNCHANGED <<rules, conf, late>>
        \/ Authorized(r.w) /\ job.do = "rule" /\ ServeRule(r, h, job) /\ UNCHANGED conf
        \/ Authorized(r.w) /\ job.do \in Settings /\ ServeSetting(r, h, job) /\ UNCHANGED rules
        \/ /\ Authorized(r.w) /\ job.do = "health" /\ Moves(r, "ok")
           /\ UNCHANGED <<rules, conf, late>>
     /\ UNCHANGED <<policyVars, cmd, policy, nodes, jobs, sem, worker, removed>>

\* An operator's DELETE meanwhile: it lifts the block and leaves the limits.
Remove(h, a) ==
  /\ cmd # "none" /\ rules[h][a].blocked /\ a \notin removed[h]
  /\ rules' = [rules EXCEPT ![h][a].blocked = FALSE]
  /\ removed' = [removed EXCEPT ![h] = @ \cup {a}]
  /\ UNCHANGED <<policyVars, cmd, policy, nodes, jobs, sem, worker, wire, conf, late>>

Client ==
  \/ \E w \in Worker : Launch(w) \/ Send(w) \/ Timeout(w) \/ Leave(w)
  \/ \E r \in wire : Answer(r)

ControlNext ==
  \/ Load \/ Push \/ Apply \/ Status
  \/ Client
  \/ \E r \in wire : Serve(r)
  \/ \E h \in Host, a \in Address : Remove(h, a)

\* The clients run, and their timers do: nothing is asked of the daemons.
ControlSpec == ControlInit /\ [][ControlNext]_controlVars /\ WF_controlVars(Client)

-----------------------------------------------------------------------------
(* Properties.                                                             *)

\* The hosts whose nodes the report marks with a tick.
Ticked(h) ==
  /\ \E w \in Worker : nodes[w].host = h
  /\ \A w \in Worker : nodes[w].host = h => worker[w].errs = 0

LimitOf(entry, k) ==
  IF k = "pps" THEN entry.rate_limit_pps ELSE entry.rate_limit_kbps

\* The entries of the policy that name limit k for address a.
Naming(a, k) ==
  {i \in DOMAIN policy.block : policy.block[i].ip = a /\ LimitOf(policy.block[i], k) > 0}

\* The limits a command carries over: "policy apply" drops every
\* rate_limit_kbps, although Apply at boot sets it.
Carries == IF cmd = "push" THEN {"pps", "kbps"} ELSE {"pps"}

\* A node the report marks with a tick is in the state the policy asks for,
\* through all retries: every address is blocked, unless an operator deleted it
\* meanwhile, every limit the command carries is the last one the policy names,
\* and after "policy apply" both features are set as the policy says; what
\* "controller push" leaves out, a tick says nothing of.  Where a request came
\* through after its client had given up, the limit is at least one of those
\* the policy names.
ReportHonest ==
  Reported /\ cmd \in {"push", "apply"} => \A h \in Host : Ticked(h) =>
    /\ \A i \in DOMAIN policy.block :
         LET a == policy.block[i].ip IN
         /\ rules[h][a].blocked \/ a \in removed[h]
         /\ \A k \in Carries : Naming(a, k) # {} =>
              rules[h][a][k] \in {LimitOf(policy.block[j], k) : j \in
                IF a \in late[h] THEN Naming(a, k) ELSE {Max(Naming(a, k))}}
    /\ cmd = "apply" => \A s \in Settings : conf[h][s] = policy[s]

\* Every command comes to its report, whatever the daemons answer or leave
\* unanswered, as long as --timeout is positive (0 is none): no node waits for
\* a place that is never given back.
CommandEnds == cmd # "none" ~> Reported
=============================================================================
