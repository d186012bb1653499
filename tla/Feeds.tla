-------------------------------- MODULE Feeds --------------------------------
(***************************************************************************)
(* The loops that block addresses on somebody else's word: dnsresolve,     *)
(* geoip and threatintel.  Each fetches its sources, blocks what is new,   *)
(* unblocks what is gone and remembers what it fetched.  They share the    *)
(* firewall's rule table with the operator and with each other; the table  *)
(* keeps one reason per address.  (GeoIP's CIDR ranges are addresses no    *)
(* one else uses.)  r.mu is released around every firewall call, so the    *)
(* calls of one refresh interleave with everything else.                   *)
(***************************************************************************)
EXTENDS Naturals, FiniteSets

CONSTANTS
  Feed,         \* the loops: "dns", "geo", "intel"
  Source,       \* domains, countries, the Feodo list
  Addr,         \* addresses and CIDR ranges
  Sources,      \* the sources each feed may be configured with
  Answers,      \* what each source may answer: sets of addresses
  AllOrNothing, \* feeds that give up when their source fails (threatintel)
  Cidr,         \* feeds whose blocks are CIDR ranges: geoRules, never saved
  Manual        \* addresses operators block and unblock

ASSUME ConstantsOK ==
  /\ Sources \in [Feed -> SUBSET Source]
  /\ Answers \in [Source -> SUBSET SUBSET Addr]
  /\ AllOrNothing \subseteq Feed /\ Cidr \subseteq Feed /\ Manual \subseteq Addr
  /\ Feed \cap {"none", "manual"} = {}

VARIABLES
  rule,        \* the reason each address is blocked for
  disk,        \* the same in rules.json
  configured,  \* Resolver.domains, Feed.countries
  current,     \* the addresses each feed believes to have blocked
  fresh,       \* the addresses this refresh fetched
  todo,        \* addresses the loop of this step has still to go through
  pc,          \* where each refresh is
  missed,      \* history: addresses whose last BlockWithReason failed, by feed
  orphaned     \* history: addresses whose rule came back with the file, or is a
               \* feed's own that it failed to lift

vars == <<rule, disk, configured, current, fresh, todo, pc, missed, orphaned>>

Reason  == {"none", "manual"} \cup Feed
Nothing == [f \in Feed |-> {}]

TypeOK ==
  /\ rule \in [Addr -> Reason] /\ disk \in [Addr -> Reason]
  /\ configured \in [Feed -> SUBSET Source]
  /\ current \in [Feed -> SUBSET Addr] /\ fresh \in [Feed -> SUBSET Addr]
  /\ todo \in [Feed -> SUBSET Addr]
  /\ pc \in [Feed -> {"idle", "block", "unblock"}]
  /\ missed \in [Feed -> SUBSET Addr] /\ orphaned \subseteq Addr
  /\ \A f \in Feed : pc[f] = "unblock" => todo[f] \subseteq current[f]

Init ==
  /\ rule = [a \in Addr |-> "none"] /\ disk = rule
  /\ configured = Sources
  /\ current = Nothing /\ fresh = Nothing /\ todo = Nothing
  /\ pc = [f \in Feed |-> "idle"]
  /\ missed = Nothing /\ orphaned = {}

-----------------------------------------------------------------------------
(* One refresh.                                                            *)

\* Every set of addresses the sources in ok may answer together.
Fetched(ok) ==
  {UNION {ans[s] : s \in ok} : ans \in {x \in [ok -> UNION {Answers[s] : s \in ok}] :
                                         \A s \in ok : x[s] \in Answers[s]}}

Start(f, got) ==
  /\ pc[f] = "idle"
  /\ fresh' = [fresh EXCEPT ![f] = got]
  /\ todo' = [todo EXCEPT ![f] = got \ current[f]]
  /\ pc' = [pc EXCEPT ![f] = "block"]
  /\ UNCHANGED <<rule, disk, configured, current, missed, orphaned>>

\* dnsresolve and geoip go on without the sources that fail.
FetchSome(f) ==
  /\ f \notin AllOrNothing
  /\ \E ok \in SUBSET configured[f] : \E got \in Fetched(ok) : Start(f, got)

\* threatintel returns with an error when the list cannot be had.
FetchAll(f) ==
  /\ f \in AllOrNothing
  /\ \E got \in Fetched(configured[f]) : Start(f, got)

\* BlockWithReason, or BlockCIDR, for an address that is not in current; its
\* error is logged.
BlockNew(f, a) ==
  /\ pc[f] = "block" /\ a \in todo[f]
  /\ \/ /\ rule' = [rule EXCEPT ![a] = f]
        /\ missed' = [missed EXCEPT ![f] = @ \ {a}]
        /\ orphaned' = orphaned \ {a}
     \/ /\ missed' = [missed EXCEPT ![f] = @ \cup {a}]
        /\ UNCHANGED <<rule, orphaned>>
  /\ todo' = [todo EXCEPT ![f] = @ \ {a}]
  /\ UNCHANGED <<disk, configured, current, fresh, pc>>

\* Mutant: the check that the address is still listed is gone.
Gone_All(f) == current[f]

\* Mutant: nothing ever rolls off.
Gone_None(f) == {}

\* Mutant: the difference the wrong way round.
Gone_Swapped(f) == fresh[f] \ current[f]

\* The addresses of current that fresh does not have.
Gone(f) == current[f] \ fresh[f]

BlockDone(f) ==
  /\ pc[f] = "block" /\ todo[f] = {}
  /\ todo' = [todo EXCEPT ![f] = Gone(f)]
  /\ pc' = [pc EXCEPT ![f] = "unblock"]
  /\ UNCHANGED <<rule, disk, configured, current, fresh, missed, orphaned>>

\* Unblock, or UnblockCIDR, whoever blocked the address last.  Its error is
\* logged and the address forgotten with the rest: a block of the feed's own is
\* then remembered by nobody.
UnblockGone(f, a) ==
  /\ pc[f] = "unblock" /\ a \in todo[f]
  /\ \/ /\ rule' = [rule EXCEPT ![a] = "none"]
        /\ UNCHANGED orphaned
     \/ /\ orphaned' = IF rule[a] = f THEN orphaned \cup {a} ELSE orphaned
        /\ UNCHANGED rule
  /\ todo' = [todo EXCEPT ![f] = @ \ {a}]
  /\ UNCHANGED <<disk, configured, current, fresh, pc, missed>>

\* current = fresh, blocked or not.
Finish(f) ==
  /\ pc[f] = "unblock" /\ todo[f] = {}
  /\ current' = [current EXCEPT ![f] = fresh[f]]
  /\ pc' = [pc EXCEPT ![f] = "idle"]
  /\ UNCHANGED <<rule, disk, configured, fresh, todo, missed, orphaned>>

-----------------------------------------------------------------------------
(* Everybody else.                                                         *)

\* SetDomains and SetCountries replace the list the next refresh copies.
SetSources(f, S) ==
  /\ f \notin AllOrNothing
  /\ configured' = [configured EXCEPT ![f] = S]
  /\ UNCHANGED <<rule, disk, current, fresh, todo, pc, missed, orphaned>>

\* persist() saves what List returns: the rules, not the CIDR ranges.
Saved(r) == [a \in Addr |-> IF r[a] \in Cidr THEN "none" ELSE r[a]]

\* POST and DELETE of a rule, saved at once.
OperatorBlock(a) ==
  /\ a \in Manual
  /\ rule' = [rule EXCEPT ![a] = "manual"]
  /\ disk' = Saved(rule')
  /\ UNCHANGED <<configured, current, fresh, todo, pc, missed, orphaned>>

OperatorUnblock(a) ==
  /\ a \in Manual
  /\ rule' = [rule EXCEPT ![a] = "none"]
  /\ disk' = Saved(rule')
  /\ UNCHANGED <<configured, current, fresh, todo, pc, missed, orphaned>>

\* The restore loop brings the saved rules back; the feeds start from nothing.
Restart ==
  /\ rule' = disk
  /\ configured' = Sources
  /\ current' = Nothing /\ fresh' = Nothing /\ todo' = Nothing
  /\ pc' = [f \in Feed |-> "idle"]
  /\ missed' = Nothing /\ orphaned' = {a \in Addr : disk[a] # "none"}
  /\ UNCHANGED disk

Next ==
  \/ \E f \in Feed : FetchSome(f) \/ FetchAll(f) \/ BlockDone(f) \/ Finish(f)
  \/ \E f \in Feed, a \in Addr : BlockNew(f, a) \/ UnblockGone(f, a)
  \/ \E f \in Feed : \E S \in SUBSET Sources[f] : SetSources(f, S)
  \/ \E a \in Addr : OperatorBlock(a) \/ OperatorUnblock(a)
  \/ Restart

Spec == Init /\ [][Next]_vars

Refresh(f) ==
  \/ FetchSome(f) \/ FetchAll(f) \/ BlockDone(f) \/ Finish(f)
  \/ \E a \in Addr : BlockNew(f, a) \/ UnblockGone(f, a)

\* Every ticker fires again and again, and a refresh in progress goes on.
FairSpec == Spec /\ \A f \in Feed : WF_vars(Refresh(f))

-----------------------------------------------------------------------------
(* Properties.                                                             *)

\* What a feed blocked it can lift again: an address blocked for its reason is
\* in current, or was fetched by the refresh under way.  (Orphans are remembered
\* by no feed: all start from nothing when the file brings rules back, and a
\* feed forgets an address whose Unblock failed.)
BlocksRemembered ==
  \A f \in Feed, a \in Addr : rule[a] = f =>
    \/ a \in orphaned
    \/ a \in current[f] /\ (pc[f] = "unblock" => a \in todo[f] \cup fresh[f])
    \/ pc[f] # "idle" /\ a \in fresh[f]

\* Nothing accumulates: an address that keeps missing from what a feed fetches
\* ends up not blocked by it, whoever else blocks and lifts it; rules the file
\* brought back and blocks whose Unblock failed excepted.
RolledOffLifted ==
  \A f \in Feed, a \in Addr :
    <>[](a \notin fresh[f]) => <>[](rule[a] # f \/ a \in orphaned)

\* No operator and no other feed ever names the address.
Private(f, a) ==
  /\ a \notin Manual
  /\ \A g \in Feed \ {f} : \A s \in Sources[g] : \A ans \in Answers[s] : a \notin ans

\* What Resolutions and CountryRanges list is blocked if it is theirs alone, as
\* long as the firewall did not refuse it: no refresh that failed half way, no
\* reconfiguration and no restart leaves a gap.
ListedBlocked ==
  \A f \in Feed : pc[f] = "idle" =>
    \A a \in current[f] \ missed[f] : Private(f, a) => rule[a] # "none"
=============================================================================
