------------------------------ MODULE RuleTable ------------------------------
(***************************************************************************)
(* The daemon's rule table: the kernel maps the XDP program reads          *)
(* (blocklist, blocklist_v6, rate_limits, bandwidth_limits), the mirror    *)
(* Firewall.rules the API lists, the file rules.json behind store.Store,   *)
(* the HTTP handlers that change them, and the boot sequence that rebuilds *)
(* the first two from the third.                                           *)
(*                                                                         *)
(* Every method of Firewall holds f.mu from its first map write to its     *)
(* return, so one call is one step.  A handler is several calls, and       *)
(* net/http runs handlers concurrently: their calls interleave.  The maps  *)
(* are not pinned, so they vanish with the process; the file stays.        *)
(***************************************************************************)
EXTENDS Naturals, FiniteSets

CONSTANTS
  Name,        \* spellings of addresses: the strings the API is given
  Addr,        \* the addresses they parse to: the keys of the kernel maps
  AddrOf,      \* net.ParseIP, then ipToKey or v6Key
  V6,          \* the addresses that live in blocklist_v6
  Kind,        \* "pps" (RateLimit) and "kbps" (BandwidthLimit)
  MaxLimit,    \* bound on the limits the model sets; 0 means no limit
  AutoReason,  \* reasons of blocks made by the daemon itself
  Policy,      \* the block list of policy.yaml: Name -> Rule or NoRule
  Handler,     \* concurrent HTTP handlers
  MaxRules,    \* MAX_RULES, the size of each kernel hash map
  SaveMayFail, \* whether store.Save may return an error
  LoadMayFail  \* whether store.Load may: a file that cannot be read or parsed

Reason == {"manual"} \cup AutoReason
Limit  == 0 .. MaxLimit
Limits == [Kind -> Limit]
NoLimits == [k \in Kind |-> 0]

Rule     == [reason : Reason, limit : Limits]
NoRule   == [reason |-> "absent", limit |-> NoLimits]
MaybeRule == Rule \cup {NoRule}
Table    == [Name -> MaybeRule]
Empty    == [n \in Name |-> NoRule]

\* What is known of the last request for a name: nothing, or that it was
\* answered with success; "maybe" when the file could not be written or
\* another handler held an older list at that time, or when a start could not
\* read the file since.
Ack == {"none", "blocked", "unblocked", "maybe blocked", "maybe unblocked"}

ASSUME ConstantsOK ==
  /\ AddrOf \in [Name -> Addr]
  /\ V6 \subseteq Addr
  /\ MaxLimit \in Nat /\ MaxRules \in Nat
  /\ "absent" \notin AutoReason
  /\ Handler \cap Ack = {}
  /\ Policy \in Table
  /\ IsFiniteSet(Addr)
  /\ SaveMayFail \in BOOLEAN /\ LoadMayFail \in BOOLEAN

VARIABLES
  blocklist,  \* Addr -> Reason or "absent": both kernel blocklists
  limits,     \* Kind -> Addr -> Limit: rate_limits and bandwidth_limits
  rules,      \* Firewall.rules
  disk,       \* rules.json
  phase,      \* "down", "restore", "policy" or "serving": how far main() is
  todo,       \* names the boot loop of this phase has still to go through
  pc,         \* where each handler is
  req,        \* the request each handler serves
  snap,       \* the list each handler took in persist()
  acked       \* history: what was last done to each name, if by an API request
              \* answered with success; the handler while it is under way

vars == <<blocklist, limits, rules, disk, phase, todo, pc, req, snap, acked>>
fw   == <<blocklist, limits, rules>>
boot == <<phase, todo>>
http == <<pc, req, snap>>

NoReq == [ip |-> "none", want |-> "none", limit |-> NoLimits]
Request == [ip : Name, want : {"blocked", "unblocked"}, limit : Limits]

TypeOK ==
  /\ blocklist \in [Addr -> Reason \cup {"absent"}]
  /\ limits \in [Kind -> [Addr -> Limit]]
  /\ rules \in Table /\ disk \in Table
  /\ phase \in {"down", "restore", "policy", "serving"}
  /\ todo \subseteq Name
  /\ pc \in [Handler -> {"idle", "limit", "list", "save"}]
  /\ req \in [Handler -> Request \cup {NoReq}]
  /\ snap \in [Handler -> Table]
  /\ acked \in [Name -> Ack \cup Handler]

Init ==
  /\ blocklist = [a \in Addr |-> "absent"]
  /\ limits = [k \in Kind |-> [a \in Addr |-> 0]]
  /\ rules = Empty /\ disk = Empty
  /\ phase = "down" /\ todo = {}
  /\ pc = [h \in Handler |-> "idle"]
  /\ req = [h \in Handler |-> NoReq]
  /\ snap = [h \in Handler |-> Empty]
  /\ acked = [n \in Name |-> "none"]

-----------------------------------------------------------------------------
(* The Firewall methods, as the new values of its three tables.            *)

SameFamily(a) == IF a \in V6 THEN V6 ELSE Addr \ V6

\* A Put into a BPF hash map fails when the key is new and the map is full.
BlockFits(a) ==
  \/ blocklist[a] # "absent"
  \/ Cardinality({b \in SameFamily(a) : blocklist[b] # "absent"}) < MaxRules

LimitFits(k, a) ==
  \/ limits[k][a] # 0
  \/ Cardinality({b \in Addr : limits[k][b] # 0}) < MaxRules

\* rate_limits and bandwidth_limits are IPv4-only; removing needs no room.
LimitOK(k, n, l) ==
  /\ AddrOf[n] \notin V6
  /\ l = 0 \/ LimitFits(k, AddrOf[n])

\* Mutant: an address already listed keeps its old reason in the mirror.
BlockWithReason_OldReason(n, r) ==
  /\ BlockFits(AddrOf[n])
  /\ blocklist' = [blocklist EXCEPT ![AddrOf[n]] = r]
  /\ rules' = IF rules[n] = NoRule THEN [rules EXCEPT ![n].reason = r] ELSE rules
  /\ UNCHANGED limits

\* BlockWithReason after its Put succeeded: the new entry replaces the reason
\* of an old one and keeps its limits.
BlockWithReason(n, r) ==
  /\ BlockFits(AddrOf[n])
  /\ blocklist' = [blocklist EXCEPT ![AddrOf[n]] = r]
  /\ rules' = [rules EXCEPT ![n].reason = r]
  /\ UNCHANGED limits

\* Mutant: the mirror's entry keeps its limits.
Unblock_KeepLimits(n) ==
  /\ blocklist' = [blocklist EXCEPT ![AddrOf[n]] = "absent"]
  /\ rules' = [rules EXCEPT ![n].reason = "absent"]
  /\ UNCHANGED limits

\* Unblock forgets the whole rule but leaves the limit maps as they are.
Unblock(n) ==
  /\ blocklist' = [blocklist EXCEPT ![AddrOf[n]] = "absent"]
  /\ rules' = [rules EXCEPT ![n] = NoRule]
  /\ UNCHANGED limits

\* The limits map after RateLimit / BandwidthLimit(n, l).
WithLimit(k, n, l) == [limits EXCEPT ![k][AddrOf[n]] = l]

\* The mirror takes the limit only where it has a rule for the address.
Noted(n) == rules[n].reason # "absent"

\* Mutant: the mirror takes the limit although the Put failed.
SetLimit_IgnoreError(k, n, l) ==
  /\ limits' = IF LimitOK(k, n, l) THEN WithLimit(k, n, l) ELSE limits
  /\ rules' = IF Noted(n) THEN [rules EXCEPT ![n].limit[k] = l] ELSE rules
  /\ UNCHANGED blocklist

SetLimit(k, n, l) ==
  /\ LimitOK(k, n, l)
  /\ limits' = WithLimit(k, n, l)
  /\ rules' = IF Noted(n) THEN [rules EXCEPT ![n].limit[k] = l] ELSE rules
  /\ UNCHANGED blocklist

-----------------------------------------------------------------------------
(* main(): attach, restore rules.json, apply policy.yaml, serve.           *)

BootList == IF phase = "restore" THEN disk ELSE Policy
Listed(t) == {n \in Name : t[n] # NoRule}

\* main() reads the file and begins to restore it.  When Load returns an error
\* it warns and goes on without: nothing is restored, the daemon serves, and
\* the first save replaces the file.
Start ==
  /\ phase = "down"
  /\ \/ /\ phase' = "restore" /\ todo' = Listed(disk)
        /\ UNCHANGED acked
     \/ /\ LoadMayFail
        /\ phase' = "policy" /\ todo' = Listed(Policy)
        /\ acked' = [n \in Name |->
             IF acked[n] = "blocked" THEN "maybe blocked" ELSE acked[n]]
  /\ UNCHANGED <<fw, disk, http>>

\* Mutant: the loop restores the packet rate only.
Settable_PpsOnly(n, e) ==
  {k \in Kind \cap {"pps"} : e.limit[k] > 0 /\ LimitOK(k, n, e.limit[k])}

\* The limits of entry e that the loop's RateLimit and BandwidthLimit calls
\* set: a limit of 0 makes no call, and an error leaves that limit unset.
\* policy.Apply does not come to the bandwidth when the packet rate failed.
Settable(n, e) ==
  {k \in Kind :
     /\ e.limit[k] > 0 /\ LimitOK(k, n, e.limit[k])
     /\ \/ phase # "policy" \/ k # "kbps" \/ "pps" \notin Kind
        \/ e.limit["pps"] = 0 \/ LimitOK("pps", n, e.limit["pps"])}

\* One turn of the restore loop or of policy.Apply's: nothing else runs yet,
\* so the three calls of a turn are one step.  A refused block skips the rest.
BootEntry(n) ==
  LET e == BootList[n]
      set == Settable(n, e)
      lim(k) == IF k \in set THEN e.limit[k] ELSE rules[n].limit[k]
  IN /\ n \in todo
     /\ todo' = todo \ {n}
     /\ IF BlockFits(AddrOf[n])
        THEN /\ blocklist' = [blocklist EXCEPT ![AddrOf[n]] = e.reason]
             /\ limits' = [k \in Kind |-> IF k \in set
                  THEN [limits[k] EXCEPT ![AddrOf[n]] = e.limit[k]]
                  ELSE limits[k]]
             /\ rules' = [rules EXCEPT ![n] =
                  [reason |-> e.reason, limit |-> [k \in Kind |-> lim(k)]]]
        ELSE UNCHANGED fw
     /\ UNCHANGED <<phase, disk, http, acked>>

BootPhase ==
  /\ todo = {}
  /\ \/ /\ phase = "restore"
        /\ phase' = "policy" /\ todo' = Listed(Policy)
     \/ /\ phase = "policy"
        /\ phase' = "serving" /\ todo' = {}
  /\ UNCHANGED <<fw, disk, http, acked>>

\* The process ends, by a crash or after Close: the link and the maps go with
\* its file descriptors, the handlers with its goroutines.
Stop ==
  /\ phase # "down"
  /\ blocklist' = [a \in Addr |-> "absent"]
  /\ limits' = [k \in Kind |-> [a \in Addr |-> 0]]
  /\ rules' = Empty
  /\ phase' = "down" /\ todo' = {}
  /\ pc' = [h \in Handler |-> "idle"]
  /\ req' = [h \in Handler |-> NoReq]
  /\ snap' = [h \in Handler |-> Empty]
  /\ UNCHANGED <<disk, acked>>

-----------------------------------------------------------------------------
(* The handlers of internal/api.                                           *)

Goto(h, l) == pc' = [pc EXCEPT ![h] = l]
Begin(h) == phase = "serving" /\ pc[h] = "idle"

\* handleCreateRule up to the return of s.fw.Block; a refused block answers
\* 400 and changes nothing.
CreateBlock(h, n, lim) ==
  /\ Begin(h)
  /\ BlockWithReason(n, "manual")
  /\ req' = [req EXCEPT ![h] = [ip |-> n, want |-> "blocked", limit |-> lim]]
  /\ Goto(h, "limit")
  /\ acked' = [acked EXCEPT ![n] = h]
  /\ UNCHANGED <<disk, snap, boot>>

\* The limits the request still asks for; 0 asks for nothing.
Asked(h) == {k \in Kind : req[h].limit[k] > 0}

\* One of handleCreateRule's RateLimit and BandwidthLimit calls.  On an error
\* it answers 400 and returns without calling persist().
CreateLimit(h, k) ==
  LET n == req[h].ip
      l == req[h].limit[k]
  IN /\ pc[h] = "limit" /\ k \in Asked(h)
     /\ k = "kbps" => "pps" \notin Asked(h)
     /\ \/ /\ SetLimit(k, n, l)
           /\ req' = [req EXCEPT ![h].limit[k] = 0]
           /\ UNCHANGED pc
        \/ /\ ~LimitOK(k, n, l)
           /\ Goto(h, "idle")
           /\ req' = [req EXCEPT ![h] = NoReq]
           /\ UNCHANGED fw
     /\ UNCHANGED <<disk, snap, boot, acked>>

CreatePersist(h) ==
  /\ pc[h] = "limit" /\ Asked(h) = {}
  /\ Goto(h, "list")
  /\ UNCHANGED <<fw, disk, boot, req, snap, acked>>

\* Mutant: handleDeleteRule answers without calling persist().
DeleteUnblock_NoPersist(h, n) ==
  /\ Begin(h)
  /\ Unblock(n)
  /\ acked' = [acked EXCEPT ![n] = "unblocked"]
  /\ UNCHANGED <<disk, http, boot>>

\* handleDeleteRule up to the return of s.fw.Unblock.
DeleteUnblock(h, n) ==
  /\ Begin(h)
  /\ Unblock(n)
  /\ req' = [req EXCEPT ![h] =
       [ip |-> n, want |-> "unblocked", limit |-> NoLimits]]
  /\ Goto(h, "list")
  /\ acked' = [acked EXCEPT ![n] = h]
  /\ UNCHANGED <<disk, snap, boot>>

\* persist(): s.fw.List() under f.mu ...
PersistList(h) ==
  /\ pc[h] = "list"
  /\ snap' = [snap EXCEPT ![h] = rules]
  /\ Goto(h, "save")
  /\ UNCHANGED <<fw, disk, boot, req, acked>>

\* Another handler is about to save a list it took earlier.
Overtaken(h) == \E g \in Handler \ {h} : pc[g] = "save"

\* What the answer to h's request is worth.
Answer(h, sure) ==
  IF sure THEN req[h].want
  ELSE IF req[h].want = "blocked" THEN "maybe blocked" ELSE "maybe unblocked"

Acknowledge(h, sure) ==
  acked' = [acked EXCEPT ![req[h].ip] = IF @ = h THEN Answer(h, sure) ELSE @]

\* ... then s.st.Save under the store's own mutex, replacing the file by a
\* rename.  Its error is ignored and the request is answered with success.
PersistSave(h) ==
  /\ pc[h] = "save"
  /\ \/ disk' = snap[h] /\ Acknowledge(h, ~Overtaken(h))
     \/ SaveMayFail /\ UNCHANGED disk /\ Acknowledge(h, FALSE)
  /\ Goto(h, "idle")
  /\ req' = [req EXCEPT ![h] = NoReq]
  /\ snap' = [snap EXCEPT ![h] = Empty]
  /\ UNCHANGED <<fw, boot>>

\* handleRateLimit and handleBandwidthLimit: one call, and no persist().
HandleLimit(k, n, l) ==
  /\ phase = "serving"
  /\ SetLimit(k, n, l)
  /\ UNCHANGED <<disk, boot, http, acked>>

\* The detector, the feeds and the registry block and lift blocks through the
\* same Backend and never persist.
AutoBlock(n, r) ==
  /\ phase = "serving"
  /\ BlockWithReason(n, r)
  /\ acked' = [acked EXCEPT ![n] = "none"]
  /\ UNCHANGED <<disk, boot, http>>

AutoUnblock(n) ==
  /\ phase = "serving" /\ AutoReason # {}
  /\ Unblock(n)
  /\ acked' = [acked EXCEPT ![n] = "none"]
  /\ UNCHANGED <<disk, boot, http>>

Next ==
  \/ Start \/ BootPhase \/ Stop
  \/ \E n \in Name : BootEntry(n) \/ AutoUnblock(n)
  \/ \E n \in Name, r \in AutoReason : AutoBlock(n, r)
  \/ \E k \in Kind, n \in Name, l \in Limit : HandleLimit(k, n, l)
  \/ \E h \in Handler :
       \/ \E n \in Name, lim \in Limits : CreateBlock(h, n, lim)
       \/ \E k \in Kind : CreateLimit(h, k)
       \/ \E n \in Name : DeleteUnblock(h, n)
       \/ CreatePersist(h) \/ PersistList(h) \/ PersistSave(h)

Spec == Init /\ [][Next]_vars

-----------------------------------------------------------------------------
(* Properties.                                                             *)

\* No two names spell the same address.
Canonical == \A m, n \in Name : AddrOf[m] = AddrOf[n] => m = n

\* What List returns is what the kernel drops: a listed name's address is in
\* the kernel blocklist with the listed reason, and every blocked address is
\* listed, whatever handlers, feeds and restarts did in between.
MirrorAgrees ==
  /\ \A n \in Name : Noted(n) => blocklist[AddrOf[n]] = rules[n].reason
  /\ \A a \in Addr : blocklist[a] # "absent" =>
       \E n \in Name : AddrOf[n] = a /\ Noted(n)

\* A limit the API lists beside a rule is the limit the kernel enforces.
ListedLimitsEnforced ==
  \A n \in Name, k \in Kind :
    rules[n].limit[k] > 0 => limits[k][AddrOf[n]] = rules[n].limit[k]

\* A create or delete that was saved and answered while no other handler held
\* an older list outlives any number of restarts: the address it blocked is
\* blocked again once the daemon serves, as long as every start since could
\* read the file (store.Load failed in none), and the one it unblocked stays
\* unblocked, unless policy.yaml blocks it anew.
AckedSurvives ==
  phase = "serving" => \A n \in Name :
    /\ acked[n] = "blocked" => Noted(n)
    /\ acked[n] = "unblocked" /\ Policy[n] = NoRule => ~Noted(n)

\* A restore loop, which runs when the file could be read, puts every persisted
\* rule back as it was saved, its reason and its limits, before the policy is
\* applied: none is refused by the maps.
RestoreFaithful ==
  [][phase = "restore" /\ phase' = "policy" =>
       \A n \in Name : disk[n] # NoRule =>
         /\ rules[n] = disk[n]
         /\ \A k \in Kind : limits[k][AddrOf[n]] = disk[n].limit[k]]_vars
=============================================================================
