------------------------------ MODULE Pipeline ------------------------------
(***************************************************************************)
(* xdp_sentryx(): the way of one packet from the wire to its verdict,      *)
(* past blocklist, GeoIP trie, TCP stage and the two token buckets, and    *)
(* the accounting of drops.  One run of the program per CPU, all of them   *)
(* over the same maps, which the daemon changes under them.                *)
(*                                                                         *)
(* The TCP stage keeps its own state: here it is the set of its outcomes   *)
(* (PortKnock and SynCookie have the stage itself).  Frames that are not   *)
(* IP pass before any of this and are left out; so is the copy a dropped   *)
(* packet leaves in the capture buffer (Capture), and its activity counts  *)
(* (Detector).                                                             *)
(*                                                                         *)
(* The program looks a packet up by the raw bits of its source address.    *)
(* The daemon writes the key it computes from the address it was given:    *)
(* whose packets carry that key is KeyOf and KeyCovers.                    *)
(***************************************************************************)
EXTENDS TokenBucket, FiniteSets

CONSTANTS
  V6,          \* IPv6 sources: blocklist_v6, and no other stage
  Prefix,      \* CIDR ranges geoip_blocklist may hold
  Covers,      \* Prefix -> the sources inside
  KeyOf,       \* Src -> the source whose address is the key ipToKey or v6Key
               \* makes, as the map library writes it
  KeyCovers,   \* Prefix -> the sources that match the key cidrToGeoKey makes
  Reason,      \* reasons of blocks
  MaxPackets,  \* bound on the packets received
  MaxReasons   \* MAX_ACTIVITY, the size of drop_reasons

ASSUME PipelineConstantsOK ==
  /\ IsFiniteSet(Cpu) /\ Kind = {"pps", "kbps"}
  /\ V6 \subseteq Src
  /\ Covers \in [Prefix -> SUBSET (Src \ V6)]
  /\ KeyCovers \in [Prefix -> SUBSET (Src \ V6)]
  /\ KeyOf \in [Src -> Src]
  /\ \A s \in Src : KeyOf[KeyOf[s]] = s  \* bytes as they are, or reversed
  /\ \A s \in V6 : KeyOf[s] = s
  /\ MaxPackets \in Nat /\ MaxReasons \in Nat
  /\ "none" \notin Reason /\ "listed" \notin Prefix

VARIABLES
  blocklist,  \* Src -> Reason or "none": blocklist and blocklist_v6, by key
  geo,        \* prefixes in geoip_blocklist
  why,        \* Src -> how many drops drop_reasons counts; 0: no entry
  stats,      \* packets allowed and dropped
  pkt,        \* the packet each CPU works on
  busy,       \* the key whose Unblock is between its two deletes, or "free"
  received,   \* packets received so far, for the bound
  due         \* history: Src -> drops to be explained since why has its entry

kernel == <<blocklist, geo, why, stats>>
vars == <<bucketVars, kernel, pkt, busy, received, due>>

Stage == {"idle", "blocklist", "geoip", "pps", "kbps", "drop", "record",
          "insert", "add", "allow", "challenge"}
NoPkt == [at |-> "idle", src |-> "none", len |-> 0, denied |-> {}, meant |-> {}]

PacketsOK ==
  \A c \in Cpu :
    \/ pkt[c] = NoPkt
    \/ pkt[c] \in [at : Stage, src : Src, len : PacketLen,
                   denied : SUBSET (Prefix \cup {"listed"}),
                   meant : SUBSET (Prefix \cup {"listed"})]

\* A CPU is in a check only while its packet is at that bucket.
TypeOK ==
  /\ BucketTypeOK
  /\ blocklist \in [Src -> Reason \cup {"none"}] /\ geo \subseteq Prefix
  /\ why \in [Src -> Nat] /\ due \in [Src -> Nat]
  /\ stats \in [{"allowed", "dropped"} -> Nat]
  /\ DOMAIN pkt = Cpu /\ PacketsOK
  /\ busy \in Src \cup {"free"}
  /\ received \in 0 .. MaxPackets
  /\ \A c \in Cpu : check[c].at # "idle" => pkt[c].at \in Kind

Init ==
  /\ BucketInit
  /\ blocklist = [s \in Src |-> "none"] /\ geo = {}
  /\ why = [s \in Src |-> 0]
  /\ stats = [v \in {"allowed", "dropped"} |-> 0]
  /\ pkt = [c \in Cpu |-> NoPkt]
  /\ busy = "free" /\ received = 0
  /\ due = [s \in Src |-> 0]

-----------------------------------------------------------------------------
(* The program.                                                            *)

Goto(c, stage) == pkt' = [pkt EXCEPT ![c].at = stage]
At(c, stage) == pkt[c].at = stage
Count(v) == stats' = [stats EXCEPT ![v] = @ + 1]
Done(c) == pkt' = [pkt EXCEPT ![c] = NoPkt]

\* The keys in the maps that the address of s matches: "listed" and ranges.
Denying(s) ==
  {p \in geo : s \in KeyCovers[p]} \cup (IF blocklist[s] # "none" THEN {"listed"} ELSE {})

\* The blocks the daemon was given for the address of s.
Meant(s) ==
  {p \in geo : s \in Covers[p]}
    \cup (IF blocklist[KeyOf[s]] # "none" THEN {"listed"} ELSE {})

Receive(c, s, len) ==
  /\ At(c, "idle") /\ received < MaxPackets
  /\ pkt' = [pkt EXCEPT ![c] =
       [at |-> "blocklist", src |-> s, len |-> len, denied |-> Denying(s),
        meant |-> Meant(s)]]
  /\ received' = received + 1
  /\ UNCHANGED <<bucketVars, kernel, busy, due>>

\* IPv6 has its own list and is counted, never recorded, on the spot.
LookupV6(c) ==
  /\ At(c, "blocklist") /\ pkt[c].src \in V6
  /\ IF blocklist[pkt[c].src] # "none"
     THEN Count("dropped") /\ Done(c)
     ELSE Goto(c, "allow") /\ UNCHANGED stats
  /\ UNCHANGED <<bucketVars, blocklist, geo, why, busy, received, due>>

\* Mutant: what the exact list does not have goes on to the buckets.
LookupBlocklist_NoTrie(c) ==
  /\ At(c, "blocklist") /\ pkt[c].src \notin V6
  /\ Goto(c, IF blocklist[pkt[c].src] # "none" THEN "drop" ELSE "pps")
  /\ UNCHANGED <<bucketVars, kernel, busy, received, due>>

LookupBlocklist(c) ==
  /\ At(c, "blocklist") /\ pkt[c].src \notin V6
  /\ Goto(c, IF blocklist[pkt[c].src] # "none" THEN "drop" ELSE "geoip")
  /\ UNCHANGED <<bucketVars, kernel, busy, received, due>>

\* The longest prefix wins, and every prefix has the same reason: any will do.
Matches(s) == \E p \in geo : s \in KeyCovers[p]

\* Past the trie comes the TCP stage.  A knock, a closed port or a SYN flood
\* drops the packet; a challenge sends it back, and a bare ACK of no flow is
\* dropped without a record; everything else goes on to the buckets.
LookupGeo(c) ==
  /\ At(c, "geoip")
  /\ \/ Matches(pkt[c].src) /\ Goto(c, "drop") /\ UNCHANGED stats
     \/ /\ ~Matches(pkt[c].src)
        /\ \/ \E tcp \in {"drop", "challenge", "pps"} : Goto(c, tcp) /\ UNCHANGED stats
           \/ Count("dropped") /\ Done(c)
  /\ UNCHANGED <<bucketVars, blocklist, geo, why, busy, received, due>>

After(k) == IF k = "pps" THEN "kbps" ELSE "allow"

\* A packet of a source without a bucket is not limited.
Unlimited(c, k) ==
  /\ At(c, k) /\ check[c].at = "idle" /\ entry[k][pkt[c].src] = 0
  /\ Goto(c, After(k))
  /\ UNCHANGED <<bucketVars, kernel, busy, received, due>>

Limited(c, k) ==
  /\ At(c, k)
  /\ \/ Lookup(c, k, pkt[c].src, pkt[c].len) /\ UNCHANGED pkt
     \/ (Measure(c) \/ Read(c)) /\ UNCHANGED pkt
     \/ Write(c) /\ Goto(c, IF Exceeded(c) THEN "drop" ELSE After(k))
  /\ UNCHANGED <<kernel, busy, received, due>>

CountDrop(c) ==
  /\ At(c, "drop")
  /\ Count("dropped") /\ Goto(c, "record")
  /\ UNCHANGED <<bucketVars, blocklist, geo, why, busy, received, due>>

\* record_drop: the entry is looked up ...
RecordLookup(c) ==
  /\ At(c, "record")
  /\ Goto(c, IF why[pkt[c].src] > 0 THEN "add" ELSE "insert")
  /\ UNCHANGED <<bucketVars, kernel, busy, received, due>>

\* ... and counted up by an atomic addition: in vain, if Unblock has deleted
\* it since (Forget moves such a packet on) ...
RecordAdd(c) ==
  LET s == pkt[c].src IN
  /\ At(c, "add")
  /\ why' = [why EXCEPT ![s] = @ + 1]
  /\ due' = [due EXCEPT ![s] = @ + 1]
  /\ Done(c)
  /\ UNCHANGED <<bucketVars, blocklist, geo, stats, busy, received>>

\* Mutant: BPF_ANY, an insert overwrites the entry another CPU has made.
Inserted_Any(n, room) == IF n = 0 /\ ~room THEN 0 ELSE 1

\* ... or inserted with BPF_NOEXIST, which fails when another CPU was faster or
\* the map is full.
Inserted(n, room) == IF n = 0 /\ room THEN 1 ELSE n

RecordInsert(c) ==
  LET s == pkt[c].src
      room == Cardinality({t \in Src : why[t] > 0}) < MaxReasons
  IN /\ At(c, "insert")
     /\ why' = [why EXCEPT ![s] = Inserted(@, room)]
     /\ due' = [due EXCEPT ![s] = IF why'[s] > 0 THEN @ + 1 ELSE 0]
     /\ Done(c)
     /\ UNCHANGED <<bucketVars, blocklist, geo, stats, busy, received>>

Allow(c) ==
  /\ At(c, "allow") \/ At(c, "challenge")
  /\ Count("allowed") /\ Done(c)
  /\ UNCHANGED <<bucketVars, blocklist, geo, why, busy, received, due>>

-----------------------------------------------------------------------------
(* The daemon, under f.mu: an Unblock's two deletes are not one step.      *)

Block(s, r) ==
  /\ busy = "free"
  /\ blocklist' = [blocklist EXCEPT ![KeyOf[s]] = r]
  /\ UNCHANGED <<bucketVars, geo, why, stats, pkt, busy, received, due>>

Without(C, cause, s, S) == IF s \in S THEN C \ {cause} ELSE C

\* The block of the addresses A, whose key matches K, is no longer in force for
\* the packets under way.
Release(cause, A, K) ==
  pkt' = [c \in Cpu |->
    [pkt[c] EXCEPT !.denied = Without(@, cause, pkt[c].src, K),
                   !.meant = Without(@, cause, pkt[c].src, A)]]

Unblock(s) ==
  /\ busy = "free"
  /\ blocklist' = [blocklist EXCEPT ![KeyOf[s]] = "none"]
  /\ Release("listed", {s}, {KeyOf[s]})
  /\ busy' = IF s \in V6 THEN "free" ELSE KeyOf[s]
  /\ UNCHANGED <<bucketVars, geo, why, stats, received, due>>

\* The explanation goes with the block, whatever it explained, and an addition
\* still under way goes to the deleted element.
Forget ==
  /\ busy # "free"
  /\ why' = [why EXCEPT ![busy] = 0]
  /\ due' = [due EXCEPT ![busy] = 0]
  /\ pkt' = [c \in Cpu |-> IF At(c, "add") /\ pkt[c].src = busy THEN NoPkt ELSE pkt[c]]
  /\ busy' = "free"
  /\ UNCHANGED <<bucketVars, blocklist, geo, stats, received>>

BlockCIDR(p) ==
  /\ busy = "free"
  /\ geo' = geo \cup {p}
  /\ UNCHANGED <<bucketVars, blocklist, why, stats, pkt, busy, received, due>>

UnblockCIDR(p) ==
  /\ busy = "free"
  /\ geo' = geo \ {p}
  /\ Release(p, Covers[p], KeyCovers[p])
  /\ UNCHANGED <<bucketVars, blocklist, why, stats, busy, received, due>>

Daemon ==
  \/ \E s \in Src : Unblock(s) \/ \E r \in Reason : Block(s, r)
  \/ \E p \in Prefix : BlockCIDR(p) \/ UnblockCIDR(p)
  \/ Forget
  \/ /\ busy = "free"
     /\ \E k \in Kind, s \in Src \ V6, l \in Limit : SetLimit(k, KeyOf[s], l)
     /\ UNCHANGED <<kernel, pkt, busy, received, due>>

Program(c) ==
  \/ \E s \in Src, len \in PacketLen : Receive(c, s, len)
  \/ LookupV6(c) \/ LookupBlocklist(c) \/ LookupGeo(c)
  \/ \E k \in Kind : Unlimited(c, k) \/ Limited(c, k)
  \/ CountDrop(c) \/ RecordLookup(c) \/ RecordAdd(c) \/ RecordInsert(c)
  \/ Allow(c)

Next ==
  \/ \E c \in Cpu : Program(c)
  \/ Daemon
  \/ /\ Tick \/ \E b \in Slot : Watch(b)
     /\ UNCHANGED <<kernel, pkt, busy, received, due>>

Spec == Init /\ [][Next]_vars

-----------------------------------------------------------------------------

\* A key is in force from the very next packet: one that was received while its
\* address matched a key of the lists, and was not released since, is neither
\* let through nor answered, whatever flows or trust its source has.
BlockedStops ==
  \A c \in Cpu : pkt[c].at \in {"allow", "challenge"} => pkt[c].denied = {}

\* What the comment of Block promises: a block of an address or a range is in
\* force on the very next packet from that address.  It takes a host on which
\* the key the daemon writes is the address the program looks up.
BlockInForce ==
  \A c \in Cpu : pkt[c].at \in {"allow", "challenge"} => pkt[c].meant = {}

NetworkOrder == (\A s \in Src : KeyOf[s] = s) /\ KeyCovers = Covers

\* The explanations the dashboard shows never count a drop the totals lack,
\* and a lost first insert costs at most one sample for each other CPU.
DropsExplained ==
  \A s \in Src :
    /\ why[s] <= due[s]
    /\ why[s] > 0 => due[s] < why[s] + Cardinality(Cpu)
    /\ why[s] <= stats["dropped"]
=============================================================================
