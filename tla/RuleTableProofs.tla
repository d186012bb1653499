--------------------------- MODULE RuleTableProofs ---------------------------
(***************************************************************************)
(* What RuleTable promises for any sets of names, addresses and handlers,  *)
(* any limits and any map size: the types, and, when no two names spell    *)
(* one address, the agreement of the mirror with the kernel maps, a        *)
(* restore that loses nothing, and answers that outlive restarts.          *)
(***************************************************************************)
EXTENDS RuleTable, FiniteSetTheorems, TLAPS

\* A rule is recognised by its reason: "absent" is no reason.
LEMMA ReasonOfRule ==
  ASSUME NEW r \in MaybeRule
  PROVE  /\ r.reason \in Reason \cup {"absent"}
         /\ r.limit \in Limits
         /\ (r.reason = "absent") <=> (r = NoRule)
  <1>1. "absent" \notin Reason
    BY ConstantsOK DEF Reason
  <1>2. NoLimits \in Limits
    BY ConstantsOK DEF NoLimits, Limits, Limit
  <1>3. CASE r \in Rule
    BY <1>1, <1>3 DEF Rule, NoRule
  <1>4. CASE r = NoRule
    BY <1>2, <1>4 DEF NoRule
  <1> QED
    BY <1>3, <1>4 DEF MaybeRule

\* Giving a rule, or the absence of one, a reason makes it a rule.
LEMMA WithReason ==
  ASSUME NEW t \in Table, NEW n \in Name, NEW r \in Reason
  PROVE  /\ [t EXCEPT ![n].reason = r] \in Table
         /\ [t EXCEPT ![n].reason = r][n].reason = r
         /\ [t EXCEPT ![n].reason = r][n].limit = t[n].limit
         /\ \A m \in Name : m # n => [t EXCEPT ![n].reason = r][m] = t[m]
  <1> DEFINE e == [t[n] EXCEPT !.reason = r]
  <1>1. t[n] \in MaybeRule
    BY DEF Table
  <1>2. t[n].limit \in Limits
    BY <1>1, ReasonOfRule
  <1>3. e = [reason |-> r, limit |-> t[n].limit]
    BY <1>1 DEF MaybeRule, Rule, NoRule
  <1>4. e \in MaybeRule
    BY <1>2, <1>3 DEF MaybeRule, Rule
  <1> HIDE DEF e
  <1>5. [t EXCEPT ![n].reason = r] = [t EXCEPT ![n] = e]
    BY DEF e
  <1> QED
    BY <1>3, <1>4, <1>5 DEF Table

\* Changing one limit of a rule changes nothing else.
LEMMA WithLimitOfRule ==
  ASSUME NEW t \in Table, NEW n \in Name, NEW k \in Kind, NEW l \in Limit,
         t[n].reason # "absent"
  PROVE  /\ [t EXCEPT ![n].limit[k] = l] \in Table
         /\ \A m \in Name :
              [t EXCEPT ![n].limit[k] = l][m].reason = t[m].reason
         /\ \A m \in Name, j \in Kind :
              [t EXCEPT ![n].limit[k] = l][m].limit[j] =
                IF m = n /\ j = k THEN l ELSE t[m].limit[j]
  <1> DEFINE e == [t[n] EXCEPT !.limit[k] = l]
  <1>1. t[n] \in Rule
    BY ReasonOfRule DEF Table, MaybeRule, NoRule
  <1>2. /\ e.reason = t[n].reason
        /\ e.limit = [t[n].limit EXCEPT ![k] = l]
        /\ e = [reason |-> t[n].reason, limit |-> [t[n].limit EXCEPT ![k] = l]]
    BY <1>1 DEF Rule
  <1>3. /\ t[n].limit \in [Kind -> Limit]
        /\ [t[n].limit EXCEPT ![k] = l] \in Limits
    BY <1>1 DEF Rule, Limits
  <1>4. e \in MaybeRule
    BY <1>1, <1>2, <1>3 DEF Rule, MaybeRule
  <1> HIDE DEF e
  <1>5. [t EXCEPT ![n].limit[k] = l] = [t EXCEPT ![n] = e]
    BY DEF e
  <1> QED
    BY <1>2, <1>3, <1>4, <1>5 DEF Table
-----------------------------------------------------------------------------
(* Types.                                                                   *)

LEMMA EmptyTable == Empty \in Table /\ Policy \in Table
  BY ConstantsOK DEF Empty, Table, MaybeRule

\* The table a boot turn leaves: the entry with the limits that could be set.
LEMMA BootRule ==
  ASSUME NEW e \in Rule, NEW n \in Name, TypeOK, NEW set \in SUBSET Kind
  PROVE  [reason |-> e.reason, limit |-> [k \in Kind |->
            IF k \in set THEN e.limit[k] ELSE rules[n].limit[k]]] \in Rule
  <1>1. rules[n].limit \in Limits
    BY ReasonOfRule DEF TypeOK, Table
  <1> QED
    BY <1>1 DEF Rule, Limits

LEMMA BootListRule ==
  ASSUME TypeOK, NEW n \in Name, BootList[n] # NoRule
  PROVE  BootList[n] \in Rule
  BY EmptyTable DEF TypeOK, BootList, Table, MaybeRule

\* Every step keeps the types.
LEMMA TypeStep == ASSUME TypeOK, todo \subseteq Listed(BootList), [Next]_vars
                  PROVE  TypeOK'
  <1> USE DEF TypeOK
  <1>1. CASE Start
    <2>1. /\ phase' \in {"restore", "policy"} /\ todo' \subseteq Name
          /\ UNCHANGED <<blocklist, limits, rules, disk, pc, req, snap>>
      BY <1>1 DEF Start, Listed, fw, http
    <2>2. acked' \in [Name -> Ack \cup Handler]
      BY <1>1 DEF Start, Ack
    <2> QED
      BY <2>1, <2>2
  <1>2. CASE BootPhase
    BY <1>2 DEF BootPhase, Listed, fw, http
  <1>3. CASE Stop
    BY <1>3, EmptyTable, ConstantsOK DEF Stop, Limit
  <1>4. ASSUME NEW n \in Name, BootEntry(n) PROVE TypeOK'
    <2>1. BootList[n] \in Rule
      BY <1>4, BootListRule DEF BootEntry, Listed
    <2>2. CASE ~BlockFits(AddrOf[n])
      BY <1>4, <2>2 DEF BootEntry, fw, http
    <2>3. CASE BlockFits(AddrOf[n])
      <3> DEFINE e == BootList[n]
                 set == Settable(n, e)
                 r == [reason |-> e.reason, limit |-> [k \in Kind |->
                         IF k \in set THEN e.limit[k] ELSE rules[n].limit[k]]]
      <3>1. /\ blocklist' = [blocklist EXCEPT ![AddrOf[n]] = e.reason]
            /\ limits' = [k \in Kind |-> IF k \in set
                 THEN [limits[k] EXCEPT ![AddrOf[n]] = e.limit[k]]
                 ELSE limits[k]]
            /\ rules' = [rules EXCEPT ![n] = r]
            /\ todo' = todo \ {n}
            /\ UNCHANGED <<phase, disk, http, acked>>
        BY <1>4, <2>3 DEF BootEntry
      <3>2. r \in Rule
        BY <2>1, BootRule DEF Settable
      <3>3. e.reason \in Reason /\ e.limit \in [Kind -> Limit]
        BY <2>1 DEF Rule, Limits
      <3> HIDE DEF e, set, r
      <3>4. blocklist' \in [Addr -> Reason \cup {"absent"}]
        BY <3>1, <3>3, ConstantsOK
      <3>5. limits' \in [Kind -> [Addr -> Limit]]
        BY <3>1, <3>3, ConstantsOK
      <3>6. rules' \in Table
        BY <3>1, <3>2 DEF Table, MaybeRule
      <3> QED
        BY <3>1, <3>4, <3>5, <3>6 DEF http
    <2> QED
      BY <2>2, <2>3
  <1>5. ASSUME NEW n \in Name, NEW r \in Reason, BlockWithReason(n, r)
        PROVE  /\ blocklist' \in [Addr -> Reason \cup {"absent"}]
               /\ limits' \in [Kind -> [Addr -> Limit]]
               /\ rules' \in Table
    BY <1>5, WithReason, ConstantsOK DEF BlockWithReason
  <1>6. ASSUME NEW n \in Name, Unblock(n)
        PROVE  /\ blocklist' \in [Addr -> Reason \cup {"absent"}]
               /\ limits' \in [Kind -> [Addr -> Limit]]
               /\ rules' \in Table
    BY <1>6, ConstantsOK DEF Unblock, Table, MaybeRule
  <1>7. ASSUME NEW n \in Name, NEW k \in Kind, NEW l \in Limit, SetLimit(k, n, l)
        PROVE  /\ blocklist' \in [Addr -> Reason \cup {"absent"}]
               /\ limits' \in [Kind -> [Addr -> Limit]]
               /\ rules' \in Table
    <2>1. rules' \in Table
      BY <1>7, WithLimitOfRule DEF SetLimit, Noted
    <2> QED
      BY <1>7, <2>1, ConstantsOK DEF SetLimit, WithLimit
  <1>8. ASSUME NEW n \in Name, NEW r \in AutoReason, AutoBlock(n, r)
        PROVE  TypeOK'
    BY <1>5, <1>8 DEF AutoBlock, boot, http, Reason, Ack
  <1>9. ASSUME NEW n \in Name, AutoUnblock(n) PROVE TypeOK'
    BY <1>6, <1>9 DEF AutoUnblock, boot, http, Ack
  <1>10. ASSUME NEW n \in Name, NEW k \in Kind, NEW l \in Limit,
                HandleLimit(k, n, l)
         PROVE  TypeOK'
    BY <1>7, <1>10 DEF HandleLimit, boot, http
  <1>11. ASSUME NEW h \in Handler, NEW n \in Name, NEW lim \in Limits,
                CreateBlock(h, n, lim)
         PROVE  TypeOK'
    <2>1. BlockWithReason(n, "manual") /\ "manual" \in Reason
      BY <1>11 DEF CreateBlock, Reason
    <2> QED
      BY <1>5, <1>11, <2>1 DEF CreateBlock, Goto, boot, Request
  <1>12. ASSUME NEW h \in Handler, NEW k \in Kind, CreateLimit(h, k)
         PROVE  TypeOK'
    <2>1. req[h] \in Request
      <3>1. req[h].limit[k] > 0
        BY <1>12 DEF CreateLimit, Asked
      <3> QED
        BY <3>1 DEF NoReq, NoLimits
    <2>2. req[h].ip \in Name /\ req[h].limit[k] \in Limit
      BY <2>1 DEF Request, Limits
    <2>3. CASE ~LimitOK(k, req[h].ip, req[h].limit[k])
      BY <1>12, <2>3 DEF CreateLimit, Goto, boot, fw, SetLimit
    <2>4. CASE SetLimit(k, req[h].ip, req[h].limit[k])
      <3> DEFINE q == [req[h] EXCEPT !.limit[k] = 0]
           lim == [req[h].limit EXCEPT ![k] = 0]
      <3>3. lim \in Limits
        BY <2>1, ConstantsOK DEF Request, Limits, Limit
      <3>4. q = [ip |-> req[h].ip, want |-> req[h].want, limit |-> lim]
        BY <2>1 DEF Request
      <3> HIDE DEF lim
      <3>1. q \in Request
        BY <2>1, <3>3, <3>4 DEF Request
      <3>2. req' = [req EXCEPT ![h] = q] /\ UNCHANGED <<pc, disk, snap, boot, acked>>
        BY <1>12, <2>4 DEF CreateLimit, SetLimit
      <3> HIDE DEF q
      <3> QED
        BY <1>7, <2>2, <2>4, <3>1, <3>2 DEF boot
    <2> QED
      BY <1>12, <2>3, <2>4 DEF CreateLimit
  <1>13. ASSUME NEW h \in Handler, CreatePersist(h) PROVE TypeOK'
    BY <1>13 DEF CreatePersist, Goto, fw, boot
  <1>14. ASSUME NEW h \in Handler, NEW n \in Name, DeleteUnblock(h, n)
         PROVE  TypeOK'
    <2>1. NoLimits \in Limits
      BY ConstantsOK DEF NoLimits, Limits, Limit
    <2> QED
      BY <1>6, <1>14, <2>1 DEF DeleteUnblock, Goto, boot, Request
  <1>15. ASSUME NEW h \in Handler, PersistList(h) PROVE TypeOK'
    BY <1>15 DEF PersistList, Goto, fw, boot
  <1>16. ASSUME NEW h \in Handler, PersistSave(h) PROVE TypeOK'
    <2>1. /\ disk' \in Table /\ snap' \in [Handler -> Table]
          /\ req' \in [Handler -> Request \cup {NoReq}]
          /\ pc' \in [Handler -> {"idle", "limit", "list", "save"}]
      BY <1>16, EmptyTable DEF PersistSave, Goto
    <2>2. /\ Answer(h, TRUE) \in Ack /\ Answer(h, FALSE) \in Ack
          /\ Answer(h, ~Overtaken(h)) \in {Answer(h, TRUE), Answer(h, FALSE)}
      <3>1. req[h].want \in {"none", "blocked", "unblocked"}
        BY DEF Request, NoReq
      <3> QED
        BY <3>1 DEF Answer, Ack
    <2>3. acked' \in [Name -> Ack \cup Handler]
      <3>1. PICK w \in {Answer(h, TRUE), Answer(h, FALSE)} :
              acked' = [acked EXCEPT ![req[h].ip] = IF @ = h THEN w ELSE @]
        BY <1>16, <2>2 DEF PersistSave, Acknowledge
      <3>2. w \in Ack
        BY <2>2
      <3> QED
        BY <3>1, <3>2
    <2> QED
      BY <1>16, <2>1, <2>3 DEF PersistSave, fw, boot
  <1>17. CASE UNCHANGED vars
    BY <1>17 DEF vars, fw, boot, http
  <1> QED
    BY <1>1, <1>2, <1>3, <1>4, <1>8, <1>9, <1>10, <1>11, <1>12, <1>13, <1>14,
       <1>15, <1>16, <1>17 DEF Next
-----------------------------------------------------------------------------
(* The boot loops run alone, over the entries of the list they were given.  *)

BootInv ==
  /\ phase # "serving" => \A h \in Handler : pc[h] = "idle"
  /\ phase \in {"down", "serving"} => todo = {}
  /\ todo \subseteq Listed(BootList)

LEMMA BootStep == ASSUME TypeOK, BootInv, [Next]_vars PROVE BootInv'
  <1> USE DEF BootInv, BootList, Listed
  <1>1. CASE Start \/ BootPhase \/ Stop
    BY <1>1 DEF Start, BootPhase, Stop, http, TypeOK
  <1>2. ASSUME NEW n \in Name, BootEntry(n) PROVE BootInv'
    <2>1. /\ todo' = todo \ {n} /\ n \in todo
          /\ UNCHANGED <<phase, disk, pc>>
      BY <1>2 DEF BootEntry, http
    <2> QED
      BY <2>1
  <1>3. ASSUME NEW n \in Name, NEW r \in AutoReason, AutoBlock(n, r)
        PROVE  BootInv'
    BY <1>3 DEF AutoBlock, boot, http
  <1>4. ASSUME NEW n \in Name, AutoUnblock(n) PROVE BootInv'
    BY <1>4 DEF AutoUnblock, boot, http
  <1>5. ASSUME NEW n \in Name, NEW k \in Kind, NEW l \in Limit,
               HandleLimit(k, n, l)
        PROVE  BootInv'
    BY <1>5 DEF HandleLimit, boot, http
  <1>6. ASSUME NEW h \in Handler, NEW n \in Name, NEW lim \in Limits,
               CreateBlock(h, n, lim)
        PROVE  BootInv'
    BY <1>6 DEF CreateBlock, Begin, boot
  <1>7. ASSUME NEW h \in Handler, NEW n \in Name, DeleteUnblock(h, n)
        PROVE  BootInv'
    BY <1>7 DEF DeleteUnblock, Begin, boot
  <1>8. ASSUME NEW h \in Handler, NEW k \in Kind, CreateLimit(h, k)
        PROVE  BootInv'
    <2>1. phase = "serving" /\ UNCHANGED <<phase, todo>>
      BY <1>8 DEF CreateLimit, boot
    <2> QED
      BY <2>1
  <1>9. ASSUME NEW h \in Handler,
               CreatePersist(h) \/ PersistList(h) \/ PersistSave(h)
        PROVE  BootInv'
    <2>1. phase = "serving" /\ UNCHANGED <<phase, todo>>
      BY <1>9 DEF CreatePersist, PersistList, PersistSave, boot
    <2> QED
      BY <2>1
  <1>10. CASE UNCHANGED vars
    BY <1>10 DEF vars
  <1> HIDE DEF BootInv, BootList, Listed
  <1> QED
    BY <1>1, <1>2, <1>3, <1>4, <1>5, <1>6, <1>7, <1>8, <1>9, <1>10 DEF Next

\* Every reachable state has the types, and the boot loops only ever meet
\* entries of the file or of the policy.
THEOREM TypeCorrect == Spec => [](TypeOK /\ BootInv)
  <1>1. Init => TypeOK /\ BootInv
    <2>1. "none" \in Ack
      BY DEF Ack
    <2>2. 0 \in Limit
      BY ConstantsOK DEF Limit
    <2>3. Init => BootInv
      BY DEF Init, BootInv, BootList, Listed, Empty
    <2>4. Init => TypeOK
      BY EmptyTable, <2>1, <2>2 DEF Init, TypeOK, Empty
    <2> QED
      BY <2>3, <2>4
  <1>2. TypeOK /\ BootInv /\ [Next]_vars => TypeOK' /\ BootInv'
    BY TypeStep, BootStep DEF BootInv
  <1> QED
    BY <1>1, <1>2, PTL DEF Spec

-----------------------------------------------------------------------------
(* Agreement of the mirror with the kernel, when names are canonical.  The  *)
(* two conjuncts are inductive together with the types: a step changes the  *)
(* two sides at one name, which by Canonical is one address.                *)

MirrorInv == MirrorAgrees /\ ListedLimitsEnforced

LEMMA MirrorBlock ==
  ASSUME TypeOK, Canonical, MirrorInv, NEW n \in Name, NEW r \in Reason,
         BlockWithReason(n, r)
  PROVE  MirrorInv'
  <1>1. /\ rules'[n].reason = r /\ rules'[n].limit = rules[n].limit
        /\ \A m \in Name : m # n => rules'[m] = rules[m]
    BY WithReason DEF BlockWithReason, TypeOK
  <1>2. /\ AddrOf[n] \in Addr
        /\ blocklist'[AddrOf[n]] = r
        /\ \A a \in Addr : a # AddrOf[n] => blocklist'[a] = blocklist[a]
        /\ limits' = limits
    BY ConstantsOK DEF BlockWithReason, TypeOK
  <1>3. \A m \in Name : AddrOf[m] \in Addr /\ (m # n => AddrOf[m] # AddrOf[n])
    BY ConstantsOK DEF Canonical
  <1>4. r # "absent"
    BY ConstantsOK DEF Reason
  <1> QED
    BY <1>1, <1>2, <1>3, <1>4
    DEF MirrorInv, MirrorAgrees, ListedLimitsEnforced, Noted

LEMMA MirrorUnblock ==
  ASSUME TypeOK, Canonical, MirrorInv, NEW n \in Name, Unblock(n)
  PROVE  MirrorInv'
  <1>1. /\ rules'[n] = NoRule
        /\ \A m \in Name : m # n => rules'[m] = rules[m]
    BY DEF Unblock, TypeOK, Table
  <1>2. /\ AddrOf[n] \in Addr
        /\ blocklist'[AddrOf[n]] = "absent"
        /\ \A a \in Addr : a # AddrOf[n] => blocklist'[a] = blocklist[a]
        /\ limits' = limits
    BY ConstantsOK DEF Unblock, TypeOK
  <1>3. \A m \in Name : AddrOf[m] \in Addr /\ (m # n => AddrOf[m] # AddrOf[n])
    BY ConstantsOK DEF Canonical
  <1>4. NoRule.reason = "absent" /\ \A k \in Kind : ~(NoRule.limit[k] > 0)
    BY DEF NoRule, NoLimits
  <1> QED
    BY <1>1, <1>2, <1>3, <1>4
    DEF MirrorInv, MirrorAgrees, ListedLimitsEnforced, Noted

LEMMA MirrorLimit ==
  ASSUME TypeOK, Canonical, MirrorInv,
         NEW n \in Name, NEW k \in Kind, NEW l \in Limit, SetLimit(k, n, l)
  PROVE  MirrorInv'
  <1>1. /\ AddrOf[n] \in Addr /\ blocklist' = blocklist
        /\ \A j \in Kind, a \in Addr : limits'[j][a] =
             IF j = k /\ a = AddrOf[n] THEN l ELSE limits[j][a]
    BY ConstantsOK DEF SetLimit, WithLimit, TypeOK
  <1>2. \A m \in Name : AddrOf[m] \in Addr /\ (m # n => AddrOf[m] # AddrOf[n])
    BY ConstantsOK DEF Canonical
  <1>3. CASE rules[n].reason # "absent"
    <2>1. /\ \A m \in Name : rules'[m].reason = rules[m].reason
          /\ \A m \in Name, j \in Kind : rules'[m].limit[j] =
               IF m = n /\ j = k THEN l ELSE rules[m].limit[j]
      <3>1. rules \in Table /\ rules' = [rules EXCEPT ![n].limit[k] = l]
        BY <1>3 DEF SetLimit, Noted, TypeOK
      <3> QED
        BY <1>3, <3>1, WithLimitOfRule
    <2> QED
      BY <1>1, <1>2, <2>1
      DEF MirrorInv, MirrorAgrees, ListedLimitsEnforced, Noted
  <1>4. CASE rules[n].reason = "absent"
    <2>1. rules' = rules
      BY <1>4 DEF SetLimit, Noted
    <2>2. \A j \in Kind : ~(rules[n].limit[j] > 0)
      BY <1>4, ReasonOfRule DEF TypeOK, Table, NoRule, NoLimits
    <2> QED
      BY <1>1, <1>2, <2>1, <2>2
      DEF MirrorInv, MirrorAgrees, ListedLimitsEnforced, Noted
  <1> QED
    BY <1>3, <1>4

LEMMA MirrorBoot ==
  ASSUME TypeOK, BootInv, Canonical, MirrorInv, NEW n \in Name, BootEntry(n)
  PROVE  MirrorInv'
  <1>1. CASE ~BlockFits(AddrOf[n])
    BY <1>1 DEF BootEntry, fw, MirrorInv, MirrorAgrees, ListedLimitsEnforced,
                Noted
  <1>2. CASE BlockFits(AddrOf[n])
    <2> DEFINE e == BootList[n]
               set == Settable(n, e)
               r == [reason |-> e.reason, limit |-> [k \in Kind |->
                       IF k \in set THEN e.limit[k] ELSE rules[n].limit[k]]]
    <2>1. /\ blocklist' = [blocklist EXCEPT ![AddrOf[n]] = e.reason]
          /\ limits' = [k \in Kind |-> IF k \in set
               THEN [limits[k] EXCEPT ![AddrOf[n]] = e.limit[k]]
               ELSE limits[k]]
          /\ rules' = [rules EXCEPT ![n] = r]
      BY <1>2 DEF BootEntry
    <2>2. e \in Rule
      BY BootListRule DEF BootEntry, BootInv, Listed
    <2>3. e.reason # "absent"
      BY <2>2, ConstantsOK DEF Rule, Reason
    <2>4. /\ r.reason = e.reason
          /\ \A k \in Kind : r.limit[k] =
               IF k \in set THEN e.limit[k] ELSE rules[n].limit[k]
      OBVIOUS
    <2> HIDE DEF e, set, r
    <2>5. /\ AddrOf[n] \in Addr
          /\ \A a \in Addr : blocklist'[a] =
               IF a = AddrOf[n] THEN e.reason ELSE blocklist[a]
          /\ \A k \in Kind, a \in Addr : limits'[k][a] =
               IF k \in set /\ a = AddrOf[n] THEN e.limit[k] ELSE limits[k][a]
      BY <2>1, ConstantsOK DEF TypeOK
    <2>6. /\ rules'[n] = r
          /\ \A m \in Name : m # n => rules'[m] = rules[m]
      BY <2>1 DEF TypeOK, Table
    <2>7. \A m \in Name : AddrOf[m] \in Addr /\ (m # n => AddrOf[m] # AddrOf[n])
      BY ConstantsOK DEF Canonical
    <2>8. MirrorAgrees'
      BY <2>3, <2>4, <2>5, <2>6, <2>7 DEF MirrorInv, MirrorAgrees, Noted
    <2>9. ListedLimitsEnforced'
      BY <2>4, <2>5, <2>6, <2>7 DEF MirrorInv, ListedLimitsEnforced
    <2> QED
      BY <2>8, <2>9 DEF MirrorInv
  <1> QED
    BY <1>1, <1>2

LEMMA MirrorStep ==
  ASSUME TypeOK, BootInv, Canonical, MirrorInv, [Next]_vars
  PROVE  MirrorInv'
  <1>1. CASE UNCHANGED fw
    BY <1>1 DEF fw, MirrorInv, MirrorAgrees, ListedLimitsEnforced, Noted
  <1>2. CASE Start \/ BootPhase
    BY <1>1, <1>2 DEF Start, BootPhase
  <1>3. CASE Stop
    BY <1>3 DEF Stop, MirrorInv, MirrorAgrees, ListedLimitsEnforced, Noted,
                Empty, NoRule, NoLimits
  <1>4. ASSUME NEW n \in Name, BootEntry(n) PROVE MirrorInv'
    BY <1>4, MirrorBoot
  <1>5. ASSUME NEW n \in Name, NEW r \in AutoReason, AutoBlock(n, r)
        PROVE  MirrorInv'
    BY <1>5, MirrorBlock DEF AutoBlock, Reason
  <1>6. ASSUME NEW n \in Name, AutoUnblock(n) PROVE MirrorInv'
    BY <1>6, MirrorUnblock DEF AutoUnblock
  <1>7. ASSUME NEW n \in Name, NEW k \in Kind, NEW l \in Limit,
               HandleLimit(k, n, l)
        PROVE  MirrorInv'
    BY <1>7, MirrorLimit DEF HandleLimit
  <1>8. ASSUME NEW h \in Handler, NEW n \in Name, NEW lim \in Limits,
               CreateBlock(h, n, lim)
        PROVE  MirrorInv'
    BY <1>8, MirrorBlock DEF CreateBlock, Reason
  <1>9. ASSUME NEW h \in Handler, NEW n \in Name, DeleteUnblock(h, n)
        PROVE  MirrorInv'
    BY <1>9, MirrorUnblock DEF DeleteUnblock
  <1>10. ASSUME NEW h \in Handler, NEW k \in Kind, CreateLimit(h, k)
         PROVE  MirrorInv'
    <2>1. CASE UNCHANGED fw
      BY <1>1, <2>1
    <2>2. CASE SetLimit(k, req[h].ip, req[h].limit[k])
      <3>1. req[h].limit[k] > 0
        BY <1>10 DEF CreateLimit, Asked
      <3>2. req[h].ip \in Name /\ req[h].limit[k] \in Limit
        BY <3>1 DEF TypeOK, Request, Limits, NoReq, NoLimits
      <3> QED
        BY <2>2, <3>2, MirrorLimit
    <2> QED
      BY <1>10, <2>1, <2>2 DEF CreateLimit
  <1>11. ASSUME NEW h \in Handler,
                CreatePersist(h) \/ PersistList(h) \/ PersistSave(h)
         PROVE  MirrorInv'
    BY <1>1, <1>11 DEF CreatePersist, PersistList, PersistSave
  <1>12. CASE UNCHANGED vars
    BY <1>1, <1>12 DEF vars, fw
  <1> QED
    BY <1>2, <1>3, <1>4, <1>5, <1>6, <1>7, <1>8, <1>9, <1>10, <1>11, <1>12
    DEF Next

\* With canonical names the list the API returns is what the kernel enforces,
\* for any number of names, handlers and restarts and any map size.
THEOREM MirrorCorrect == ASSUME Canonical PROVE Spec => []MirrorAgrees
  <1>1. Init => MirrorInv
    BY DEF Init, MirrorInv, MirrorAgrees, ListedLimitsEnforced, Noted, Empty,
           NoRule, NoLimits
  <1>2. MirrorInv /\ TypeOK /\ BootInv /\ [Next]_vars => MirrorInv'
    BY MirrorStep
  <1>3. MirrorInv => MirrorAgrees
    BY DEF MirrorInv
  <1> QED
    BY <1>1, <1>2, <1>3, TypeCorrect, PTL DEF Spec

\* With canonical names a listed limit is the enforced one.
THEOREM LimitsCorrect == ASSUME Canonical PROVE Spec => []ListedLimitsEnforced
  <1>1. Init => MirrorInv
    BY DEF Init, MirrorInv, MirrorAgrees, ListedLimitsEnforced, Noted, Empty,
           NoRule, NoLimits
  <1>2. MirrorInv /\ TypeOK /\ BootInv /\ [Next]_vars => MirrorInv'
    BY MirrorStep
  <1>3. MirrorInv => ListedLimitsEnforced
    BY DEF MirrorInv
  <1> QED
    BY <1>1, <1>2, <1>3, TypeCorrect, PTL DEF Spec
-----------------------------------------------------------------------------
(* What was saved comes back.  A list was enforced as a whole when it was   *)
(* taken, so it fits the maps of the next process: no entry of it is        *)
(* refused by the restore loop.                                             *)

Blocked(F) == {a \in F : blocklist[a] # "absent"}
Limited(k) == {a \in Addr : limits[k][a] # 0}

\* The kernel maps hold what they have room for, and no limit of IPv6.
MapsFit ==
  /\ \A a \in Addr : Cardinality(Blocked(SameFamily(a))) <= MaxRules
  /\ \A k \in Kind : Cardinality(Limited(k)) <= MaxRules
  /\ \A k \in Kind, a \in V6 : limits[k][a] = 0

ListedIn(t, F) == {a \in F : \E n \in Name : AddrOf[n] = a /\ t[n] # NoRule}
LimitedIn(t, k) == {a \in Addr : \E n \in Name : AddrOf[n] = a /\ t[n].limit[k] # 0}

\* Table t would fit empty maps.
Fits(t) ==
  /\ \A a \in Addr : Cardinality(ListedIn(t, SameFamily(a))) <= MaxRules
  /\ \A k \in Kind : Cardinality(LimitedIn(t, k)) <= MaxRules
  /\ \A n \in Name, k \in Kind : t[n].limit[k] # 0 => AddrOf[n] \notin V6

SavedFits == Fits(disk) /\ \A h \in Handler : pc[h] = "save" => Fits(snap[h])

\* The restore loop starts from nothing and has put back what it has passed.
RestoreInv ==
  /\ phase = "down" =>
       /\ rules = Empty
       /\ \A a \in Addr : blocklist[a] = "absent" /\ \A k \in Kind : limits[k][a] = 0
  /\ phase = "restore" =>
       /\ \A n \in Name : rules[n] = IF n \in todo THEN NoRule ELSE disk[n]
       /\ \A n \in Name, k \in Kind : limits[k][AddrOf[n]] = rules[n].limit[k]
       /\ \A k \in Kind : \A a \in Limited(k) : \E n \in Name : AddrOf[n] = a

\* A request under way for the name it was last that spoke of: its change is in
\* force, and in the list it is about to save.
Pending(h, n) == pc[h] # "idle" /\ req[h].ip = n /\ acked[n] = h

PendingInv ==
  \A h \in Handler, n \in Name : Pending(h, n) =>
    /\ req[h].want = "blocked" => Noted(n) /\ (pc[h] = "save" => snap[h][n] # NoRule)
    /\ req[h].want = "unblocked" => ~Noted(n) /\ (pc[h] = "save" => snap[h][n] = NoRule)

\* What was answered for sure is in the file, in every list about to replace
\* it, and in force unless the restore loop has still to come to it.
AckedInv ==
  \A n \in Name :
    /\ acked[n] = "blocked" =>
         /\ disk[n] # NoRule /\ (phase \in {"policy", "serving"} => Noted(n))
         /\ \A h \in Handler : pc[h] = "save" => snap[h][n] # NoRule
    /\ acked[n] = "unblocked" /\ Policy[n] = NoRule =>
         /\ disk[n] = NoRule /\ ~Noted(n)
         /\ \A h \in Handler : pc[h] = "save" => snap[h][n] = NoRule

SavedInv == MapsFit /\ SavedFits /\ RestoreInv /\ PendingInv /\ AckedInv

LEMMA AddrFinite == ASSUME NEW S \in SUBSET Addr
                    PROVE  IsFiniteSet(S) /\ Cardinality(S) \in Nat
  BY ConstantsOK, FS_Subset, FS_CardinalityType

LEMMA PartFits ==
  ASSUME NEW S \in SUBSET Addr, NEW T \in SUBSET S, Cardinality(S) <= MaxRules
  PROVE  Cardinality(T) <= MaxRules
  <1>1. Cardinality(T) <= Cardinality(S)
    BY AddrFinite, FS_Subset
  <1> QED
    BY <1>1, AddrFinite, ConstantsOK

\* A map with a free place has room for one more key.
LEMMA OneMore ==
  ASSUME NEW S \in SUBSET Addr, NEW T \in SUBSET Addr, NEW a \in Addr,
         T \ {a} \subseteq S, a \in S \/ Cardinality(S) < MaxRules,
         Cardinality(S) <= MaxRules
  PROVE  Cardinality(T) <= MaxRules
  <1>1. CASE a \in S
    <2>1. T \in SUBSET S
      BY <1>1
    <2> QED
      BY <2>1, PartFits
  <1>2. CASE a \notin S
    <2>1. Cardinality(S \cup {a}) = Cardinality(S) + 1
      BY <1>2, AddrFinite, FS_AddElement
    <2>2. Cardinality(S \cup {a}) <= MaxRules
      BY <1>2, <2>1, AddrFinite, ConstantsOK
    <2>3. (S \cup {a}) \in SUBSET Addr /\ T \in SUBSET (S \cup {a})
      OBVIOUS
    <2> QED
      BY <2>2, <2>3, PartFits
  <1> QED
    BY <1>1, <1>2

\* Of a set that fits, all but one leave a free place.
LEMMA AllButOne ==
  ASSUME NEW S \in SUBSET Addr, NEW T \in SUBSET Addr, NEW a \in T,
         S \subseteq T \ {a}, Cardinality(T) <= MaxRules
  PROVE  Cardinality(S) < MaxRules
  <1>1. Cardinality(S \cup {a}) = Cardinality(S) + 1
    BY AddrFinite, FS_AddElement
  <1>2. Cardinality(S \cup {a}) <= Cardinality(T)
    <2>1. (S \cup {a}) \subseteq T
      OBVIOUS
    <2> QED
      BY <2>1, AddrFinite, FS_Subset
  <1>3. Cardinality(S \cup {a}) \in Nat
    <2>1. (S \cup {a}) \in SUBSET Addr
      OBVIOUS
    <2> QED
      BY <2>1, AddrFinite
  <1> QED
    BY <1>1, <1>2, <1>3, AddrFinite, ConstantsOK

LEMMA BlockRoom ==
  ASSUME MapsFit, NEW a \in Addr, BlockFits(a), NEW c \in Addr,
         NEW T \in SUBSET SameFamily(c), T \ {a} \subseteq Blocked(SameFamily(c))
  PROVE  Cardinality(T) <= MaxRules
  <1> DEFINE F == SameFamily(c)
  <1>1. F \subseteq Addr /\ Blocked(F) \in SUBSET Addr /\ T \in SUBSET Addr
    BY ConstantsOK DEF SameFamily, Blocked
  <1>2. Cardinality(Blocked(F)) <= MaxRules
    BY DEF MapsFit
  <1>3. CASE a \in F
    <2>1. SameFamily(a) = F
      BY <1>3 DEF SameFamily
    <2>2. a \in Blocked(F) \/ Cardinality(Blocked(F)) < MaxRules
      BY <1>3, <2>1 DEF BlockFits, Blocked
    <2> QED
      BY <1>1, <1>2, <2>2, OneMore
  <1>4. CASE a \notin F
    <2>1. T \in SUBSET Blocked(F)
      BY <1>4
    <2> QED
      BY <1>1, <1>2, <2>1, PartFits
  <1> QED
    BY <1>3, <1>4

LEMMA LimitRoom ==
  ASSUME MapsFit, NEW k \in Kind, NEW a \in Addr, LimitFits(k, a),
         NEW T \in SUBSET Addr, T \ {a} \subseteq Limited(k)
  PROVE  Cardinality(T) <= MaxRules
  <1>1. Limited(k) \in SUBSET Addr /\ Cardinality(Limited(k)) <= MaxRules
    BY DEF Limited, MapsFit
  <1>2. a \in Limited(k) \/ Cardinality(Limited(k)) < MaxRules
    BY DEF LimitFits, Limited
  <1> QED
    BY <1>1, <1>2, OneMore

\* One call of a Firewall method, or one boot turn, seen from the maps: a block
\* or its removal at one address, and limits at that address.
LEMMA MapsTurn ==
  ASSUME TypeOK, MapsFit, NEW a \in Addr,
         \A c \in Addr \ {a} : blocklist'[c] = blocklist[c],
         blocklist'[a] \in {"absent", blocklist[a]} \/ BlockFits(a),
         \A k \in Kind, c \in Addr \ {a} : limits'[k][c] = limits[k][c],
         \A k \in Kind : \/ limits'[k][a] \in {0, limits[k][a]}
                         \/ a \notin V6 /\ LimitFits(k, a)
  PROVE  MapsFit'
  <1>1. ASSUME NEW c \in Addr
        PROVE  Cardinality(Blocked(SameFamily(c))') <= MaxRules
    <2> DEFINE F == SameFamily(c)
               T == Blocked(F)'
    <2>1. T \in SUBSET F /\ T \ {a} \subseteq Blocked(F) /\ F \subseteq Addr
      BY ConstantsOK DEF Blocked, SameFamily
    <2>2. CASE BlockFits(a)
      BY <2>1, <2>2, BlockRoom
    <2>3. CASE blocklist'[a] \in {"absent", blocklist[a]}
      <3>1. T \in SUBSET Blocked(F) /\ Blocked(F) \in SUBSET Addr
        BY <2>1, <2>3 DEF Blocked
      <3> QED
        BY <3>1, PartFits DEF MapsFit
    <2> QED
      BY <2>2, <2>3
  <1>2. ASSUME NEW k \in Kind PROVE Cardinality(Limited(k)') <= MaxRules
    <2> DEFINE T == Limited(k)'
    <2>1. T \in SUBSET Addr /\ T \ {a} \subseteq Limited(k)
      BY DEF Limited
    <2>2. CASE LimitFits(k, a)
      BY <2>1, <2>2, LimitRoom
    <2>3. CASE limits'[k][a] \in {0, limits[k][a]}
      <3>1. T \in SUBSET Limited(k) /\ Limited(k) \in SUBSET Addr
        BY <2>1, <2>3 DEF Limited
      <3> QED
        BY <3>1, PartFits DEF MapsFit
    <2> QED
      BY <2>2, <2>3
  <1>3. \A k \in Kind, c \in V6 : limits'[k][c] = 0
    BY ConstantsOK DEF MapsFit
  <1> QED
    BY <1>1, <1>2, <1>3 DEF MapsFit, Blocked, Limited, SameFamily

\* A handler that still has a limit to set serves a request.
LEMMA AskedFor ==
  ASSUME TypeOK, NEW h \in Handler, NEW k \in Kind, CreateLimit(h, k)
  PROVE  req[h] \in Request /\ req[h].ip \in Name /\ req[h].limit[k] \in Limit
  <1>1. req[h].limit[k] > 0
    BY DEF CreateLimit, Asked
  <1> QED
    BY <1>1 DEF TypeOK, Request, Limits, NoReq, NoLimits

LEMMA MapsStep ==
  ASSUME TypeOK, MapsFit, [Next]_vars
  PROVE  MapsFit'
  <1> USE DEF TypeOK
  <1>1. CASE UNCHANGED fw
    BY <1>1 DEF fw, MapsFit, Blocked, Limited, SameFamily
  <1>2. CASE Stop
    <2>1. /\ \A a \in Addr : Blocked(SameFamily(a))' = {}
          /\ \A k \in Kind : Limited(k)' = {}
      BY <1>2, ConstantsOK DEF Stop, Blocked, Limited, SameFamily
    <2>2. Cardinality({}) <= MaxRules
      BY FS_EmptySet, ConstantsOK
    <2>3. \A k \in Kind, a \in V6 : limits'[k][a] = 0
      BY <1>2, ConstantsOK DEF Stop
    <2> QED
      BY <2>1, <2>2, <2>3 DEF MapsFit
  <1>3. ASSUME NEW n \in Name, BootEntry(n) PROVE MapsFit'
    <2>1. CASE ~BlockFits(AddrOf[n])
      BY <1>1, <1>3, <2>1 DEF BootEntry
    <2>2. CASE BlockFits(AddrOf[n])
      <3> DEFINE e == BootList[n]
                 set == Settable(n, e)
                 a == AddrOf[n]
      <3>1. /\ blocklist' = [blocklist EXCEPT ![a] = e.reason]
            /\ limits' = [k \in Kind |-> IF k \in set
                 THEN [limits[k] EXCEPT ![a] = e.limit[k]]
                 ELSE limits[k]]
        BY <1>3, <2>2 DEF BootEntry
      <3>2. \A k \in set : a \notin V6 /\ LimitFits(k, a)
        BY DEF Settable, LimitOK
      <3>3. a \in Addr
        BY ConstantsOK
      <3> HIDE DEF e, set, a
      <3>4. \A k \in Kind, c \in Addr : limits'[k][c] =
              IF k \in set /\ c = a THEN e.limit[k] ELSE limits[k][c]
        BY <3>1
      <3>5. \A c \in Addr \ {a} : blocklist'[c] = blocklist[c]
        BY <3>1
      <3>6. BlockFits(a)
        BY <2>2 DEF a
      <3> QED
        BY <3>2, <3>3, <3>4, <3>5, <3>6, MapsTurn
    <2> QED
      BY <2>1, <2>2
  <1>4. ASSUME NEW n \in Name, NEW r \in Reason, BlockWithReason(n, r)
        PROVE  MapsFit'
    <2>1. AddrOf[n] \in Addr /\ BlockFits(AddrOf[n])
      BY <1>4, ConstantsOK DEF BlockWithReason
    <2>2. \A c \in Addr \ {AddrOf[n]} : blocklist'[c] = blocklist[c]
      BY <1>4 DEF BlockWithReason
    <2>3. limits' = limits
      BY <1>4 DEF BlockWithReason
    <2> QED
      BY <2>1, <2>2, <2>3, MapsTurn
  <1>5. ASSUME NEW n \in Name, Unblock(n) PROVE MapsFit'
    <2>1. AddrOf[n] \in Addr /\ blocklist'[AddrOf[n]] = "absent"
      BY <1>5, ConstantsOK DEF Unblock
    <2>2. \A c \in Addr \ {AddrOf[n]} : blocklist'[c] = blocklist[c]
      BY <1>5 DEF Unblock
    <2>3. limits' = limits
      BY <1>5 DEF Unblock
    <2> QED
      BY <2>1, <2>2, <2>3, MapsTurn
  <1>6. ASSUME NEW n \in Name, NEW k \in Kind, NEW l \in Limit, SetLimit(k, n, l)
        PROVE  MapsFit'
    <2>1. AddrOf[n] \in Addr /\ blocklist' = blocklist
      BY <1>6, ConstantsOK DEF SetLimit
    <2>2. \A j \in Kind, c \in Addr : limits'[j][c] =
            IF j = k /\ c = AddrOf[n] THEN l ELSE limits[j][c]
      BY <1>6, <2>1 DEF SetLimit, WithLimit
    <2>3. l = 0 \/ (AddrOf[n] \notin V6 /\ LimitFits(k, AddrOf[n]))
      BY <1>6 DEF SetLimit, LimitOK
    <2> QED
      BY <2>1, <2>2, <2>3, MapsTurn, SMTT(30)
  <1>7. ASSUME NEW n \in Name, NEW r \in AutoReason, AutoBlock(n, r)
        PROVE  MapsFit'
    BY <1>4, <1>7 DEF AutoBlock, Reason
  <1>8. ASSUME NEW h \in Handler, NEW n \in Name, NEW lim \in Limits,
               CreateBlock(h, n, lim)
        PROVE  MapsFit'
    BY <1>4, <1>8 DEF CreateBlock, Reason
  <1>9. ASSUME NEW n \in Name, AutoUnblock(n) PROVE MapsFit'
    BY <1>5, <1>9 DEF AutoUnblock
  <1>10. ASSUME NEW h \in Handler, NEW n \in Name, DeleteUnblock(h, n)
         PROVE  MapsFit'
    BY <1>5, <1>10 DEF DeleteUnblock
  <1>11. ASSUME NEW n \in Name, NEW k \in Kind, NEW l \in Limit,
                HandleLimit(k, n, l)
         PROVE  MapsFit'
    BY <1>6, <1>11 DEF HandleLimit
  <1>12. ASSUME NEW h \in Handler, NEW k \in Kind, CreateLimit(h, k)
         PROVE  MapsFit'
    <2>1. CASE UNCHANGED fw
      BY <1>1, <2>1
    <2>2. CASE SetLimit(k, req[h].ip, req[h].limit[k])
      BY <1>6, <1>12, <2>2, AskedFor
    <2> QED
      BY <1>12, <2>1, <2>2 DEF CreateLimit
  <1>13. ASSUME NEW h \in Handler,
                CreatePersist(h) \/ PersistList(h) \/ PersistSave(h)
         PROVE  MapsFit'
    BY <1>1, <1>13 DEF CreatePersist, PersistList, PersistSave
  <1>14. CASE Start \/ BootPhase
    BY <1>1, <1>14 DEF Start, BootPhase
  <1>15. CASE UNCHANGED vars
    BY <1>1, <1>15 DEF vars, fw
  <1> HIDE DEF TypeOK
  <1> QED
    BY <1>2, <1>3, <1>7, <1>8, <1>9, <1>10, <1>11, <1>12, <1>13, <1>14, <1>15
    DEF Next

\* A list taken now would come back as it is.
LEMMA RulesFit ==
  ASSUME TypeOK, MirrorInv, MapsFit
  PROVE  Fits(rules)
  <1>1. \A n \in Name : AddrOf[n] \in Addr /\ rules[n] \in MaybeRule
    BY ConstantsOK DEF TypeOK, Table
  <1>2. ASSUME NEW a \in Addr
        PROVE  Cardinality(ListedIn(rules, SameFamily(a))) <= MaxRules
    <2> DEFINE F == SameFamily(a)
    <2>1. Blocked(F) \in SUBSET Addr
      BY ConstantsOK DEF Blocked, SameFamily
    <2>2. \A n \in Name : rules[n] # NoRule => blocklist[AddrOf[n]] # "absent"
      BY <1>1, ReasonOfRule DEF MirrorInv, MirrorAgrees, Noted
    <2>3. ListedIn(rules, F) \in SUBSET Blocked(F)
      BY <2>2 DEF ListedIn, Blocked
    <2> QED
      BY <2>1, <2>3, PartFits DEF MapsFit
  <1>3. ASSUME NEW n \in Name, NEW k \in Kind, rules[n].limit[k] # 0
        PROVE  limits[k][AddrOf[n]] # 0
    <2>1. rules[n].limit[k] \in Limit
      BY <1>1, ReasonOfRule DEF Limits
    <2>2. rules[n].limit[k] > 0
      BY <1>3, <2>1, ConstantsOK DEF Limit
    <2> QED
      BY <1>3, <2>2 DEF MirrorInv, ListedLimitsEnforced
  <1>4. ASSUME NEW k \in Kind PROVE Cardinality(LimitedIn(rules, k)) <= MaxRules
    <2>1. LimitedIn(rules, k) \in SUBSET Limited(k) /\ Limited(k) \in SUBSET Addr
      BY <1>3 DEF LimitedIn, Limited
    <2> QED
      BY <2>1, PartFits DEF MapsFit
  <1>5. \A n \in Name, k \in Kind : rules[n].limit[k] # 0 => AddrOf[n] \notin V6
    BY <1>3 DEF MapsFit
  <1> QED
    BY <1>2, <1>4, <1>5 DEF Fits

LEMMA SavedStep ==
  ASSUME TypeOK, MirrorInv, MapsFit, SavedFits, [Next]_vars
  PROVE  SavedFits'
  <1> USE DEF TypeOK, SavedFits
  <1>1. CASE UNCHANGED <<disk, snap>> /\ \A h \in Handler : pc'[h] = "save" => pc[h] = "save"
    BY <1>1
  <1>2. ASSUME NEW h \in Handler, PersistList(h) PROVE SavedFits'
    BY <1>2, RulesFit DEF PersistList, Goto
  <1>3. ASSUME NEW h \in Handler, PersistSave(h) PROVE SavedFits'
    <2>1. disk' \in {disk, snap[h]} /\ pc[h] = "save"
      BY <1>3 DEF PersistSave
    <2>2. \A g \in Handler : pc'[g] = "save" => snap'[g] = snap[g] /\ pc[g] = "save"
      BY <1>3 DEF PersistSave, Goto
    <2> QED
      BY <2>1, <2>2
  <1>4. CASE Stop
    BY <1>4 DEF Stop
  <1>5. ASSUME NEW h \in Handler, NEW k \in Kind, CreateLimit(h, k)
        PROVE  SavedFits'
    BY <1>1, <1>5 DEF CreateLimit, Goto
  <1>6. ASSUME NEW h \in Handler, CreatePersist(h)
        PROVE  SavedFits'
    BY <1>1, <1>6 DEF CreatePersist, Goto
  <1>7. ASSUME NEW h \in Handler, NEW n \in Name, NEW lim \in Limits,
               CreateBlock(h, n, lim)
        PROVE  SavedFits'
    BY <1>1, <1>7 DEF CreateBlock, Goto
  <1>8. ASSUME NEW h \in Handler, NEW n \in Name, DeleteUnblock(h, n)
        PROVE  SavedFits'
    BY <1>1, <1>8 DEF DeleteUnblock, Goto
  <1>9. CASE UNCHANGED <<disk, http>>
    BY <1>9 DEF http
  <1> HIDE DEF TypeOK, SavedFits
  <1> QED
    BY <1>2, <1>3, <1>4, <1>5, <1>6, <1>7, <1>8, <1>9 DEF Next, vars, http,
       Start, BootPhase, BootEntry, AutoUnblock, AutoBlock, HandleLimit

\* No entry of a list that fits is refused when its turn comes.
LEMMA RestoreTurn ==
  ASSUME TypeOK, Canonical, BootInv, MirrorInv, Fits(disk), RestoreInv,
         phase = "restore", NEW n \in todo
  PROVE  /\ n \in Name /\ BootList[n] = disk[n]
         /\ BlockFits(AddrOf[n])
         /\ Settable(n, disk[n]) = {k \in Kind : disk[n].limit[k] > 0}
  <1>1. /\ n \in Name /\ AddrOf[n] \in Addr /\ BootList[n] = disk[n]
        /\ disk[n] # NoRule /\ rules[n] = NoRule
    BY ConstantsOK DEF BootInv, BootList, Listed, RestoreInv, TypeOK
  <1>2. BlockFits(AddrOf[n])
    <2> DEFINE F == SameFamily(AddrOf[n])
               S == Blocked(F)
               T == ListedIn(disk, F)
    <2>1. AddrOf[n] \in F /\ F \subseteq Addr
      BY <1>1, ConstantsOK DEF SameFamily
    <2>2. AddrOf[n] \in T
      BY <1>1, <2>1 DEF ListedIn
    <2>3. ASSUME NEW a \in S PROVE a \in T /\ a # AddrOf[n]
      <3>1. PICK m \in Name : AddrOf[m] = a /\ rules[m].reason # "absent"
        BY <2>1, <2>3 DEF Blocked, MirrorInv, MirrorAgrees, Noted
      <3>2. rules[m] # NoRule
        BY <3>1 DEF NoRule
      <3>3. disk[m] # NoRule /\ m # n
        BY <1>1, <3>2 DEF RestoreInv
      <3> QED
        BY <1>1, <2>1, <2>3, <3>1, <3>3 DEF Canonical, ListedIn, Blocked
    <2>4. Cardinality(T) <= MaxRules
      BY <1>1 DEF Fits
    <2>5. S \in SUBSET Addr /\ T \in SUBSET Addr /\ S \subseteq T \ {AddrOf[n]}
      BY <2>1, <2>3 DEF Blocked, ListedIn
    <2>6. Cardinality(S) < MaxRules
      BY <2>2, <2>4, <2>5, AllButOne
    <2> QED
      BY <2>6 DEF BlockFits, Blocked
  <1>3. ASSUME NEW k \in Kind, disk[n].limit[k] > 0
        PROVE  LimitOK(k, n, disk[n].limit[k])
    <2> DEFINE S == Limited(k)
               T == LimitedIn(disk, k)
    <2>1. disk[n].limit[k] # 0
      BY <1>3
    <2>2. AddrOf[n] \in T /\ AddrOf[n] \notin V6
      BY <1>1, <2>1 DEF LimitedIn, Fits
    <2>3. limits[k][AddrOf[n]] = 0
      BY <1>1 DEF RestoreInv, NoRule, NoLimits
    <2>4. ASSUME NEW a \in S PROVE a \in T /\ a # AddrOf[n]
      <3>1. PICK m \in Name : AddrOf[m] = a
        BY <2>4 DEF RestoreInv
      <3>2. rules[m].limit[k] # 0
        BY <2>4, <3>1 DEF RestoreInv, Limited
      <3>3. disk[m].limit[k] # 0
        BY <3>2 DEF RestoreInv, NoRule, NoLimits
      <3>4. a \in Addr /\ limits[k][a] # 0
        BY <2>4 DEF Limited
      <3> QED
        BY <2>3, <3>1, <3>3, <3>4 DEF LimitedIn
    <2>5. S \in SUBSET Addr /\ T \in SUBSET Addr /\ S \subseteq T \ {AddrOf[n]}
      BY <2>4 DEF Limited, LimitedIn
    <2>6. Cardinality(T) <= MaxRules
      BY DEF Fits
    <2>7. Cardinality(S) < MaxRules
      BY <2>2, <2>5, <2>6, AllButOne
    <2> QED
      BY <2>2, <2>7 DEF LimitOK, LimitFits, Limited
  <1> QED
    BY <1>1, <1>2, <1>3 DEF Settable

LEMMA RestoreStep ==
  ASSUME TypeOK, Canonical, BootInv, MirrorInv, SavedFits, RestoreInv, [Next]_vars
  PROVE  RestoreInv'
  <1> USE DEF RestoreInv
  <1>1. CASE phase' \notin {"down", "restore"}
    BY <1>1
  <1>2. CASE Stop
    BY <1>2 DEF Stop
  <1>3. CASE Start /\ phase' = "restore"
    <2>1. /\ rules' = Empty /\ disk' = disk /\ limits' = limits
          /\ phase' = "restore" /\ todo' = Listed(disk)
          /\ \A k \in Kind, a \in Addr : limits[k][a] = 0
      BY <1>3 DEF Start, fw
    <2>2. \A n \in Name : Empty[n] = NoRule /\ AddrOf[n] \in Addr
      BY ConstantsOK DEF Empty
    <2>3. \A k \in Kind : NoRule.limit[k] = 0
      BY DEF NoRule, NoLimits
    <2>4. \A k \in Kind : Limited(k)' = {}
      BY <2>1 DEF Limited
    <2> QED
      BY <2>1, <2>2, <2>3, <2>4 DEF Listed
  <1>12. CASE Start
    BY <1>1, <1>3, <1>12 DEF Start
  <1>4. ASSUME NEW n \in Name, BootEntry(n), phase = "restore"
        PROVE  RestoreInv'
    <2> DEFINE e == disk[n]
               r == [reason |-> e.reason, limit |-> [k \in Kind |->
                       IF e.limit[k] > 0 THEN e.limit[k] ELSE rules[n].limit[k]]]
    <2>1. n \in todo /\ Fits(disk)
      BY <1>4 DEF BootEntry, SavedFits
    <2>2. /\ BootList[n] = e /\ BlockFits(AddrOf[n])
          /\ Settable(n, e) = {k \in Kind : e.limit[k] > 0}
      BY <1>4, <2>1, RestoreTurn
    <2>3. e \in Rule /\ rules[n] = NoRule /\ AddrOf[n] \in Addr
      BY <1>4, <2>1, <2>2, BootListRule, ConstantsOK DEF BootInv, Listed
    <2>4. /\ limits' = [k \in Kind |-> IF e.limit[k] > 0
               THEN [limits[k] EXCEPT ![AddrOf[n]] = e.limit[k]]
               ELSE limits[k]]
          /\ rules' = [rules EXCEPT ![n] = r]
          /\ todo' = todo \ {n} /\ UNCHANGED <<phase, disk>>
      BY <1>4, <2>2 DEF BootEntry
    <2>5. \A k \in Kind : e.limit[k] \in Limit /\ (~(e.limit[k] > 0) => e.limit[k] = 0)
      BY <2>3, ConstantsOK DEF Rule, Limits, Limit
    <2>6. r = e
      <3>1. \A k \in Kind : r.limit[k] = e.limit[k]
        BY <2>3, <2>5 DEF NoRule, NoLimits
      <3>2. e.limit \in [Kind -> Limit] /\ e = [reason |-> e.reason, limit |-> e.limit]
        BY <2>3 DEF Rule, Limits
      <3>3. r.limit = e.limit
        BY <3>1, <3>2
      <3> QED
        BY <3>2, <3>3
    <2> HIDE DEF e, r
    <2>7. \A m \in Name : rules'[m] = IF m = n THEN e ELSE rules[m]
      BY <2>4, <2>6 DEF TypeOK, Table
    <2>8. \A k \in Kind, a \in Addr : limits'[k][a] =
            IF e.limit[k] > 0 /\ a = AddrOf[n] THEN e.limit[k] ELSE limits[k][a]
      BY <2>4 DEF TypeOK
    <2>9. \A m \in Name : AddrOf[m] \in Addr /\ (m # n => AddrOf[m] # AddrOf[n])
      BY ConstantsOK DEF Canonical
    <2>10. \A k \in Kind : limits[k][AddrOf[n]] = 0
      BY <1>4, <2>3 DEF NoRule, NoLimits
    <2>11. \A m \in Name : rules'[m] = IF m \in todo' THEN NoRule ELSE disk'[m]
      BY <1>4, <2>1, <2>4, <2>7 DEF e
    <2>12. \A m \in Name, k \in Kind : limits'[k][AddrOf[m]] = rules'[m].limit[k]
      BY <1>4, <2>5, <2>7, <2>8, <2>9, <2>10
    <2>13. \A k \in Kind : \A a \in Limited(k)' : \E m \in Name : AddrOf[m] = a
      <3>1. \A k \in Kind, a \in Addr : limits'[k][a] # 0 =>
              a = AddrOf[n] \/ limits[k][a] # 0
        BY <2>8
      <3> QED
        BY <1>4, <3>1 DEF Limited
    <2> QED
      BY <1>4, <2>4, <2>11, <2>12, <2>13
  <1>5. CASE UNCHANGED <<limits, rules, blocklist, disk, phase, todo>>
    BY <1>5 DEF Limited
  <1>6. CASE BootPhase
    BY <1>6 DEF BootPhase
  <1>7. ASSUME NEW n \in Name, BootEntry(n) PROVE RestoreInv'
    <2>1. phase' = phase /\ phase # "down"
      BY <1>7 DEF BootEntry, BootInv
    <2> QED
      BY <1>1, <1>4, <1>7, <2>1
  <1>8. CASE phase = "serving" /\ phase' = phase
    BY <1>8
  <1>9. ASSUME NEW h \in Handler, pc[h] # "idle" PROVE phase = "serving"
    BY <1>9 DEF BootInv
  <1> HIDE DEF RestoreInv
  <1>10. ASSUME NEW h \in Handler,
                \/ \E k \in Kind : CreateLimit(h, k)
                \/ CreatePersist(h) \/ PersistList(h) \/ PersistSave(h)
         PROVE  phase = "serving" /\ phase' = phase
    BY <1>9, <1>10 DEF CreateLimit, CreatePersist, PersistList, PersistSave, boot
  <1>11. CASE UNCHANGED vars
    BY <1>5, <1>11 DEF vars
  <1> QED
    BY <1>2, <1>6, <1>7, <1>8, <1>10, <1>11, <1>12 DEF Next, AutoUnblock, AutoBlock,
       HandleLimit, CreateBlock, DeleteUnblock, Begin, boot

\* What the Firewall methods do to the listing of names.
LEMMA ListedNames ==
  ASSUME TypeOK
  PROVE  /\ \A n \in Name : Noted(n) <=> rules[n] # NoRule
         /\ \A n \in Name, r \in Reason : BlockWithReason(n, r) =>
              /\ Noted(n)'
              /\ \A m \in Name : m # n => rules'[m] = rules[m]
         /\ \A n \in Name : Unblock(n) =>
              /\ ~Noted(n)'
              /\ \A m \in Name : m # n => rules'[m] = rules[m]
         /\ \A n \in Name, k \in Kind, l \in Limit : SetLimit(k, n, l) =>
              \A m \in Name : Noted(m)' <=> Noted(m)
  <1>1. rules \in Table
    BY DEF TypeOK
  <1>2. \A n \in Name : Noted(n) <=> rules[n] # NoRule
    BY <1>1, ReasonOfRule DEF Table, Noted
  <1>3. ASSUME NEW n \in Name, NEW r \in Reason, BlockWithReason(n, r)
        PROVE  /\ Noted(n)'
               /\ \A m \in Name : m # n => rules'[m] = rules[m]
    <2>1. r # "absent"
      BY ConstantsOK DEF Reason
    <2> QED
      BY <1>1, <1>3, <2>1, WithReason DEF BlockWithReason, Noted
  <1>4. ASSUME NEW n \in Name, Unblock(n)
        PROVE  /\ ~Noted(n)'
               /\ \A m \in Name : m # n => rules'[m] = rules[m]
    BY <1>1, <1>4 DEF Unblock, Noted, Table, NoRule
  <1>5. ASSUME NEW n \in Name, NEW k \in Kind, NEW l \in Limit, SetLimit(k, n, l)
        PROVE  \A m \in Name : Noted(m)' <=> Noted(m)
    <2>1. CASE rules[n].reason # "absent"
      <3>1. rules' = [rules EXCEPT ![n].limit[k] = l]
        BY <1>5, <2>1 DEF SetLimit, Noted
      <3> QED
        BY <1>1, <2>1, <3>1, WithLimitOfRule DEF Noted
    <2>2. CASE rules[n].reason = "absent"
      BY <1>5, <2>2 DEF SetLimit, Noted
    <2> QED
      BY <2>1, <2>2
  <1> QED
    BY <1>2, <1>3, <1>4, <1>5

\* An answer is no handler, and a sure one is the request's wish.
LEMMA AnswerKinds ==
  ASSUME TypeOK, NEW h \in Handler, NEW sure \in BOOLEAN
  PROVE  /\ Answer(h, sure) \notin Handler
         /\ Answer(h, sure) \in {"blocked", "unblocked"} =>
              sure /\ Answer(h, sure) = req[h].want
  <1>1. req[h].want \in {"none", "blocked", "unblocked"}
    BY DEF TypeOK, Request, NoReq
  <1>2. Answer(h, sure) \in Ack
    BY <1>1 DEF Answer, Ack
  <1> QED
    BY <1>1, <1>2, ConstantsOK DEF Answer

LEMMA PendingStep ==
  ASSUME TypeOK, BootInv, PendingInv, [Next]_vars
  PROVE  PendingInv'
  <1> DEFINE Goal(h, n) ==
        /\ req'[h].want = "blocked" =>
             Noted(n)' /\ (pc'[h] = "save" => snap'[h][n] # NoRule)
        /\ req'[h].want = "unblocked" =>
             ~Noted(n)' /\ (pc'[h] = "save" => snap'[h][n] = NoRule)
  <1> SUFFICES ASSUME NEW h \in Handler, NEW n \in Name, Pending(h, n)'
               PROVE  Goal(h, n)
    BY DEF PendingInv, Pending
  <1>0. \A r \in Ack : r \notin Handler
    BY ConstantsOK
  <1>1. CASE UNCHANGED <<pc, req, snap>> /\ acked[n] = h /\ (Noted(n)' <=> Noted(n))
    BY <1>1 DEF Pending, PendingInv
  <1>2. CASE phase' # "serving"
    <2>1. BootInv'
      BY BootStep
    <2> QED
      BY <1>2, <2>1 DEF BootInv, Pending
  <1>3. ASSUME NEW g \in Handler, NEW m \in Name, NEW lim \in Limits,
               CreateBlock(g, m, lim)
        PROVE  Goal(h, n)
    <2>1. /\ req' = [req EXCEPT ![g] = [ip |-> m, want |-> "blocked", limit |-> lim]]
          /\ pc' = [pc EXCEPT ![g] = "limit"]
          /\ acked' = [acked EXCEPT ![m] = g]
          /\ snap' = snap
          /\ Noted(m)' /\ (n # m => rules'[n] = rules[n])
      BY <1>3, ListedNames DEF CreateBlock, Goto, Reason
    <2>2. CASE g = h
      BY <2>1, <2>2 DEF Pending, TypeOK
    <2>3. CASE g # h
      BY <2>1, <2>3 DEF Pending, PendingInv, TypeOK, Noted
    <2> QED
      BY <2>2, <2>3
  <1>4. ASSUME NEW g \in Handler, NEW m \in Name, DeleteUnblock(g, m)
        PROVE  Goal(h, n)
    <2>1. /\ req' = [req EXCEPT ![g] =
               [ip |-> m, want |-> "unblocked", limit |-> NoLimits]]
          /\ pc' = [pc EXCEPT ![g] = "list"]
          /\ acked' = [acked EXCEPT ![m] = g]
          /\ snap' = snap
          /\ ~Noted(m)' /\ (n # m => rules'[n] = rules[n])
      BY <1>4, ListedNames DEF DeleteUnblock, Goto
    <2>2. CASE g = h
      BY <2>1, <2>2 DEF Pending, TypeOK
    <2>3. CASE g # h
      BY <2>1, <2>3 DEF Pending, PendingInv, TypeOK, Noted
    <2> QED
      BY <2>2, <2>3
  <1>5. ASSUME NEW m \in Name, NEW r \in AutoReason, AutoBlock(m, r)
        PROVE  Goal(h, n)
    <2>1. /\ UNCHANGED <<pc, req, snap>>
          /\ acked' = [acked EXCEPT ![m] = "none"]
          /\ n # m => rules'[n] = rules[n]
      BY <1>5, ListedNames DEF AutoBlock, http, Reason
    <2>2. n # m /\ acked[n] = h
      BY <1>0, <2>1 DEF Pending, TypeOK, Ack
    <2> QED
      BY <1>1, <2>1, <2>2 DEF Noted
  <1>6. ASSUME NEW m \in Name, AutoUnblock(m)
        PROVE  Goal(h, n)
    <2>1. /\ UNCHANGED <<pc, req, snap>>
          /\ acked' = [acked EXCEPT ![m] = "none"]
          /\ n # m => rules'[n] = rules[n]
      BY <1>6, ListedNames DEF AutoUnblock, http
    <2>2. n # m /\ acked[n] = h
      BY <1>0, <2>1 DEF Pending, TypeOK, Ack
    <2> QED
      BY <1>1, <2>1, <2>2 DEF Noted
  <1>7. ASSUME NEW m \in Name, NEW k \in Kind, NEW l \in Limit,
               HandleLimit(k, m, l)
        PROVE  Goal(h, n)
    <2>1. UNCHANGED <<pc, req, snap, acked>> /\ (Noted(n)' <=> Noted(n))
      BY <1>7, ListedNames DEF HandleLimit, http
    <2> QED
      BY <1>1, <2>1 DEF Pending
  <1>8. ASSUME NEW g \in Handler, NEW k \in Kind, CreateLimit(g, k)
        PROVE  Goal(h, n)
    <2>1. UNCHANGED <<snap, acked>>
      BY <1>8 DEF CreateLimit
    <2>2. CASE SetLimit(k, req[g].ip, req[g].limit[k])
      <3>1. Noted(n)' <=> Noted(n)
        BY <1>8, <2>2, AskedFor, ListedNames
      <3>2. req' = [req EXCEPT ![g].limit[k] = 0] /\ pc' = pc
        BY <1>8, <2>2 DEF CreateLimit, SetLimit
      <3>3. req'[h].ip = req[h].ip /\ req'[h].want = req[h].want
        BY <1>8, <3>2, AskedFor DEF TypeOK, Request
      <3> QED
        BY <2>1, <3>1, <3>2, <3>3 DEF Pending, PendingInv
    <2>3. CASE ~LimitOK(k, req[g].ip, req[g].limit[k])
      <3>1. /\ pc' = [pc EXCEPT ![g] = "idle"] /\ req' = [req EXCEPT ![g] = NoReq]
            /\ rules' = rules
        BY <1>8, <2>3 DEF CreateLimit, SetLimit, Goto, fw
      <3> QED
        BY <2>1, <3>1 DEF Pending, PendingInv, TypeOK, Noted
    <2> QED
      BY <1>8, <2>2, <2>3 DEF CreateLimit
  <1>9. ASSUME NEW g \in Handler, CreatePersist(g) PROVE Goal(h, n)
    BY <1>9 DEF CreatePersist, Goto, fw, Pending, PendingInv, Noted, TypeOK
  <1>10. ASSUME NEW g \in Handler, PersistList(g) PROVE Goal(h, n)
    <2>1. /\ pc[g] = "list" /\ pc' = [pc EXCEPT ![g] = "save"]
          /\ snap' = [snap EXCEPT ![g] = rules]
          /\ UNCHANGED <<rules, req, acked>>
      BY <1>10 DEF PersistList, Goto, fw
    <2>2. Noted(n) <=> rules[n] # NoRule
      BY ListedNames
    <2>3. Pending(h, n)
      BY <2>1 DEF Pending, TypeOK
    <2> QED
      BY <2>1, <2>2, <2>3 DEF PendingInv, TypeOK, Noted
  <1>11. ASSUME NEW g \in Handler, PersistSave(g) PROVE Goal(h, n)
    <2>1. PICK sure \in BOOLEAN : acked' = [acked EXCEPT ![req[g].ip] =
            IF @ = g THEN Answer(g, sure) ELSE @]
      BY <1>11 DEF PersistSave, Acknowledge
    <2>2. /\ pc' = [pc EXCEPT ![g] = "idle"] /\ req' = [req EXCEPT ![g] = NoReq]
          /\ snap' = [snap EXCEPT ![g] = Empty] /\ rules' = rules
      BY <1>11 DEF PersistSave, Goto, fw
    <2>3. g # h /\ acked[n] = h
      BY <2>1, <2>2, AnswerKinds DEF Pending, TypeOK
    <2> QED
      BY <2>2, <2>3 DEF Pending, PendingInv, TypeOK, Noted
  <1>12. ASSUME NEW m \in Name, BootEntry(m) PROVE Goal(h, n)
    <2>1. phase # "serving"
      BY <1>12 DEF BootEntry, BootInv
    <2> QED
      BY <1>2, <1>12, <2>1 DEF BootEntry
  <1>13. CASE BootPhase
    <2>1. UNCHANGED <<rules, pc, req, snap, acked>>
      BY <1>13 DEF BootPhase, fw, http
    <2> QED
      BY <1>1, <2>1 DEF Pending, Noted
  <1>16. CASE Start
    BY <1>2, <1>16 DEF Start
  <1>14. CASE Stop
    BY <1>2, <1>14 DEF Stop
  <1>15. CASE UNCHANGED vars
    BY <1>1, <1>15 DEF vars, Pending, Noted
  <1> HIDE DEF Goal
  <1> QED
    BY <1>3, <1>4, <1>5, <1>6, <1>7, <1>8, <1>9, <1>10, <1>11, <1>12, <1>13,
       <1>14, <1>15, <1>16 DEF Next

LEMMA AckedStep ==
  ASSUME TypeOK, BootInv, RestoreInv, PendingInv, AckedInv, [Next]_vars
  PROVE  AckedInv'
  <1> DEFINE In(n) ==
        /\ acked[n] = "blocked" =>
             /\ disk[n] # NoRule /\ (phase \in {"policy", "serving"} => Noted(n))
             /\ \A h \in Handler : pc[h] = "save" => snap[h][n] # NoRule
        /\ acked[n] = "unblocked" /\ Policy[n] = NoRule =>
             /\ disk[n] = NoRule /\ ~Noted(n)
             /\ \A h \in Handler : pc[h] = "save" => snap[h][n] = NoRule
      Kept == \A g \in Handler : pc'[g] = "save" => pc[g] = "save"
  <1> SUFFICES ASSUME NEW n \in Name PROVE In(n)'
    BY DEF AckedInv
  <1>0. In(n)
    BY DEF AckedInv
  <1>1. \A h \in Handler : h \notin {"blocked", "unblocked"}
    BY ConstantsOK DEF Ack
  <1>2. CASE /\ UNCHANGED <<disk, snap>> /\ Kept /\ acked'[n] = acked[n]
             /\ phase' \in {"down", "restore", phase}
             /\ Noted(n)' <=> Noted(n)
    BY <1>0, <1>2
  <1>3. CASE acked'[n] \notin {"blocked", "unblocked"}
    BY <1>3
  <1>4. ASSUME NEW m \in Name, UNCHANGED <<disk, snap>>, Kept, phase' = phase,
               m # n => acked'[n] = acked[n] /\ rules'[n] = rules[n],
               m = n => acked'[n] \notin {"blocked", "unblocked"}
        PROVE  In(n)'
    BY <1>2, <1>3, <1>4 DEF Noted
  <1>5. ASSUME NEW g \in Handler, NEW m \in Name, NEW lim \in Limits,
               CreateBlock(g, m, lim)
        PROVE  In(n)'
    <2>1. /\ UNCHANGED <<disk, snap, phase>>
          /\ pc' = [pc EXCEPT ![g] = "limit"]
          /\ acked' = [acked EXCEPT ![m] = g]
          /\ m # n => rules'[n] = rules[n]
      BY <1>5, ListedNames DEF CreateBlock, Goto, Reason, boot
    <2>2. Kept /\ (m # n => acked'[n] = acked[n]) /\ (m = n => acked'[n] = g)
      BY <2>1 DEF TypeOK
    <2> QED
      BY <1>1, <1>4, <2>1, <2>2
  <1>6. ASSUME NEW g \in Handler, NEW m \in Name, DeleteUnblock(g, m)
        PROVE  In(n)'
    <2>1. /\ UNCHANGED <<disk, snap, phase>>
          /\ pc' = [pc EXCEPT ![g] = "list"]
          /\ acked' = [acked EXCEPT ![m] = g]
          /\ m # n => rules'[n] = rules[n]
      BY <1>6, ListedNames DEF DeleteUnblock, Goto, boot
    <2>2. Kept /\ (m # n => acked'[n] = acked[n]) /\ (m = n => acked'[n] = g)
      BY <2>1 DEF TypeOK
    <2> QED
      BY <1>1, <1>4, <2>1, <2>2
  <1>7. ASSUME NEW m \in Name, AutoUnblock(m) \/ \E r \in AutoReason : AutoBlock(m, r)
        PROVE  In(n)'
    <2>1. /\ UNCHANGED <<disk, snap, phase, pc>>
          /\ acked' = [acked EXCEPT ![m] = "none"]
          /\ m # n => rules'[n] = rules[n]
      BY <1>7, ListedNames DEF AutoBlock, AutoUnblock, http, boot, Reason
    <2>2. Kept /\ (m # n => acked'[n] = acked[n]) /\ (m = n => acked'[n] = "none")
      BY <2>1 DEF TypeOK
    <2> QED
      BY <1>4, <2>1, <2>2
  <1>8. ASSUME NEW m \in Name, NEW k \in Kind, NEW l \in Limit,
               HandleLimit(k, m, l)
        PROVE  In(n)'
    <2>1. UNCHANGED <<disk, snap, phase, pc, acked>> /\ (Noted(n)' <=> Noted(n))
      BY <1>8, ListedNames DEF HandleLimit, http, boot
    <2> QED
      BY <1>2, <2>1
  <1>9. ASSUME NEW g \in Handler, NEW k \in Kind, CreateLimit(g, k)
        PROVE  In(n)'
    <2>1. UNCHANGED <<disk, snap, phase, acked>>
      BY <1>9 DEF CreateLimit, boot
    <2>2. Noted(n)' <=> Noted(n)
      <3>1. CASE rules' = rules
        BY <3>1 DEF Noted
      <3>2. CASE SetLimit(k, req[g].ip, req[g].limit[k])
        BY <1>9, <3>2, AskedFor, ListedNames
      <3> QED
        BY <1>9, <3>1, <3>2 DEF CreateLimit, fw
    <2>3. Kept
      BY <1>9 DEF CreateLimit, Goto, TypeOK
    <2> QED
      BY <1>2, <2>1, <2>2, <2>3
  <1>10. ASSUME NEW g \in Handler, CreatePersist(g) PROVE In(n)'
    <2>1. UNCHANGED <<rules, disk, snap, phase, acked>> /\ Kept
      BY <1>10 DEF CreatePersist, Goto, fw, boot, TypeOK
    <2> QED
      BY <1>2, <2>1 DEF Noted
  <1>11. ASSUME NEW g \in Handler, PersistList(g) PROVE In(n)'
    <2>1. /\ pc[g] = "list" /\ pc' = [pc EXCEPT ![g] = "save"]
          /\ snap' = [snap EXCEPT ![g] = rules]
          /\ UNCHANGED <<rules, disk, acked, phase>>
      BY <1>11 DEF PersistList, Goto, fw, boot
    <2>2. phase = "serving"
      BY <2>1 DEF BootInv
    <2>3. Noted(n) <=> rules[n] # NoRule
      BY ListedNames
    <2>4. \A h \in Handler : pc'[h] = "save" =>
            snap'[h] = rules \/ (pc[h] = "save" /\ snap'[h] = snap[h])
      BY <2>1 DEF TypeOK
    <2> QED
      BY <1>0, <2>1, <2>2, <2>3, <2>4 DEF Noted
  <1>12. ASSUME NEW g \in Handler, PersistSave(g) PROVE In(n)'
    <2>1. PICK sure \in BOOLEAN :
            /\ acked' = [acked EXCEPT ![req[g].ip] =
                           IF @ = g THEN Answer(g, sure) ELSE @]
            /\ disk' \in {disk, snap[g]}
            /\ sure => ~Overtaken(g) /\ disk' = snap[g]
      BY <1>12 DEF PersistSave, Acknowledge
    <2>2. /\ pc[g] = "save" /\ pc' = [pc EXCEPT ![g] = "idle"]
          /\ snap' = [snap EXCEPT ![g] = Empty]
          /\ UNCHANGED <<rules, phase>>
      BY <1>12 DEF PersistSave, Goto, fw, boot
    <2>3. \A h \in Handler : pc'[h] = "save" =>
            h # g /\ pc[h] = "save" /\ snap'[h] = snap[h]
      BY <2>2 DEF TypeOK
    <2>4. CASE acked'[n] = acked[n]
      BY <1>0, <2>1, <2>2, <2>3, <2>4 DEF Noted
    <2>5. CASE acked'[n] # acked[n] /\ acked'[n] \in {"blocked", "unblocked"}
      <3>1. n = req[g].ip /\ acked[n] = g /\ acked'[n] = Answer(g, sure)
        BY <2>1, <2>5 DEF TypeOK
      <3>2. sure /\ acked'[n] = req[g].want
        BY <2>5, <3>1, AnswerKinds
      <3>3. \A h \in Handler : pc'[h] # "save"
        BY <2>1, <2>3, <3>2 DEF Overtaken
      <3>4. Pending(g, n) /\ phase = "serving"
        BY <2>2, <3>1 DEF Pending, BootInv
      <3>5. /\ req[g].want = "blocked" => Noted(n) /\ snap[g][n] # NoRule
            /\ req[g].want = "unblocked" => ~Noted(n) /\ snap[g][n] = NoRule
        BY <2>2, <3>4 DEF PendingInv
      <3> QED
        BY <2>1, <2>2, <3>2, <3>3, <3>5 DEF Noted
    <2> QED
      BY <1>3, <2>4, <2>5
  <1>13. ASSUME NEW m \in Name, BootEntry(m) PROVE In(n)'
    <2>1. /\ UNCHANGED <<phase, disk, pc, snap, acked>> /\ m \in todo
          /\ BootList[m] # NoRule
      BY <1>13 DEF BootEntry, http, BootInv, Listed
    <2>2. rules' = rules \/ \E l : rules' = [rules EXCEPT ![m] =
            [reason |-> BootList[m].reason, limit |-> l]]
      BY <1>13 DEF BootEntry, fw
    <2>3. BootList[m] \in Rule
      BY <2>1, BootListRule
    <2>4. BootList[m].reason # "absent"
      BY <2>3, ConstantsOK DEF Rule, Reason
    <2>5. Noted(n) => Noted(n)'
      BY <2>2, <2>4 DEF Noted, TypeOK, Table
    <2>6. n # m => (Noted(n)' <=> Noted(n))
      BY <2>2 DEF Noted, TypeOK, Table
    <2>7. acked[n] = "unblocked" /\ Policy[n] = NoRule => n # m
      BY <1>0, <2>1 DEF BootList
    <2> HIDE DEF Kept
    <2> QED
      BY <1>0, <2>1, <2>5, <2>6, <2>7
  <1>14. CASE BootPhase
    <2>1. UNCHANGED <<rules, disk, pc, snap, acked>>
      BY <1>14 DEF BootPhase, fw, http
    <2>2. CASE phase = "restore"
      <3>1. rules[n] = disk[n]
        BY <1>14, <2>2 DEF BootPhase, RestoreInv
      <3>2. Noted(n) <=> rules[n] # NoRule
        BY ListedNames
      <3> QED
        BY <1>0, <2>1, <3>1, <3>2 DEF Noted
    <2>3. CASE phase = "policy"
      BY <1>0, <2>1, <2>3 DEF Noted
    <2> QED
      BY <1>14, <2>2, <2>3 DEF BootPhase
  <1>15. CASE Start
    <2>1. UNCHANGED <<rules, disk, pc, snap>>
      BY <1>15 DEF Start, fw, http
    <2>2. CASE UNCHANGED acked /\ phase' = "restore"
      BY <1>2, <2>1, <2>2 DEF Noted
    <2>3. CASE /\ phase' = "policy"
               /\ acked' = [m \in Name |->
                    IF acked[m] = "blocked" THEN "maybe blocked" ELSE acked[m]]
      <3>1. /\ acked'[n] # "blocked"
            /\ acked'[n] = "unblocked" => acked[n] = "unblocked"
        BY <2>3
      <3> QED
        BY <1>0, <2>1, <3>1 DEF Noted
    <2> QED
      BY <1>15, <2>2, <2>3 DEF Start
  <1>16. CASE Stop
    BY <1>0, <1>16 DEF Stop, Noted, Empty, NoRule
  <1>17. CASE UNCHANGED vars
    BY <1>2, <1>17 DEF vars, Noted
  <1> HIDE DEF In, Kept
  <1> QED
    BY <1>5, <1>6, <1>7, <1>8, <1>9, <1>10, <1>11, <1>12, <1>13, <1>14, <1>15,
       <1>16, <1>17 DEF Next

\* The invariant of the saved list, with the two it rests on.
THEOREM SavedCorrect == ASSUME Canonical PROVE Spec => [](MirrorInv /\ SavedInv)
  <1>1. Init => MirrorInv /\ SavedInv
    <2>1. Init => MirrorInv
      BY DEF Init, MirrorInv, MirrorAgrees, ListedLimitsEnforced, Noted, Empty,
             NoRule, NoLimits
    <2>2. Init => MapsFit
      <3>1. Cardinality({}) <= MaxRules
        BY FS_EmptySet, ConstantsOK
      <3>2. ASSUME Init
            PROVE  /\ \A a \in Addr : Blocked(SameFamily(a)) = {}
                   /\ \A k \in Kind : Limited(k) = {}
                   /\ \A k \in Kind, a \in V6 : limits[k][a] = 0
        BY <3>2, ConstantsOK DEF Init, Blocked, Limited, SameFamily
      <3> QED
        BY <3>1, <3>2 DEF MapsFit
    <2>3. Init => SavedFits
      <3>1. Cardinality({}) <= MaxRules
        BY FS_EmptySet, ConstantsOK
      <3>2. \A F : ListedIn(Empty, F) = {}
        BY DEF ListedIn, Empty
      <3>3. \A k \in Kind : LimitedIn(Empty, k) = {}
        BY DEF LimitedIn, Empty, NoRule, NoLimits
      <3>4. \A n \in Name, k \in Kind : Empty[n].limit[k] = 0
        BY DEF Empty, NoRule, NoLimits
      <3>5. Fits(Empty)
        BY <3>1, <3>2, <3>3, <3>4 DEF Fits
      <3> QED
        BY <3>5 DEF Init, SavedFits
    <2>4. Init => RestoreInv
      BY DEF Init, RestoreInv
    <2>5. Init => PendingInv
      BY DEF Init, PendingInv, Pending
    <2>6. Init => AckedInv
      BY DEF Init, AckedInv
    <2> QED
      BY <2>1, <2>2, <2>3, <2>4, <2>5, <2>6 DEF SavedInv
  <1>2. MirrorInv /\ SavedInv /\ TypeOK /\ BootInv /\ [Next]_vars =>
          MirrorInv' /\ SavedInv'
    BY MirrorStep, MapsStep, SavedStep, RestoreStep, PendingStep, AckedStep
    DEF SavedInv
  <1> QED
    BY <1>1, <1>2, TypeCorrect, PTL DEF Spec

\* With canonical names, a create or delete that was saved and answered while
\* no other handler held an older list outlives any number of restarts.
THEOREM AckedCorrect == ASSUME Canonical PROVE Spec => []AckedSurvives
  <1>1. SavedInv => AckedSurvives
    BY DEF SavedInv, AckedInv, AckedSurvives
  <1> QED
    BY <1>1, SavedCorrect, PTL

\* With canonical names, no entry of rules.json is refused by the maps of the
\* next process: each is back, with its limits, before the policy is applied.
THEOREM RestoreCorrect == ASSUME Canonical PROVE Spec => RestoreFaithful
  <1> DEFINE Back == phase = "restore" /\ phase' = "policy" =>
                       \A n \in Name : disk[n] # NoRule =>
                         /\ rules[n] = disk[n]
                         /\ \A k \in Kind : limits[k][AddrOf[n]] = disk[n].limit[k]
  <1>1. TypeOK /\ BootInv /\ SavedInv /\ [Next]_vars => [Back]_vars
    <2> SUFFICES ASSUME TypeOK, BootInv, RestoreInv, Next,
                        phase = "restore", phase' = "policy"
                 PROVE  Back
      BY DEF SavedInv
    <2>1. todo = {}
      <3>1. CASE BootPhase
        BY <3>1 DEF BootPhase
      <3>2. ASSUME NEW h \in Handler, pc[h] # "idle" PROVE FALSE
        BY <3>2 DEF BootInv
      <3> QED
        BY <3>1, <3>2 DEF Next, Start, Stop, BootEntry, AutoUnblock, AutoBlock,
           HandleLimit, CreateBlock, CreateLimit, DeleteUnblock, CreatePersist,
           PersistList, PersistSave, Begin, boot
    <2> QED
      BY <2>1 DEF RestoreInv
  <1> QED
    BY <1>1, SavedCorrect, TypeCorrect, PTL DEF Spec, RestoreFaithful
=============================================================================
