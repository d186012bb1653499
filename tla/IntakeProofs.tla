----------------------------- MODULE IntakeProofs -----------------------------
(***************************************************************************)
(* How rules come in: the feeds, which block on their own, the policy      *)
(* file, and sxctl, which sends a policy to a fleet.                       *)
(*                                                                         *)
(* Any number of feeds, sources and operators on one rule table: a feed    *)
(* remembers every block it is the reason of, so that it can lift it, and  *)
(* what it lists of the addresses that are its alone is blocked.           *)
(*                                                                         *)
(* Any file: the reader, which sees a line at a time, arrives at what the  *)
(* file says as a whole, or rejects a file that says nothing of the kind.  *)
(*                                                                         *)
(* Any number of nodes, attempts and requests under way: a node the report *)
(* ticks has what the policy asks for.                                     *)
(***************************************************************************)
EXTENDS Feeds, Controller, FiniteSetTheorems, SequenceTheorems,
        WellFoundedInduction, TLAPS

-----------------------------------------------------------------------------
(* The feeds.                                                              *)

\* The addresses a refresh has still to block are addresses it fetched.
TodoFetched == \A f \in Feed : pc[f] = "block" => todo[f] \subseteq fresh[f]

FeedInv == TypeOK /\ TodoFetched /\ BlocksRemembered

\* Either way of fetching is a Start.
LEMMA FetchStarts ==
  ASSUME TypeOK, NEW f \in Feed, FetchSome(f) \/ FetchAll(f)
  PROVE  \E got \in SUBSET Addr : Start(f, got)
  <1>1. ASSUME NEW ok \in SUBSET Source, NEW got \in Fetched(ok)
        PROVE  got \in SUBSET Addr
    <2>1. PICK ans \in [ok -> UNION {Answers[s] : s \in ok}] :
            (\A s \in ok : ans[s] \in Answers[s]) /\ got = UNION {ans[s] : s \in ok}
      BY <1>1 DEF Fetched
    <2>2. \A s \in ok : ans[s] \in SUBSET Addr
      BY <2>1, ConstantsOK
    <2> QED
      BY <2>1, <2>2
  <1>2. configured[f] \in SUBSET Source
    BY DEF TypeOK
  <1>3. CASE FetchSome(f)
    <2>1. PICK ok \in SUBSET configured[f] : \E got \in Fetched(ok) : Start(f, got)
      BY <1>3 DEF FetchSome
    <2>2. PICK got \in Fetched(ok) : Start(f, got)
      BY <2>1
    <2>3. ok \in SUBSET Source
      BY <1>2
    <2> QED
      BY <1>1, <2>2, <2>3
  <1>4. CASE FetchAll(f)
    <2>1. PICK got \in Fetched(configured[f]) : Start(f, got)
      BY <1>4 DEF FetchAll
    <2> QED
      BY <1>1, <1>2, <2>1
  <1> QED
    BY <1>3, <1>4

LEMMA TypeStep == ASSUME TypeOK, [Next]_vars PROVE TypeOK'
  <1> USE DEF TypeOK
  <1>1. ASSUME NEW f \in Feed, FetchSome(f) \/ FetchAll(f) PROVE TypeOK'
    <2>1. PICK got \in SUBSET Addr : Start(f, got)
      BY <1>1, FetchStarts
    <2> QED
      BY <2>1 DEF Start
  <1>2. ASSUME NEW f \in Feed, NEW a \in Addr, BlockNew(f, a) PROVE TypeOK'
    BY <1>2 DEF BlockNew, Reason
  <1>3. ASSUME NEW f \in Feed, BlockDone(f) PROVE TypeOK'
    BY <1>3 DEF BlockDone, Gone
  <1>4. ASSUME NEW f \in Feed, NEW a \in Addr, UnblockGone(f, a) PROVE TypeOK'
    <2>1. rule' \in [Addr -> Reason]
      <3>1. CASE rule' = [rule EXCEPT ![a] = "none"]
        BY <3>1 DEF Reason
      <3> QED
        BY <1>4, <3>1 DEF UnblockGone
    <2>2. orphaned' = orphaned \/ orphaned' = orphaned \cup {a}
      BY <1>4 DEF UnblockGone
    <2>3. orphaned' \subseteq Addr
      BY <2>2
    <2> QED
      BY <1>4, <2>1, <2>3 DEF UnblockGone
  <1>5. ASSUME NEW f \in Feed, Finish(f) PROVE TypeOK'
    BY <1>5 DEF Finish
  <1>6. ASSUME NEW f \in Feed, NEW S \in SUBSET Sources[f], SetSources(f, S)
        PROVE  TypeOK'
    BY <1>6, ConstantsOK DEF SetSources
  <1>7. ASSUME NEW a \in Addr, OperatorBlock(a) \/ OperatorUnblock(a)
        PROVE  TypeOK'
    <2>1. rule' \in [Addr -> Reason]
      BY <1>7 DEF OperatorBlock, OperatorUnblock, Reason
    <2>2. Saved(rule') \in [Addr -> Reason]
      BY <2>1 DEF Saved, Reason
    <2> QED
      BY <1>7, <2>1, <2>2 DEF OperatorBlock, OperatorUnblock
  <1>8. CASE Restart
    BY <1>8, ConstantsOK DEF Restart, Nothing
  <1>9. CASE UNCHANGED vars
    BY <1>9 DEF vars
  <1> QED
    BY <1>1, <1>2, <1>3, <1>4, <1>5, <1>6, <1>7, <1>8, <1>9 DEF Next

\* What BlocksRemembered says of one feed and one address, with the steps of
\* the other feeds and of the operators left out.
Remembered(f, a) ==
  rule[a] = f =>
    \/ a \in orphaned
    \/ a \in current[f] /\ (pc[f] = "unblock" => a \in todo[f] \cup fresh[f])
    \/ pc[f] # "idle" /\ a \in fresh[f]

LEMMA OtherStep ==
  ASSUME FeedInv, NEW f \in Feed, NEW a \in Addr,
         current'[f] = current[f], fresh'[f] = fresh[f], todo'[f] = todo[f],
         pc'[f] = pc[f],
         rule'[a] = f => rule[a] = f /\ (a \in orphaned => a \in orphaned')
  PROVE  Remembered(f, a)' /\ (pc'[f] = "block" => todo'[f] \subseteq fresh'[f])
  BY DEF FeedInv, TodoFetched, BlocksRemembered, Remembered

LEMMA OwnStep ==
  ASSUME FeedInv, NEW f \in Feed, Refresh(f), NEW a \in Addr
  PROVE  Remembered(f, a)' /\ (pc'[f] = "block" => todo'[f] \subseteq fresh'[f])
  <1> USE DEF FeedInv, TypeOK
  <1>1. Remembered(f, a)
    BY DEF BlocksRemembered, Remembered
  <1>2. CASE FetchSome(f) \/ FetchAll(f)
    <2>1. PICK got \in SUBSET Addr : Start(f, got)
      BY <1>2, FetchStarts
    <2> QED
      BY <1>1, <2>1 DEF Start, Remembered
  <1>3. ASSUME NEW b \in Addr, BlockNew(f, b)
        PROVE  Remembered(f, a)' /\ (pc'[f] = "block" => todo'[f] \subseteq fresh'[f])
    <2>1. b \in fresh[f] /\ pc[f] = "block" /\ todo'[f] = todo[f] \ {b}
      BY <1>3 DEF BlockNew, TodoFetched
    <2>2. /\ rule'[a] = f => rule[a] = f \/ a = b
          /\ a \in orphaned => a \in orphaned' \/ a = b
      BY <1>3 DEF BlockNew
    <2> QED
      BY <1>1, <1>3, <2>1, <2>2 DEF BlockNew, Remembered, TodoFetched
  <1>4. CASE BlockDone(f)
    BY <1>1, <1>4 DEF BlockDone, Gone, Remembered
  <1>5. ASSUME NEW b \in Addr, UnblockGone(f, b)
        PROVE  Remembered(f, a)' /\ (pc'[f] = "block" => todo'[f] \subseteq fresh'[f])
    <2>1. /\ rule'[a] = f => rule[a] = f /\ (a = b => a \in orphaned')
          /\ orphaned \subseteq orphaned'
      <3>1. f # "none"
        BY ConstantsOK
      <3> QED
        BY <1>5, <3>1 DEF UnblockGone
    <2>2. todo'[f] = todo[f] \ {b} /\ pc[f] = "unblock"
      BY <1>5 DEF UnblockGone
    <2> QED
      BY <1>1, <1>5, <2>1, <2>2 DEF UnblockGone, Remembered
  <1>6. CASE Finish(f)
    BY <1>1, <1>6 DEF Finish, Remembered
  <1> QED
    BY <1>2, <1>3, <1>4, <1>5, <1>6 DEF Refresh

LEMMA FeedStep == ASSUME FeedInv, [Next]_vars PROVE FeedInv'
  <1>1. TypeOK'
    BY TypeStep DEF FeedInv
  <1> SUFFICES ASSUME NEW f \in Feed, NEW a \in Addr
               PROVE  /\ Remembered(f, a)'
                      /\ pc'[f] = "block" => todo'[f] \subseteq fresh'[f]
    <2>1. \A f \in Feed : pc'[f] = "block" => todo'[f] \subseteq fresh'[f]
      BY <1>1 DEF TypeOK
    <2> QED
      BY <1>1, <2>1 DEF FeedInv, TodoFetched, BlocksRemembered, Remembered
  <1>2. CASE Refresh(f)
    BY <1>2, OwnStep
  <1>3. ASSUME NEW g \in Feed, Refresh(g), g # f
        PROVE  /\ Remembered(f, a)'
               /\ pc'[f] = "block" => todo'[f] \subseteq fresh'[f]
    <2>1. /\ current'[f] = current[f] /\ fresh'[f] = fresh[f]
          /\ todo'[f] = todo[f] /\ pc'[f] = pc[f]
      BY <1>3, FetchStarts DEF Refresh, Start, BlockNew, BlockDone, UnblockGone,
         Finish, FeedInv, TypeOK
    <2>2. rule'[a] = f => rule[a] = f /\ (a \in orphaned => a \in orphaned')
      BY <1>3, FetchStarts, ConstantsOK DEF Refresh, Start, BlockNew, BlockDone,
         UnblockGone, Finish, FeedInv, TypeOK
    <2> QED
      BY <2>1, <2>2, OtherStep
  <1>4. ASSUME NEW g \in Feed, NEW S \in SUBSET Sources[g], SetSources(g, S)
        PROVE  /\ Remembered(f, a)'
               /\ pc'[f] = "block" => todo'[f] \subseteq fresh'[f]
    BY <1>4, OtherStep DEF SetSources
  <1>5. ASSUME NEW b \in Addr, OperatorBlock(b) \/ OperatorUnblock(b)
        PROVE  /\ Remembered(f, a)'
               /\ pc'[f] = "block" => todo'[f] \subseteq fresh'[f]
    <2>1. rule'[a] = f => rule[a] = f /\ (a \in orphaned => a \in orphaned')
      BY <1>5, ConstantsOK DEF OperatorBlock, OperatorUnblock, FeedInv, TypeOK
    <2> QED
      BY <1>5, <2>1, OtherStep DEF OperatorBlock, OperatorUnblock
  <1>6. CASE UNCHANGED vars
    BY <1>6, OtherStep DEF vars
  <1>7. CASE Restart
    <2>1. rule'[a] = f => a \in orphaned'
      BY <1>7, ConstantsOK DEF Restart
    <2> QED
      BY <1>7, <2>1 DEF Restart, Remembered
  <1> QED
    BY <1>2, <1>3, <1>4, <1>5, <1>6, <1>7 DEF Next, Refresh

\* Every block that carries a feed's reason is one the feed remembers, whatever
\* the other feeds and the operators do to the address in between; what a
\* restart brought back and what a failed Unblock left are named as orphans.
THEOREM FeedsRemember == Spec => []BlocksRemembered
  <1>1. Init => FeedInv
    BY ConstantsOK DEF Init, FeedInv, TypeOK, TodoFetched, BlocksRemembered,
       Reason, Nothing
  <1>2. FeedInv /\ [Next]_vars => FeedInv'
    BY FeedStep
  <1>3. FeedInv => BlocksRemembered
    BY DEF FeedInv
  <1> QED
    BY <1>1, <1>2, <1>3, PTL DEF Spec

\* Every reachable state has the types.
THEOREM TypeCorrect == Spec => []TypeOK
  <1>1. Init => TypeOK
    BY ConstantsOK DEF Init, TypeOK, Reason, Nothing
  <1> QED
    BY <1>1, TypeStep, PTL DEF Spec

-----------------------------------------------------------------------------
(* What a feed lists is blocked.  An address that is private to a feed is   *)
(* one no other loop ever has in its hands, and the feed's own steps lift   *)
(* it only when the refresh under way did not fetch it.                     *)

\* The addresses feed f may ever be told of.
Nameable(f) == UNION {UNION Answers[s] : s \in Sources[f]}

Named ==
  \A f \in Feed :
    /\ configured[f] \subseteq Sources[f]
    /\ current[f] \cup fresh[f] \cup todo[f] \subseteq Nameable(f)

\* What f lists, or will list when this refresh is over.
Listing(f, a) ==
  \/ pc[f] = "idle" /\ a \in current[f]
  \/ pc[f] = "block" /\ a \in current[f] \cup (fresh[f] \ todo[f])
  \/ pc[f] = "unblock" /\ a \in fresh[f]

Guarded(f, a) ==
  Private(f, a) /\ Listing(f, a) /\ a \notin missed[f] => rule[a] # "none"

ListedInv ==
  /\ Named
  /\ \A f \in Feed : pc[f] = "unblock" => todo[f] \cap fresh[f] = {}
  /\ \A f \in Feed, a \in Addr : Guarded(f, a)

\* A refresh starts with addresses its feed may be told of.
LEMMA FetchNamed ==
  ASSUME TypeOK, Named, NEW f \in Feed, FetchSome(f) \/ FetchAll(f)
  PROVE  \E got \in SUBSET Addr : Start(f, got) /\ got \subseteq Nameable(f)
  <1>1. ASSUME NEW ok \in SUBSET Sources[f], NEW got \in Fetched(ok)
        PROVE  got \subseteq Nameable(f) /\ got \in SUBSET Addr
    <2>1. PICK ans \in [ok -> UNION {Answers[s] : s \in ok}] :
            (\A s \in ok : ans[s] \in Answers[s]) /\ got = UNION {ans[s] : s \in ok}
      BY <1>1 DEF Fetched
    <2>2. \A s \in ok : s \in Source /\ s \in Sources[f]
      BY ConstantsOK
    <2>3. \A s \in ok : ans[s] \subseteq UNION Answers[s] /\ ans[s] \in SUBSET Addr
      BY <2>1, <2>2, ConstantsOK
    <2> QED
      BY <2>1, <2>2, <2>3 DEF Nameable
  <1>2. configured[f] \in SUBSET Sources[f]
    BY DEF Named
  <1>3. CASE FetchSome(f)
    <2>1. PICK ok \in SUBSET configured[f] : \E got \in Fetched(ok) : Start(f, got)
      BY <1>3 DEF FetchSome
    <2>2. PICK got \in Fetched(ok) : Start(f, got)
      BY <2>1
    <2>3. ok \in SUBSET Sources[f]
      BY <1>2
    <2> QED
      BY <1>1, <2>2, <2>3
  <1>4. CASE FetchAll(f)
    <2>1. PICK got \in Fetched(configured[f]) : Start(f, got)
      BY <1>4 DEF FetchAll
    <2> QED
      BY <1>1, <1>2, <2>1
  <1> QED
    BY <1>3, <1>4

LEMMA NamedStep == ASSUME TypeOK, Named, [Next]_vars PROVE Named'
  <1> USE DEF TypeOK, Named
  <1>1. ASSUME NEW g \in Feed, FetchSome(g) \/ FetchAll(g) PROVE Named'
    <2>1. PICK got \in SUBSET Addr : Start(g, got) /\ got \subseteq Nameable(g)
      BY <1>1, FetchNamed
    <2> QED
      BY <2>1 DEF Start, Nameable
  <1>2. ASSUME NEW g \in Feed, NEW b \in Addr, BlockNew(g, b) \/ UnblockGone(g, b)
        PROVE  Named'
    BY <1>2 DEF BlockNew, UnblockGone, Nameable
  <1>3. ASSUME NEW g \in Feed, BlockDone(g) \/ Finish(g) PROVE Named'
    BY <1>3 DEF BlockDone, Finish, Gone, Nameable
  <1>4. ASSUME NEW g \in Feed, NEW S \in SUBSET Sources[g], SetSources(g, S)
        PROVE  Named'
    BY <1>4 DEF SetSources, Nameable
  <1>5. ASSUME NEW b \in Addr, OperatorBlock(b) \/ OperatorUnblock(b) PROVE Named'
    BY <1>5 DEF OperatorBlock, OperatorUnblock, Nameable
  <1>6. CASE Restart
    BY <1>6, ConstantsOK DEF Restart, Nothing
  <1>7. CASE UNCHANGED vars
    BY <1>7 DEF vars, Nameable
  <1> QED
    BY <1>1, <1>2, <1>3, <1>4, <1>5, <1>6, <1>7 DEF Next

\* A feed's own steps.
LEMMA GuardedOwn ==
  ASSUME TypeOK, ListedInv, NEW f \in Feed, Refresh(f), NEW a \in Addr
  PROVE  /\ Guarded(f, a)'
         /\ pc'[f] = "unblock" => todo'[f] \cap fresh'[f] = {}
  <1> USE DEF TypeOK
  <1>1. Guarded(f, a) /\ (pc[f] = "unblock" => todo[f] \cap fresh[f] = {})
    BY DEF ListedInv
  <1>2. CASE FetchSome(f) \/ FetchAll(f)
    <2>1. PICK got \in SUBSET Addr : Start(f, got)
      BY <1>2, FetchStarts
    <2>2. /\ pc[f] = "idle" /\ pc'[f] = "block" /\ fresh'[f] = got
          /\ todo'[f] = got \ current[f]
          /\ UNCHANGED <<rule, current, missed>>
      BY <2>1 DEF Start
    <2> QED
      BY <1>1, <2>2 DEF Guarded, Listing, Private
  <1>3. ASSUME NEW b \in Addr, BlockNew(f, b)
        PROVE  /\ Guarded(f, a)'
               /\ pc'[f] = "unblock" => todo'[f] \cap fresh'[f] = {}
    <2>1. /\ pc[f] = "block" /\ pc' = pc
          /\ current' = current /\ fresh' = fresh /\ todo'[f] = todo[f] \ {b}
      BY <1>3 DEF BlockNew
    <2>2. CASE a = b
      <3>1. f # "none"
        BY ConstantsOK
      <3>2. rule'[a] = f \/ a \in missed'[f]
        BY <1>3, <2>2 DEF BlockNew
      <3> QED
        BY <2>1, <3>1, <3>2 DEF Guarded
    <2>3. CASE a # b
      <3>1. rule'[a] = rule[a] /\ (a \in missed'[f] <=> a \in missed[f])
        BY <1>3, <2>3 DEF BlockNew
      <3>2. Listing(f, a)' => Listing(f, a)
        BY <2>1, <2>3 DEF Listing
      <3> QED
        BY <1>1, <2>1, <3>1, <3>2 DEF Guarded, Private
    <2> QED
      BY <2>2, <2>3
  <1>4. CASE BlockDone(f)
    <2>1. /\ pc[f] = "block" /\ pc'[f] = "unblock" /\ todo[f] = {}
          /\ todo'[f] = current[f] \ fresh[f]
          /\ UNCHANGED <<rule, current, fresh, missed>>
      BY <1>4 DEF BlockDone, Gone
    <2> QED
      BY <1>1, <2>1 DEF Guarded, Listing, Private
  <1>5. ASSUME NEW b \in Addr, UnblockGone(f, b)
        PROVE  /\ Guarded(f, a)'
               /\ pc'[f] = "unblock" => todo'[f] \cap fresh'[f] = {}
    <2>1. /\ pc[f] = "unblock" /\ b \in todo[f] /\ todo'[f] = todo[f] \ {b}
          /\ a # b => rule'[a] = rule[a]
          /\ UNCHANGED <<pc, current, fresh, missed>>
      BY <1>5 DEF UnblockGone
    <2> QED
      BY <1>1, <2>1 DEF Guarded, Listing, Private
  <1>6. CASE Finish(f)
    <2>1. /\ pc[f] = "unblock" /\ pc'[f] = "idle" /\ current'[f] = fresh[f]
          /\ UNCHANGED <<rule, fresh, missed>>
      BY <1>6 DEF Finish
    <2> QED
      BY <1>1, <2>1 DEF Guarded, Listing, Private
  <1> QED
    BY <1>2, <1>3, <1>4, <1>5, <1>6 DEF Refresh

\* Another feed's steps: the address is none it may be told of.
LEMMA GuardedOther ==
  ASSUME TypeOK, ListedInv, NEW f \in Feed, NEW g \in Feed, g # f, Refresh(g),
         NEW a \in Addr
  PROVE  /\ Guarded(f, a)'
         /\ pc'[f] = "unblock" => todo'[f] \cap fresh'[f] = {}
  <1>1. /\ current'[f] = current[f] /\ fresh'[f] = fresh[f]
        /\ todo'[f] = todo[f] /\ pc'[f] = pc[f] /\ missed'[f] = missed[f]
    BY FetchStarts DEF Refresh, Start, BlockNew, BlockDone, UnblockGone,
       Finish, TypeOK
  <1>2. Private(f, a) => rule'[a] = rule[a]
    <2> SUFFICES ASSUME Private(f, a) PROVE rule'[a] = rule[a]
      OBVIOUS
    <2>1. a \notin todo[g]
      BY DEF Private, ListedInv, Named, Nameable
    <2>2. ASSUME NEW b \in Addr, BlockNew(g, b) \/ UnblockGone(g, b)
          PROVE  rule'[a] = rule[a]
      BY <2>1, <2>2 DEF BlockNew, UnblockGone, TypeOK
    <2>3. CASE FetchSome(g) \/ FetchAll(g)
      BY <2>3, FetchStarts DEF Start
    <2>4. CASE BlockDone(g) \/ Finish(g)
      BY <2>4 DEF BlockDone, Finish
    <2> QED
      BY <2>2, <2>3, <2>4 DEF Refresh
  <1> QED
    BY <1>1, <1>2 DEF ListedInv, Guarded, Listing, Private

LEMMA ListedStep == ASSUME TypeOK, ListedInv, [Next]_vars PROVE ListedInv'
  <1>1. Named'
    BY NamedStep DEF ListedInv
  <1>2. TypeOK'
    BY TypeStep
  <1> DEFINE Apart(f) == pc[f] = "unblock" => todo[f] \cap fresh[f] = {}
  <1> SUFFICES ASSUME NEW f \in Feed, NEW a \in Addr
               PROVE  Guarded(f, a)' /\ Apart(f)'
    <2>1. \A f \in Feed : Apart(f)'
      BY <1>2 DEF TypeOK
    <2> QED
      BY <1>1, <2>1 DEF ListedInv
  <1>3. Guarded(f, a) /\ Apart(f)
    BY DEF ListedInv
  <1>4. CASE \E g \in Feed : Refresh(g)
    BY <1>4, GuardedOwn, GuardedOther
  <1>5. CASE UNCHANGED <<rule, current, fresh, todo, pc, missed>>
    BY <1>3, <1>5 DEF Guarded, Listing, Private
  <1>6. ASSUME NEW b \in Addr, OperatorBlock(b) \/ OperatorUnblock(b)
        PROVE  Guarded(f, a)' /\ Apart(f)'
    <2>1. UNCHANGED <<current, fresh, todo, pc, missed>>
      BY <1>6 DEF OperatorBlock, OperatorUnblock
    <2>2. a \notin Manual => rule'[a] = rule[a]
      BY <1>6 DEF OperatorBlock, OperatorUnblock, TypeOK
    <2> QED
      BY <1>3, <2>1, <2>2 DEF Guarded, Listing, Private
  <1>7. CASE Restart
    BY <1>7 DEF Restart, Guarded, Listing, Nothing
  <1> QED
    BY <1>4, <1>5, <1>6, <1>7 DEF Next, Refresh, SetSources, vars

\* What Resolutions and CountryRanges list of the addresses that are a feed's
\* alone is blocked, unless the firewall refused it: no refresh, failed half
\* way or not, no reconfiguration and no restart leaves a gap.
THEOREM ListedCorrect == Spec => []ListedBlocked
  <1>1. Init => ListedInv
    BY ConstantsOK DEF Init, ListedInv, Named, Guarded, Listing, Nothing
  <1>2. TypeOK /\ ListedInv /\ [Next]_vars => ListedInv'
    BY ListedStep
  <1>3. ListedInv /\ TypeOK => ListedBlocked
    <2> SUFFICES ASSUME ListedInv, TypeOK, NEW f \in Feed, pc[f] = "idle",
                        NEW a \in current[f] \ missed[f], Private(f, a)
                 PROVE  rule[a] # "none"
      BY DEF ListedBlocked
    <2>1. a \in Addr
      BY DEF TypeOK
    <2> QED
      BY <2>1 DEF ListedInv, Guarded, Listing
  <1> QED
    BY <1>1, <1>2, <1>3, TypeCorrect, PTL DEF Spec

-----------------------------------------------------------------------------
(* The reader of a policy file.                                            *)

\* What the policy is at any time: sections, of which one is a list of entries.
PolShape == (\E X : pol \in [DOMAIN Policy0 -> X]) /\ \E B : pol.block \in Seq(B)

\* What is open is the entry or section that the last line belongs to; outside of
\* the sections and before the first entry of a block list there is nothing.
OpenIs(n) ==
  \/ /\ open = <<>>
     /\ sect = "none" \/ (sect = "block" /\ file[Root(n)].is # "item")
  \/ /\ sect \in Sections \cup {"block"} /\ Root(n) > 0
     /\ open = <<Built(Root(n), sect)>>
     /\ sect = "block" <=> file[Root(n)].is = "item"

\* Every number up to the count of entries is the rank of one.
Ranked == \A j \in 1 .. Cardinality(Items) : \E i \in Items : Rank(i) = j

\* While the file is read: every line so far can be, and what was read with what is
\* open is what they say.
ReadInv ==
  /\ file \in Seq(Line) /\ Ranked
  /\ \A i \in DOMAIN file : LineSays(i)
  /\ sect = SectionOf(Len(file)) /\ OpenIs(Len(file))
  /\ Flushed = Meaning

PolicyInv == (verdict = "reading" => ReadInv) /\ ParsedAsWritten

LEMMA MaxIs ==
  ASSUME NEW S, S \subseteq Nat, NEW m \in S, \A x \in S : x <= m
  PROVE  Max(S) = m
  <1>1. \A y \in S : (\A x \in S : y >= x) => y = m
    OBVIOUS
  <1>2. m \in S /\ \A x \in S : m >= x
    OBVIOUS
  <1> QED
    BY <1>1, <1>2 DEF Max

\* A set of numbers has a maximum: what n lacks to it is the least of what it lacks.
LEMMA MaxExists ==
  ASSUME NEW n \in Nat, NEW S, S \subseteq 0 .. n, S # {}
  PROVE  Max(S) \in S /\ \A x \in S : x <= Max(S)
  <1>7. S \subseteq Nat
    OBVIOUS
  <1> DEFINE T == {n - x : x \in S}
             R == OpToRel(<, Nat)
  <1>1. T \subseteq Nat /\ T # {}
    <2>1. \A x \in S : x \in Nat /\ n - x \in Nat
      OBVIOUS
    <2> QED
      BY <2>1
  <1>2. IsWellFoundedOn(R, Nat)
    BY NatLessThanWellFounded
  <1>3. \A x, y \in Nat : <<y, x>> \in R <=> y < x
    BY DEF OpToRel
  <1> HIDE DEF R
  <1>4. PICK t \in T : \A y \in T : ~ (<<y, t>> \in R)
    BY <1>1, <1>2, WFMin
  <1>5. PICK m \in S : t = n - m
    BY <1>4
  <1>6. \A x \in S : x <= m
    <2> SUFFICES ASSUME NEW x \in S PROVE x <= m
      OBVIOUS
    <2>1. x \in Nat /\ m \in Nat
      BY <1>7, Zenon
    <2>3. n - x \in T
      BY Zenon
    <2>2. ~ (n - x < t)
      BY <1>1, <1>3, <1>4, <2>1, <2>3
    <2> QED
      BY <1>5, <2>1, <2>2
  <1>8. Max(S) = m
    BY <1>5, <1>6, <1>7, MaxIs
  <1> QED
    BY <1>5, <1>6, <1>8

-----------------------------------------------------------------------------
(* Where the lines of a file belong.                                       *)

LEMMA OpenerIs ==
  ASSUME file \in Seq(Line), NEW i \in 0 .. Len(file)
  PROVE  /\ Opener(i) \in 0 .. i
         /\ Opener(i) > 0 => Opens(Opener(i))
         /\ \A h \in 1 .. i : Opens(h) => h <= Opener(i)
  <1> DEFINE S == {0} \cup {h \in 1 .. i : Opens(h)}
  <1>1. S \subseteq 0 .. i /\ S # {}
    OBVIOUS
  <1>2. i \in Nat
    OBVIOUS
  <1> HIDE DEF S
  <1>3. Max(S) \in S /\ \A x \in S : x <= Max(S)
    BY <1>1, <1>2, MaxExists
  <1> QED
    BY <1>3 DEF S, Opener

LEMMA RootIs ==
  ASSUME file \in Seq(Line), NEW i \in 0 .. Len(file)
  PROVE  /\ Root(i) \in Opener(i) .. i
         /\ Root(i) # Opener(i) => file[Root(i)].is = "item"
         /\ \A h \in Opener(i) .. i : h > 0 /\ file[h].is = "item" => h <= Root(i)
  <1> DEFINE S == {Opener(i)} \cup {h \in Opener(i) .. i : h > 0 /\ file[h].is = "item"}
  <1>1. Opener(i) \in 0 .. i /\ i \in Nat
    BY OpenerIs
  <1>2. S \subseteq 0 .. i /\ S # {}
    BY <1>1
  <1> HIDE DEF S
  <1>3. Max(S) \in S /\ \A x \in S : x <= Max(S)
    BY <1>1, <1>2, MaxExists
  <1> QED
    BY <1>1, <1>3 DEF S, Root

\* A line is read.
Reads(l, n) == file \in Seq(Line) /\ n = Len(file) /\ file' = Append(file, l)

LEMMA ReadFile ==
  ASSUME NEW l \in Line, NEW n, Reads(l, n)
  PROVE  /\ file' \in Seq(Line) /\ n \in Nat /\ Len(file') = n + 1
         /\ DOMAIN file = 1 .. n /\ DOMAIN file' = 1 .. n + 1
         /\ file'[n + 1] = l /\ \A i \in 1 .. n : file'[i] = file[i]
  BY DEF Reads

LEMMA OpenersStay ==
  ASSUME NEW l \in Line, NEW n, Reads(l, n), NEW i \in 0 .. n
  PROVE  Opener(i)' = Opener(i) /\ Root(i)' = Root(i) /\ SectionOf(i)' = SectionOf(i)
  <1>1. n \in Nat /\ \A h \in 1 .. n : file'[h] = file[h]
    BY ReadFile
  <1>2. {h \in 1 .. i : Opens(h)'} = {h \in 1 .. i : Opens(h)}
    BY <1>1 DEF Opens
  <1>3. Opener(i)' = Opener(i)
    BY <1>2, Zenon DEF Opener
  <1>4. Opener(i) \in 0 .. i
    BY OpenerIs DEF Reads
  <1>5. {h \in Opener(i) .. i : h > 0 /\ file'[h].is = "item"} =
          {h \in Opener(i) .. i : h > 0 /\ file[h].is = "item"}
    BY <1>1, <1>4
  <1>6. Root(i)' = Root(i)
    BY <1>3, <1>5, Zenon DEF Root
  <1>7. SectionOf(i)' = SectionOf(i)
    BY <1>1, <1>3, <1>4 DEF SectionOf
  <1> QED
    BY <1>3, <1>6, <1>7

LEMMA NewOpener ==
  ASSUME NEW l \in Line, NEW n, Reads(l, n)
  PROVE  /\ l.is \in {"version", "header"} => /\ Opener(n + 1)' = n + 1
                                              /\ Root(n + 1)' = n + 1
         /\ l.is \in {"item", "field"} => /\ Opener(n + 1)' = Opener(n)
                                          /\ SectionOf(n + 1)' = SectionOf(n)
         /\ l.is = "item" => Root(n + 1)' = n + 1
         /\ l.is = "field" => Root(n + 1)' = Root(n)
         /\ l.is = "version" => SectionOf(n + 1)' = "none"
         /\ l.is = "header" => SectionOf(n + 1)' = l.key
  <1>1. /\ file' \in Seq(Line) /\ n \in Nat /\ Len(file') = n + 1
        /\ file'[n + 1] = l /\ \A i \in 1 .. n : file'[i] = file[i]
    BY ReadFile
  <1>2. CASE l.is \in {"version", "header"}
    <2>1. Opens(n + 1)'
      BY <1>1, <1>2 DEF Opens
    <2> DEFINE S == {0} \cup {h \in 1 .. n + 1 : Opens(h)'}
               T == {n + 1} \cup {h \in n + 1 .. n + 1 : h > 0 /\ file'[h].is = "item"}
    <2>2. S \subseteq Nat /\ n + 1 \in S /\ \A x \in S : x <= n + 1
      BY <1>1, <2>1
    <2>3. T \subseteq Nat /\ n + 1 \in T /\ \A x \in T : x <= n + 1
      BY <1>1
    <2>4. Opener(n + 1)' = Max(S)
      BY DEF Opener
    <2> HIDE DEF S, T
    <2>5. Opener(n + 1)' = n + 1
      BY <2>2, <2>4, MaxIs
    <2>6. Root(n + 1)' = Max(T)
      BY <2>5 DEF Root, T
    <2>7. Root(n + 1)' = n + 1
      BY <2>3, <2>6, MaxIs
    <2>8. SectionOf(n + 1)' = IF l.is = "version" THEN "none" ELSE l.key
      BY <1>1, <2>5 DEF SectionOf
    <2> QED
      BY <1>2, <2>5, <2>7, <2>8
  <1>3. CASE l.is \in {"item", "field"}
    <2>1. ~Opens(n + 1)' /\ \A h \in 1 .. n : Opens(h)' <=> Opens(h)
      BY <1>1, <1>3 DEF Opens
    <2>2. {h \in 1 .. n + 1 : Opens(h)'} = {h \in 1 .. n : Opens(h)}
      BY <1>1, <2>1
    <2>3. Opener(n + 1)' = Opener(n)
      BY <2>2, Zenon DEF Opener
    <2>4. Opener(n) \in 0 .. n
      BY <1>1, OpenerIs DEF Reads
    <2>5. SectionOf(n + 1)' = SectionOf(n)
      BY <1>1, <2>3, <2>4 DEF SectionOf
    <2> DEFINE S == {Opener(n)} \cup {h \in Opener(n) .. n + 1 : h > 0 /\ file'[h].is = "item"}
    <2>6. Root(n + 1)' = Max(S)
      BY <2>3 DEF Root
    <2>7. CASE l.is = "item"
      <3>1. S \subseteq Nat /\ n + 1 \in S /\ \A x \in S : x <= n + 1
        BY <1>1, <2>4, <2>7
      <3> HIDE DEF S
      <3>2. Max(S) = n + 1
        BY <3>1, MaxIs
      <3> QED
        BY <2>3, <2>5, <2>6, <2>7, <3>2
    <2>8. CASE l.is = "field"
      <3>1. {h \in Opener(n) .. n + 1 : h > 0 /\ file'[h].is = "item"} =
              {h \in Opener(n) .. n : h > 0 /\ file[h].is = "item"}
        BY <1>1, <2>4, <2>8
      <3>2. Root(n + 1)' = Root(n)
        BY <2>6, <3>1, Zenon DEF Root
      <3> QED
        BY <2>3, <2>5, <2>8, <3>2
    <2> QED
      BY <1>3, <2>7, <2>8
  <1> QED
    BY <1>2, <1>3, LinesOK

LEMMA LinesStay ==
  ASSUME NEW l \in Line, NEW n, Reads(l, n), NEW i \in 1 .. n
  PROVE  LineSays(i)' <=> LineSays(i)
  <1>1. n \in Nat /\ \A h \in 1 .. n : file'[h] = file[h]
    BY ReadFile
  <1>2. Root(i)' = Root(i) /\ SectionOf(i)' = SectionOf(i)
    BY <1>1, OpenersStay
  <1>3. Opener(i) \in 0 .. i /\ Root(i) \in Opener(i) .. i
    BY <1>1, OpenerIs, RootIs DEF Reads
  <1>4. SectionOf(i) # "none" => Root(i) \in 1 .. n
    BY <1>1, <1>3 DEF SectionOf
  <1>5. SectionOf(i) # "none" => file'[Root(i)] = file[Root(i)]
    BY <1>1, <1>4
  <1>6. file'[i] = file[i]
    BY <1>1
  <1> QED
    BY <1>2, <1>5, <1>6, Zenon DEF LineSays

\* What the next line has to say: the reader's own conditions.
LineFits(l, n) ==
  /\ l.is = "version" => VersionOf(l.value) >= 0
  /\ l.is = "item" => /\ SectionOf(n) = "block" /\ l.key \in DOMAIN Zero["block"]
                      /\ Accepts(l.key, l.value)
  /\ l.is = "field" => /\ SectionOf(n) # "none" /\ l.key \in DOMAIN Zero[SectionOf(n)]
                       /\ Accepts(l.key, l.value)
                       /\ SectionOf(n) = "block" <=> file[Root(n)].is = "item"

LEMMA NewLine ==
  ASSUME NEW l \in Line, NEW n, Reads(l, n)
  PROVE  LineSays(n + 1)' <=> LineFits(l, n)
  <1>1. /\ n \in Nat /\ file'[n + 1] = l /\ \A h \in 1 .. n : file'[h] = file[h]
    BY ReadFile
  <1>2. CASE l.is = "version" \/ l.is = "header"
    BY <1>1, <1>2, Zenon DEF LineSays, LineFits
  <1>3. CASE l.is = "item"
    <2>1. SectionOf(n + 1)' = SectionOf(n) /\ Root(n + 1)' = n + 1
      BY <1>3, NewOpener
    <2>2. file'[Root(n + 1)'].is = "item"
      BY <1>1, <1>3, <2>1
    <2>3. "block" # "none"
      OBVIOUS
    <2> QED
      BY <1>1, <1>3, <2>1, <2>2, <2>3, Zenon DEF LineSays, LineFits
  <1>4. CASE l.is = "field"
    <2>1. SectionOf(n + 1)' = SectionOf(n) /\ Root(n + 1)' = Root(n)
      BY <1>4, NewOpener
    <2>2. Opener(n) \in 0 .. n /\ Root(n) \in Opener(n) .. n
      BY <1>1, OpenerIs, RootIs DEF Reads
    <2>3. SectionOf(n) # "none" => file'[Root(n)] = file[Root(n)]
      BY <1>1, <2>2 DEF SectionOf
    <2> QED
      BY <1>1, <1>4, <2>1, <2>3, Zenon DEF LineSays, LineFits
  <1> QED
    BY <1>2, <1>3, <1>4, LinesOK

-----------------------------------------------------------------------------
(* What lines say.                                                         *)

\* A line without a value leaves a limit as it was.
Silent(l) == l.key \in Optional /\ Text(l.value) = ""

LEMMA SaysStep ==
  ASSUME NEW l \in Line, NEW n, Reads(l, n), NEW r \in 0 .. n + 1, NEW k
  PROVE  /\ Says(r, k) \subseteq 1 .. n
         /\ r = n + 1 => Says(r, k) = {}
         /\ IF l.is \in {"item", "field"} /\ Root(n + 1)' = r /\ l.key = k /\ ~Silent(l)
            THEN Says(r, k)' = Says(r, k) \cup {n + 1}
            ELSE Says(r, k)' = Says(r, k)
  <1>1. /\ n \in Nat /\ file'[n + 1] = l /\ \A h \in 1 .. n : file'[h] = file[h]
        /\ DOMAIN file = 1 .. n /\ DOMAIN file' = 1 .. n + 1
    BY ReadFile
  <1>2. Says(r, k) \subseteq 1 .. n
    BY <1>1 DEF Says
  <1>3. \A i \in 1 .. n : Root(i)' = Root(i) /\ Root(i) <= n
    <2> SUFFICES ASSUME NEW i \in 1 .. n PROVE Root(i)' = Root(i) /\ Root(i) <= n
      OBVIOUS
    <2>1. Opener(i) \in 0 .. i /\ Root(i) \in Opener(i) .. i
      BY <1>1, OpenerIs, RootIs DEF Reads
    <2>2. Root(i)' = Root(i)
      BY <1>1, OpenersStay
    <2> QED
      BY <1>1, <2>1, <2>2
  <1>4. r = n + 1 => Says(r, k) = {}
    <2> SUFFICES ASSUME r = n + 1, NEW i \in Says(r, k) PROVE FALSE
      OBVIOUS
    <2>1. i \in 1 .. n /\ Root(i) = r
      BY <1>1 DEF Says
    <2> QED
      BY <1>1, <1>3, <2>1
  <1>5. ASSUME NEW i \in 1 .. n PROVE i \in Says(r, k)' <=> i \in Says(r, k)
    <2>1. Opens(i)' <=> Opens(i)
      BY <1>1 DEF Opens
    <2>2. i \in DOMAIN file /\ i \in DOMAIN file' /\ file'[i] = file[i] /\ Root(i)' = Root(i)
      BY <1>1, <1>3
    <2> QED
      BY <2>1, <2>2, Zenon DEF Says
  <1>6. n + 1 \in Says(r, k)' <=>
          l.is \in {"item", "field"} /\ Root(n + 1)' = r /\ l.key = k /\ ~Silent(l)
    <2>1. Opens(n + 1)' <=> l.is \notin {"item", "field"}
      BY <1>1, LinesOK DEF Opens
    <2>2. n + 1 \in DOMAIN file'
      BY <1>1
    <2> QED
      BY <1>1, <2>1, <2>2, Zenon DEF Says, Silent
  <1>7. Says(r, k)' \subseteq 1 .. n + 1
    BY <1>1 DEF Says
  <1>8. \A i \in Says(r, k)' : i \in 1 .. n \/ i = n + 1
    BY <1>1, <1>7
  <1>9. n + 1 \notin Says(r, k)
    BY <1>1, <1>2
  <1> QED
    BY <1>2, <1>4, <1>5, <1>6, <1>8, <1>9

LEMMA BuiltStays ==
  ASSUME NEW l \in Line, NEW n, Reads(l, n), NEW r \in 0 .. n, NEW s,
         l.is \in {"item", "field"} => Root(n + 1)' # r
  PROVE  Built(r, s)' = Built(r, s)
  <1>1. n \in Nat /\ \A h \in 1 .. n : file'[h] = file[h]
    BY ReadFile
  <1>2. ASSUME NEW k
        PROVE  /\ Says(r, k)' = Says(r, k)
               /\ Says(r, k) # {} => file'[Max(Says(r, k))] = file[Max(Says(r, k))]
    <2>1. r \in 0 .. n + 1
      BY <1>1
    <2>2. Says(r, k) \subseteq 1 .. n /\ Says(r, k)' = Says(r, k)
      BY <2>1, SaysStep
    <2>3. Says(r, k) # {} => Max(Says(r, k)) \in 1 .. n
      BY <1>1, <2>2, MaxExists
    <2> QED
      BY <1>1, <2>2, <2>3
  <1>3. ASSUME NEW k
        PROVE  (IF Says(r, k)' = {} THEN Zero[s][k]
                ELSE Taken(k, file'[Max(Says(r, k)')].value, Zero[s][k])) =
               (IF Says(r, k) = {} THEN Zero[s][k]
                ELSE Taken(k, file[Max(Says(r, k))].value, Zero[s][k]))
    <2>1. Says(r, k)' = Says(r, k)
      BY <1>2
    <2>2. CASE Says(r, k) = {}
      BY <2>1, <2>2, Zenon
    <2>3. CASE Says(r, k) # {}
      <3>1. file'[Max(Says(r, k))] = file[Max(Says(r, k))]
        BY <1>2, <2>3
      <3> QED
        BY <2>1, <2>3, <3>1, Zenon
    <2> QED
      BY <2>2, <2>3
  <1> QED
    BY <1>3, Zenon DEF Built

Keys == {"ip", "label", "sequence"} \cup Optional \cup DOMAIN Numeric \cup Names

LEMMA ZeroIs ==
  /\ DOMAIN Zero = {"none", "block", "syn_cookie", "knock", "dns", "geoip"}
  /\ Sections = {"syn_cookie", "knock", "dns", "geoip"}
  /\ DOMAIN Zero["none"] = {}
  /\ \A s \in DOMAIN Zero : /\ DOMAIN Zero[s] \subseteq Keys
                            /\ Zero[s] = [k \in DOMAIN Zero[s] |-> Zero[s][k]]
  <1>1. DOMAIN Zero = {"none", "block", "syn_cookie", "knock", "dns", "geoip"}
    BY DEF Zero
  <1>2. Sections = {"syn_cookie", "knock", "dns", "geoip"}
    BY <1>1 DEF Sections
  <1>3. DOMAIN Zero["none"] = {} /\ Zero["none"] = [k \in DOMAIN Zero["none"] |-> Zero["none"][k]]
    BY DEF Zero
  <1>4. /\ DOMAIN Zero["block"] \subseteq Keys
        /\ Zero["block"] = [k \in DOMAIN Zero["block"] |-> Zero["block"][k]]
    BY DEF Zero, Keys, Optional
  <1>5. /\ DOMAIN Zero["syn_cookie"] \subseteq Keys
        /\ Zero["syn_cookie"] = [k \in DOMAIN Zero["syn_cookie"] |-> Zero["syn_cookie"][k]]
    BY DEF Zero, Keys, Numeric
  <1>6. /\ DOMAIN Zero["knock"] \subseteq Keys
        /\ Zero["knock"] = [k \in DOMAIN Zero["knock"] |-> Zero["knock"][k]]
    BY DEF Zero, Keys, Numeric
  <1>7. /\ DOMAIN Zero["dns"] \subseteq Keys
        /\ Zero["dns"] = [k \in DOMAIN Zero["dns"] |-> Zero["dns"][k]]
    BY DEF Zero, Keys, Numeric, Names
  <1>8. /\ DOMAIN Zero["geoip"] \subseteq Keys
        /\ Zero["geoip"] = [k \in DOMAIN Zero["geoip"] |-> Zero["geoip"][k]]
    BY DEF Zero, Keys, Numeric, Names
  <1> QED
    BY <1>1, <1>2, <1>3, <1>4, <1>5, <1>6, <1>7, <1>8

LEMMA TakenAlone ==
  ASSUME NEW k \in Keys, NEW v, NEW x, NEW y
  PROVE  /\ k \in Optional /\ Text(v) = "" => Taken(k, v, x) = x
         /\ ~(k \in Optional /\ Text(v) = "") => Taken(k, v, x) = Taken(k, v, y)
  <1>1. /\ "ip" \notin DOMAIN Numeric /\ "label" \notin DOMAIN Numeric
        /\ "sequence" \notin DOMAIN Numeric /\ Optional \subseteq DOMAIN Numeric
        /\ Names \cap DOMAIN Numeric = {} /\ "ip" \notin Names /\ "label" \notin Names
        /\ "sequence" \notin Names
    BY DEF Optional, Numeric, Names
  <1>2. CASE k \in {"ip", "label"}
    <2>1. k \notin Optional /\ k \notin DOMAIN Numeric /\ k # "sequence" /\ k \notin Names
      BY <1>1, <1>2
    <2>2. \A z : Taken(k, v, z) = Text(v)
      BY <1>2, <2>1, Zenon DEF Taken
    <2> QED
      BY <2>1, <2>2
  <1>3. CASE k \in Optional /\ Text(v) = ""
    <2>1. k \notin {"ip", "label"} /\ k # "sequence" /\ k \notin Names
      BY <1>1, <1>3
    <2>2. Taken(k, v, x) = x
      BY <1>3, <2>1, Zenon DEF Taken
    <2> QED
      BY <1>3, <2>2
  <1>4. CASE k \in DOMAIN Numeric /\ ~(k \in Optional /\ Text(v) = "")
    <2>1. k \notin {"ip", "label"} /\ k # "sequence" /\ k \notin Names
      BY <1>1, <1>4
    <2>2. \A z : Taken(k, v, z) = NumberOf(v)
      BY <1>4, <2>1, Zenon DEF Taken
    <2> QED
      BY <1>4, <2>2
  <1>5. CASE k = "sequence"
    <2>1. k \notin {"ip", "label"} /\ k \notin Optional /\ k \notin DOMAIN Numeric /\ k \notin Names
      BY <1>1, <1>5
    <2>2. \A z : Taken(k, v, z) = [i \in DOMAIN Elements(v) |-> PortOf(Elements(v)[i])]
      BY <1>5, <2>1, Zenon DEF Taken
    <2> QED
      BY <2>1, <2>2
  <1>6. CASE k \in Names
    <2>1. k \notin {"ip", "label"} /\ k \notin Optional /\ k \notin DOMAIN Numeric /\ k # "sequence"
      BY <1>1, <1>6
    <2>2. \A z : Taken(k, v, z) = SelectSeq([i \in DOMAIN Elements(v) |-> Unquoted[Elements(v)[i]]],
                                          LAMBDA w : w # "")
      BY <1>6, <2>1, Zenon DEF Taken
    <2> QED
      BY <2>1, <2>2
  <1> QED
    BY <1>1, <1>2, <1>3, <1>4, <1>5, <1>6 DEF Keys

LEMMA TakenQuiet ==
  ASSUME NEW l, l.key \in Keys, Silent(l), NEW x
  PROVE  Taken(l.key, l.value, x) = x
  BY TakenAlone, Zenon DEF Silent

LEMMA TakenLoud ==
  ASSUME NEW l, l.key \in Keys, ~Silent(l), NEW x, NEW y
  PROVE  Taken(l.key, l.value, x) = Taken(l.key, l.value, y)
  BY TakenAlone, Zenon DEF Silent

LEMMA BuiltFresh ==
  ASSUME NEW l \in Line, NEW n, Reads(l, n), NEW s \in DOMAIN Zero
  PROVE  /\ Built(n + 1, s) = Zero[s]
         /\ l.is \notin {"item", "field"} => Built(n + 1, s)' = Zero[s]
  <1>1. n + 1 \in 0 .. n + 1
    BY ReadFile
  <1>2. \A k : Says(n + 1, k) = {}
    BY <1>1, SaysStep
  <1>3. Zero[s] = [k \in DOMAIN Zero[s] |-> Zero[s][k]]
    BY ZeroIs
  <1>4. Built(n + 1, s) = [k \in DOMAIN Zero[s] |-> Zero[s][k]]
    BY <1>2, Zenon DEF Built
  <1>5. ASSUME l.is \notin {"item", "field"} PROVE Built(n + 1, s)' = Zero[s]
    <2>1. \A k : Says(n + 1, k)' = {}
      BY <1>1, <1>2, <1>5, SaysStep
    <2>2. Built(n + 1, s)' = [k \in DOMAIN Zero[s] |-> Zero[s][k]]
      BY <2>1, Zenon DEF Built
    <2> QED
      BY <1>3, <2>2
  <1> QED
    BY <1>3, <1>4, <1>5

\* The next line of an entry or section sets its field.
LEMMA BuiltGrows ==
  ASSUME NEW l \in Line, NEW n, Reads(l, n), NEW r \in 0 .. n + 1, NEW s \in DOMAIN Zero,
         l.is \in {"item", "field"}, Root(n + 1)' = r, l.key \in DOMAIN Zero[s]
  PROVE  Built(r, s)' = SetField(Built(r, s), l)
  <1>1. n \in Nat /\ file'[n + 1] = l /\ \A h \in 1 .. n : file'[h] = file[h]
    BY ReadFile
  <1> DEFINE Old(k) == IF Says(r, k) = {} THEN Zero[s][k]
                       ELSE Taken(k, file[Max(Says(r, k))].value, Zero[s][k])
             New(k) == IF Says(r, k)' = {} THEN Zero[s][k]
                       ELSE Taken(k, file'[Max(Says(r, k)')].value, Zero[s][k])
  <1>2. ASSUME NEW k \in DOMAIN Zero[s], k # l.key \/ Silent(l)
        PROVE  New(k) = Old(k)
    <2>1. Says(r, k) \subseteq 1 .. n /\ Says(r, k)' = Says(r, k)
      BY <1>2, SaysStep
    <2>2. CASE Says(r, k) = {}
      BY <2>1, <2>2, Zenon
    <2>3. CASE Says(r, k) # {}
      <3>1. Max(Says(r, k)) \in 1 .. n
        BY <1>1, <2>1, <2>3, MaxExists
      <3>2. file'[Max(Says(r, k))] = file[Max(Says(r, k))]
        BY <1>1, <3>1
      <3> QED
        BY <2>1, <2>3, <3>2, Zenon
    <2> QED
      BY <2>2, <2>3
  <1>3. l.key \in Keys
    BY ZeroIs
  <1>4. New(l.key) = Taken(l.key, l.value, Old(l.key))
    <2>1. CASE Silent(l)
      <3>1. New(l.key) = Old(l.key)
        BY <1>2, <2>1
      <3>2. Taken(l.key, l.value, Old(l.key)) = Old(l.key)
        BY <1>3, <2>1, TakenQuiet
      <3> QED
        BY <3>1, <3>2
    <2>2. CASE ~Silent(l)
      <3>1. Says(r, l.key) \subseteq 1 .. n /\ Says(r, l.key)' = Says(r, l.key) \cup {n + 1}
        BY <2>2, SaysStep
      <3>2. /\ Says(r, l.key)' \subseteq Nat /\ n + 1 \in Says(r, l.key)'
            /\ \A x \in Says(r, l.key)' : x <= n + 1
        BY <1>1, <3>1
      <3>3. Max(Says(r, l.key)') = n + 1
        BY <3>2, MaxIs
      <3>4. New(l.key) = Taken(l.key, l.value, Zero[s][l.key])
        BY <1>1, <3>2, <3>3
      <3>6. \A x, y : Taken(l.key, l.value, x) = Taken(l.key, l.value, y)
        BY <1>3, <2>2, TakenLoud
      <3>5. Taken(l.key, l.value, Zero[s][l.key]) = Taken(l.key, l.value, Old(l.key))
        BY <3>6, Zenon
      <3> QED
        BY <3>4, <3>5
    <2> QED
      BY <2>1, <2>2
  <1>5. Built(r, s) = [k \in DOMAIN Zero[s] |-> Old(k)]
    BY Zenon DEF Built
  <1>6. Built(r, s)' = [k \in DOMAIN Zero[s] |-> New(k)]
    BY Zenon DEF Built
  <1> HIDE DEF Old, New
  <1>7. SetField(Built(r, s), l) =
          [k \in DOMAIN Zero[s] |-> IF k = l.key THEN Taken(l.key, l.value, Old(l.key)) ELSE Old(k)]
    BY <1>5 DEF SetField
  <1>8. \A k \in DOMAIN Zero[s] :
          New(k) = IF k = l.key THEN Taken(l.key, l.value, Old(l.key)) ELSE Old(k)
    BY <1>2, <1>4
  <1> QED
    BY <1>6, <1>7, <1>8

-----------------------------------------------------------------------------
(* What the file says of the version, of a section and of the entries.     *)

LEMMA HeaderIs ==
  ASSUME file \in Seq(Line), NEW s
  PROVE  /\ LastHeader(s) \in 0 .. Len(file)
         /\ LastHeader(s) # 0 => /\ file[LastHeader(s)].is = "header"
                                 /\ file[LastHeader(s)].key = s
         /\ \A h \in DOMAIN file : file[h].is = "header" /\ file[h].key = s => h <= LastHeader(s)
  <1> DEFINE S == {0} \cup {h \in DOMAIN file : file[h].is = "header" /\ file[h].key = s}
  <1>1. S \subseteq 0 .. Len(file) /\ S # {} /\ Len(file) \in Nat
    OBVIOUS
  <1>2. LastHeader(s) = Max(S)
    BY DEF LastHeader
  <1> HIDE DEF S
  <1>3. Max(S) \in S /\ \A x \in S : x <= Max(S)
    BY <1>1, MaxExists
  <1> QED
    BY <1>1, <1>2, <1>3 DEF S

LEMMA HeaderStep ==
  ASSUME NEW l \in Line, NEW n, Reads(l, n), NEW s
  PROVE  /\ l.is = "header" /\ l.key = s => LastHeader(s)' = n + 1
         /\ ~(l.is = "header" /\ l.key = s) => LastHeader(s)' = LastHeader(s)
  <1>1. /\ n \in Nat /\ file'[n + 1] = l /\ \A h \in 1 .. n : file'[h] = file[h]
        /\ DOMAIN file = 1 .. n /\ DOMAIN file' = 1 .. n + 1
    BY ReadFile
  <1> DEFINE S == {0} \cup {h \in DOMAIN file' : file'[h].is = "header" /\ file'[h].key = s}
  <1>2. LastHeader(s)' = Max(S)
    BY DEF LastHeader
  <1>3. CASE l.is = "header" /\ l.key = s
    <2>1. S \subseteq Nat /\ n + 1 \in S /\ \A x \in S : x <= n + 1
      BY <1>1, <1>3
    <2> HIDE DEF S
    <2> QED
      BY <1>2, <1>3, <2>1, MaxIs
  <1>4. CASE ~(l.is = "header" /\ l.key = s)
    <2>1. S = {0} \cup {h \in DOMAIN file : file[h].is = "header" /\ file[h].key = s}
      BY <1>1, <1>4
    <2>2. LastHeader(s)' = LastHeader(s)
      BY <1>2, <2>1, Zenon DEF LastHeader
    <2> QED
      BY <1>4, <2>2
  <1> QED
    BY <1>3, <1>4

\* The version a file gives itself.
TheVersion == IF LastVersion = 0 THEN 1 ELSE VersionOf(file[LastVersion].value)

LEMMA VersionStep ==
  ASSUME NEW l \in Line, NEW n, Reads(l, n)
  PROVE  /\ l.is = "version" => TheVersion' = VersionOf(l.value)
         /\ l.is # "version" => TheVersion' = TheVersion
  <1>1. /\ n \in Nat /\ file'[n + 1] = l /\ \A h \in 1 .. n : file'[h] = file[h]
        /\ DOMAIN file = 1 .. n /\ DOMAIN file' = 1 .. n + 1
    BY ReadFile
  <1> DEFINE S == {0} \cup {h \in DOMAIN file' : file'[h].is = "version"}
             T == {0} \cup {h \in DOMAIN file : file[h].is = "version"}
  <1>2. LastVersion' = Max(S) /\ LastVersion = Max(T)
    BY DEF LastVersion
  <1>3. CASE l.is = "version"
    <2>1. S \subseteq Nat /\ n + 1 \in S /\ \A x \in S : x <= n + 1
      BY <1>1, <1>3
    <2> HIDE DEF S, T
    <2>2. LastVersion' = n + 1
      BY <1>2, <2>1, MaxIs
    <2>3. n + 1 # 0
      BY <1>1
    <2>4. VersionOf(file[LastVersion].value)' = VersionOf(l.value)
      BY <1>1, <2>2 DEF VersionOf
    <2>5. TheVersion' = VersionOf(l.value)
      BY <2>2, <2>3, <2>4, Zenon DEF TheVersion
    <2> QED
      BY <1>3, <2>5
  <1>4. CASE l.is # "version"
    <2>1. S = T
      BY <1>1, <1>4
    <2>2. T \subseteq 0 .. n /\ T # {}
      BY <1>1
    <2>3. \A h \in T : h # 0 => h \in 1 .. n
      BY <1>1
    <2> HIDE DEF S, T
    <2>4. LastVersion' = LastVersion /\ LastVersion \in T
      BY <1>1, <1>2, <2>1, <2>2, MaxExists
    <2>5. LastVersion # 0 => file'[LastVersion'] = file[LastVersion]
      BY <1>1, <2>3, <2>4
    <2>6. TheVersion' = TheVersion
      BY <2>4, <2>5, Zenon DEF TheVersion, VersionOf
    <2> QED
      BY <1>4, <2>6
  <1> QED
    BY <1>3, <1>4

LEMMA ItemsAre ==
  ASSUME file \in Seq(Line)
  PROVE  /\ Items \subseteq 1 .. Len(file) /\ IsFiniteSet(Items) /\ Cardinality(Items) \in Nat
         /\ \A i : {h \in Items : h <= i} = Items => Rank(i) = Cardinality(Items)
         /\ \A i : Rank(i) \in Nat /\ Rank(i) <= Cardinality(Items)
         /\ \A i, h \in Items : Rank(i) = Rank(h) => i = h
  <1>1. Items \subseteq 1 .. Len(file) /\ Len(file) \in Nat
    BY DEF Items
  <1>2. IsFiniteSet(1 .. Len(file))
    BY <1>1, FS_Interval
  <1>3. IsFiniteSet(Items)
    BY <1>1, <1>2, FS_Subset
  <1>4. Cardinality(Items) \in Nat
    BY <1>3, FS_CardinalityType
  <1>5. ASSUME NEW i PROVE Rank(i) \in Nat /\ Rank(i) <= Cardinality(Items)
    <2> DEFINE S == {h \in Items : h <= i}
    <2>1. S \subseteq Items /\ Rank(i) = Cardinality(S)
      BY DEF Rank
    <2> HIDE DEF S
    <2>2. IsFiniteSet(S) /\ Cardinality(S) <= Cardinality(Items)
      BY <1>3, <2>1, FS_Subset
    <2> QED
      BY <2>1, <2>2, FS_CardinalityType
  <1>6. ASSUME NEW i \in Items, NEW h \in Items, i < h PROVE Rank(i) # Rank(h)
    <2> DEFINE S == {x \in Items : x <= i}
               T == {x \in Items : x <= h}
    <2>5. i \in Int /\ h \in Int /\ \A x \in Items : x \in Int
      BY <1>1
    <2>6. \A x \in Items : x <= i => x <= h
      BY <1>6, <2>5
    <2>7. h <= h /\ ~(h <= i)
      BY <1>6, <2>5
    <2>1. S \subseteq T /\ h \in T /\ h \notin S /\ T \subseteq Items
      BY <2>6, <2>7, Zenon
    <2>2. Rank(i) = Cardinality(S) /\ Rank(h) = Cardinality(T)
      BY DEF Rank
    <2> HIDE DEF S, T
    <2>3. IsFiniteSet(T)
      BY <1>3, <2>1, FS_Subset
    <2>4. Cardinality(S) # Cardinality(T)
      BY <2>1, <2>3, FS_Subset
    <2> QED
      BY <2>2, <2>4
  <1>7. \A i, h \in Items : Rank(i) = Rank(h) => i = h
    <2> SUFFICES ASSUME NEW i \in Items, NEW h \in Items, i # h PROVE Rank(i) # Rank(h)
      OBVIOUS
    <2>1. i < h \/ h < i
      BY <1>1
    <2> QED
      BY <1>6, <2>1
  <1>8. \A i : {h \in Items : h <= i} = Items => Rank(i) = Cardinality(Items)
    BY Zenon DEF Rank
  <1> QED
    BY <1>1, <1>3, <1>4, <1>5, <1>7, <1>8

LEMMA EntryIs ==
  ASSUME file \in Seq(Line), Ranked, NEW j \in 1 .. Cardinality(Items)
  PROVE  /\ Entry(j) \in Items /\ Rank(Entry(j)) = j
         /\ \A i \in Items : Rank(i) = j => i = Entry(j)
  <1>1. \E i \in Items : Rank(i) = j
    BY DEF Ranked
  <1>2. Entry(j) \in Items /\ Rank(Entry(j)) = j
    BY <1>1, Zenon DEF Entry
  <1> QED
    BY <1>2, ItemsAre

\* An entry is the next in rank, and the others keep theirs.
LEMMA RanksStep ==
  ASSUME NEW l \in Line, NEW n, Reads(l, n)
  PROVE  /\ l.is # "item" => Items' = Items
         /\ l.is = "item" => /\ Items' = Items \cup {n + 1}
                             /\ Cardinality(Items') = Cardinality(Items) + 1
                             /\ Rank(n + 1)' = Cardinality(Items) + 1
         /\ \A i \in 1 .. n : Rank(i)' = Rank(i)
  <1>1. /\ n \in Nat /\ file'[n + 1] = l /\ \A h \in 1 .. n : file'[h] = file[h]
        /\ DOMAIN file = 1 .. n /\ DOMAIN file' = 1 .. n + 1
        /\ file \in Seq(Line) /\ n = Len(file)
    BY ReadFile DEF Reads
  <1>2. Items' = IF l.is = "item" THEN Items \cup {n + 1} ELSE Items
    BY <1>1 DEF Items
  <1>3. Items \subseteq 1 .. n /\ IsFiniteSet(Items) /\ Cardinality(Items) \in Nat
    BY <1>1, ItemsAre
  <1>4. l.is = "item" => Cardinality(Items') = Cardinality(Items) + 1
    <2>1. n + 1 \notin Items
      BY <1>1, <1>3
    <2>2. Cardinality(Items \cup {n + 1}) = Cardinality(Items) + 1
      BY <1>3, <2>1, FS_AddElement
    <2> QED
      BY <1>2, <2>2
  <1>5. ASSUME NEW i \in 1 .. n PROVE Rank(i)' = Rank(i)
    <2>1. {h \in Items' : h <= i} = {h \in Items : h <= i}
      BY <1>1, <1>2, <1>3
    <2> QED
      BY <2>1, Zenon DEF Rank
  <1>6. l.is = "item" => Rank(n + 1)' = Cardinality(Items')
    <2> SUFFICES ASSUME l.is = "item" PROVE Rank(n + 1)' = Cardinality(Items')
      OBVIOUS
    <2>2. n + 1 <= n + 1 /\ \A h \in Items : h <= n + 1
      BY <1>1, <1>3
    <2>1. {h \in Items' : h <= n + 1} = Items'
      BY <1>2, <2>2
    <2> QED
      BY <2>1, Zenon DEF Rank
  <1> QED
    BY <1>2, <1>4, <1>5, <1>6

LEMMA EntriesStep ==
  ASSUME NEW l \in Line, NEW n, Reads(l, n), Ranked
  PROVE  /\ Ranked'
         /\ \A j \in 1 .. Cardinality(Items) : Entry(j)' = Entry(j)
         /\ l.is = "item" => Entry(Cardinality(Items))' = n + 1
  <1>1. /\ n \in Nat /\ file \in Seq(Line) /\ n = Len(file)
    BY ReadFile DEF Reads
  <1>2. Items \subseteq 1 .. n /\ Cardinality(Items) \in Nat
    BY <1>1, ItemsAre
  <1>15. PICK c : c = Cardinality(Items)
    OBVIOUS
  <1> DEFINE R(i) == Cardinality({h \in Items' : h <= i})
  <1>3. \A i \in 1 .. n : R(i) = Rank(i)
    BY RanksStep DEF Rank
  <1>4. /\ l.is = "item" => Items' = Items \cup {n + 1} /\ Cardinality(Items') = c + 1
        /\ l.is # "item" => Items' = Items
    BY <1>15, RanksStep
  <1>5. l.is = "item" => R(n + 1) = c + 1
    BY <1>15, RanksStep DEF Rank
  <1>6. \A i : Rank(i) \in Nat /\ Rank(i) <= c
    BY <1>1, <1>15, ItemsAre
  <1>7. \A j : Entry(j)' = CHOOSE i \in Items' : R(i) = j
    BY Zenon DEF Entry, Rank
  <1>8. \A j \in 1 .. c : Entry(j) \in Items /\ Rank(Entry(j)) = j
                          /\ \A i \in Items : Rank(i) = j => i = Entry(j)
    BY <1>1, <1>15, EntryIs
  <1>9. Ranked' <=> \A j \in 1 .. Cardinality(Items') : \E i \in Items' : R(i) = j
    BY DEF Ranked, Rank
  <1> HIDE DEF R
  <1>10. c \in Nat
    BY <1>2, <1>15
  <1>11. ASSUME NEW j \in 1 .. c
         PROVE  /\ Entry(j) \in Items' /\ R(Entry(j)) = j
                /\ \A i \in Items' : R(i) = j => i = Entry(j)
    <2>1. Entry(j) \in Items /\ Entry(j) \in 1 .. n /\ Rank(Entry(j)) = j
      BY <1>2, <1>8
    <2>2. ASSUME NEW i \in Items', R(i) = j PROVE i = Entry(j)
      <3>1. i \in Items
        BY <1>4, <1>5, <1>10, <2>2
      <3> QED
        BY <1>2, <1>3, <1>8, <2>2, <3>1
    <2> QED
      BY <1>3, <1>4, <2>1, <2>2
  <1>12. \A j \in 1 .. c : Entry(j)' = Entry(j)
    <2> SUFFICES ASSUME NEW j \in 1 .. c PROVE Entry(j)' = Entry(j)
      OBVIOUS
    <2>1. \E i \in Items' : R(i) = j
      BY <1>11
    <2>2. Entry(j)' \in Items' /\ R(Entry(j)') = j
      BY <1>7, <2>1, Zenon
    <2> QED
      BY <1>11, <2>2
  <1>13. ASSUME l.is = "item" PROVE Entry(c + 1)' = n + 1
    <2>4. \A i \in Items : R(i) <= c /\ R(i) \in Nat
      BY <1>2, <1>3, <1>6
    <2>1. \A i \in Items' : R(i) = c + 1 => i = n + 1
      BY <1>4, <1>10, <1>13, <2>4
    <2>2. \E i \in Items' : R(i) = c + 1
      BY <1>4, <1>5, <1>13
    <2>3. Entry(c + 1)' \in Items' /\ R(Entry(c + 1)') = c + 1
      BY <1>7, <2>2, Zenon
    <2> QED
      BY <2>1, <2>3
  <1>14. ASSUME NEW j \in 1 .. Cardinality(Items') PROVE \E i \in Items' : R(i) = j
    <2>1. CASE j \in 1 .. c
      BY <1>11, <2>1
    <2>2. CASE j \notin 1 .. c
      <3>1. l.is = "item" /\ j = c + 1
        BY <1>4, <1>10, <1>15, <2>2
      <3> QED
        BY <1>4, <1>5, <3>1
    <2> QED
      BY <2>1, <2>2
  <1>16. l.is = "item" => Cardinality(Items)' = c + 1
    BY <1>4
  <1> QED
    BY <1>9, <1>12, <1>13, <1>14, <1>15, <1>16

\* What is under construction in a block list is its last entry.
LEMMA LastEntry ==
  ASSUME file \in Seq(Line), Ranked, NEW n, n = Len(file), Root(n) > 0, file[Root(n)].is = "item"
  PROVE  /\ Cardinality(Items) > 0 /\ Entry(Cardinality(Items)) = Root(n)
  <1>1. n \in Nat /\ Opener(n) \in 0 .. n /\ Root(n) \in Opener(n) .. n
    BY OpenerIs, RootIs
  <1>2. Root(n) \in Items
    BY <1>1 DEF Items
  <1>3. \A h \in Items : h <= Root(n)
    <2> SUFFICES ASSUME NEW h \in Items PROVE h <= Root(n)
      OBVIOUS
    <2>1. h \in 1 .. n /\ file[h].is = "item"
      BY DEF Items
    <2>2. CASE h < Opener(n)
      BY <1>1, <2>1, <2>2
    <2>3. CASE h >= Opener(n)
      BY <1>1, <2>1, <2>3, RootIs
    <2> QED
      BY <1>1, <2>1, <2>2, <2>3
  <1>4. {h \in Items : h <= Root(n)} = Items
    BY <1>3
  <1>5. Rank(Root(n)) = Cardinality(Items)
    BY <1>4, ItemsAre
  <1>6. Cardinality(Items) \in Nat /\ Cardinality(Items) # 0
    BY <1>2, ItemsAre, FS_EmptySet
  <1>7. Cardinality(Items) \in 1 .. Cardinality(Items)
    BY <1>6
  <1> QED
    BY <1>2, <1>5, <1>6, <1>7, EntryIs

\* The entries of a file, and what it says of a section.
Entries == [j \in 1 .. Cardinality(Items) |-> Built(Entry(j), "block")]
SectionSays(s) == IF LastHeader(s) = 0 THEN Zero[s] ELSE Built(LastHeader(s), s)

\* The meaning, part by part.
InParts ==
  /\ Meaning = [s \in DOMAIN Meaning |-> Meaning[s]]
  /\ DOMAIN Meaning = Sections \cup {"version", "block"}
  /\ Meaning["version"] = TheVersion /\ Meaning["block"] = Entries
  /\ \A s \in Sections : Meaning[s] = SectionSays(s)

LEMMA MeaningIs == InParts
  <1>1. DOMAIN Policy0 = Sections \cup {"version", "block"}
    BY DEF Policy0
  <1>2. "version" \notin Sections /\ "block" \notin Sections
    BY ZeroIs
  <1>3. DOMAIN Meaning = DOMAIN Policy0 /\ Meaning = [s \in DOMAIN Meaning |-> Meaning[s]]
    BY DEF Meaning
  <1>4. Meaning["version"] = TheVersion
    BY <1>1 DEF Meaning, TheVersion
  <1>5. Meaning["block"] = Entries
    <2>1. "block" \in DOMAIN Policy0 /\ "block" # "version"
      BY <1>1
    <2> QED
      BY <2>1, Zenon DEF Meaning, Entries
  <1>6. ASSUME NEW s \in Sections PROVE Meaning[s] = SectionSays(s)
    <2>1. s \in DOMAIN Policy0 /\ s # "version" /\ s # "block"
      BY <1>1, <1>2
    <2> QED
      BY <2>1, Zenon DEF Meaning, SectionSays
  <1> QED
    BY <1>1, <1>3, <1>4, <1>5, <1>6 DEF InParts

\* The meaning after a line, from that of its parts.
LEMMA MeaningFrom ==
  ASSUME NEW M, DOMAIN M = DOMAIN Meaning, M = [s \in DOMAIN M |-> M[s]],
         M["version"] = TheVersion', M["block"] = Entries', \A s \in Sections : M[s] = SectionSays(s)'
  PROVE  Meaning' = M
  <1>4. InParts'
    BY MeaningIs, PTL
  <1>1. /\ Meaning' = [s \in DOMAIN Meaning' |-> Meaning'[s]]
        /\ DOMAIN Meaning' = Sections \cup {"version", "block"}
        /\ Meaning'["version"] = TheVersion' /\ Meaning'["block"] = Entries'
        /\ \A s \in Sections : Meaning'[s] = SectionSays(s)'
    BY <1>4, Zenon DEF InParts
  <1>2. DOMAIN M = DOMAIN Meaning'
    BY <1>1, MeaningIs DEF InParts
  <1>3. \A s \in DOMAIN M : M[s] = Meaning'[s]
    BY <1>1, <1>2
  <1> QED
    BY <1>1, <1>2, <1>3

\* An entry changes only by a line of its own ...
LEMMA EntryStays ==
  ASSUME NEW l \in Line, NEW n, Reads(l, n), Ranked, NEW j \in 1 .. Cardinality(Items),
         l.is \in {"item", "field"} => Root(n + 1)' # Entry(j)
  PROVE  Built(Entry(j), "block")' = Built(Entry(j), "block")
  <1>1. PICK e : e = Entry(j)
    OBVIOUS
  <1>2. n \in Nat /\ file \in Seq(Line) /\ n = Len(file)
    BY ReadFile DEF Reads
  <1>3. e \in 0 .. n
    BY <1>1, <1>2, EntryIs, ItemsAre
  <1>4. Built(e, "block")' = Built(e, "block")
    BY <1>1, <1>3, BuiltStays
  <1>5. Entry(j)' = e
    BY <1>1, EntriesStep
  <1> QED
    BY <1>1, <1>4, <1>5

LEMMA BlocksStay ==
  ASSUME NEW l \in Line, NEW n, Reads(l, n), Ranked, l.is # "item",
         l.is = "field" => file[Root(n)].is # "item" \/ Root(n) = 0
  PROVE  Entries' = Entries
  <1>1. n \in Nat /\ file \in Seq(Line) /\ n = Len(file)
    BY ReadFile DEF Reads
  <1>2. Items' = Items
    BY RanksStep
  <1>3. ASSUME NEW j \in 1 .. Cardinality(Items)
        PROVE  Built(Entry(j), "block")' = Built(Entry(j), "block")
    <2>1. Entry(j) \in Items
      BY <1>1, EntryIs
    <2>2. Entry(j) # 0 /\ file[Entry(j)].is = "item"
      BY <2>1, <1>1 DEF Items
    <2>3. l.is = "field" => Root(n + 1)' = Root(n)
      BY NewOpener
    <2>4. l.is \in {"item", "field"} => Root(n + 1)' # Entry(j)
      BY <2>2, <2>3
    <2> QED
      BY <2>4, EntryStays
  <1>4. Cardinality(Items') = Cardinality(Items)
    BY <1>2
  <1> QED
    BY <1>3, <1>4, Zenon DEF Entries

\* ... is set up by its first ...
LEMMA BlocksGrow ==
  ASSUME NEW l \in Line, NEW n, Reads(l, n), Ranked, l.is = "item", l.key \in DOMAIN Zero["block"]
  PROVE  /\ Entries' = [j \in 1 .. Cardinality(Items) + 1 |->
                         IF j = Cardinality(Items) + 1 THEN SetField(Zero["block"], l) ELSE Entries[j]]
         /\ Cardinality(Items) \in Nat
  <1>1. n \in Nat /\ file \in Seq(Line) /\ n = Len(file)
    BY ReadFile DEF Reads
  <1>2. PICK c : c = Cardinality(Items)
    OBVIOUS
  <1>3. c \in Nat /\ Items \subseteq 1 .. n
    BY <1>1, <1>2, ItemsAre
  <1>4. Cardinality(Items') = c + 1
    BY <1>2, RanksStep
  <1>5. Root(n + 1)' = n + 1
    BY NewOpener
  <1>6. ASSUME NEW j \in 1 .. c
        PROVE  Built(Entry(j), "block")' = Entries[j]
    <2>1. Entry(j) \in Items
      BY <1>1, <1>2, EntryIs
    <2>2. Entry(j) # n + 1
      BY <1>1, <1>3, <2>1
    <2>3. Built(Entry(j), "block")' = Built(Entry(j), "block")
      BY <1>2, <1>5, <2>2, EntryStays
    <2> QED
      BY <1>2, <2>3 DEF Entries
  <1>7. Built(n + 1, "block")' = SetField(Zero["block"], l)
    <2>1. n + 1 \in 0 .. n + 1 /\ "block" \in DOMAIN Zero
      BY <1>1, ZeroIs
    <2>2. Built(n + 1, "block")' = SetField(Built(n + 1, "block"), l)
      BY <1>5, <2>1, BuiltGrows
    <2>3. Built(n + 1, "block") = Zero["block"]
      BY <2>1, BuiltFresh
    <2> QED
      BY <2>2, <2>3
  <1>8. ASSUME NEW j, j = c + 1 PROVE Built(Entry(j), "block")' = SetField(Zero["block"], l)
    <2>1. Entry(Cardinality(Items))' = n + 1
      BY EntriesStep
    <2>2. Entry(j)' = n + 1
      BY <1>4, <1>8, <2>1
    <2> QED
      BY <1>7, <2>2
  <1>9. \A j \in 1 .. c + 1 : j \in 1 .. c \/ j = c + 1
    BY <1>3
  <1>10. \A j \in 1 .. c + 1 :
           Built(Entry(j), "block")' = IF j = c + 1 THEN SetField(Zero["block"], l) ELSE Entries[j]
    BY <1>6, <1>8, <1>9
  <1>11. Entries' = [j \in 1 .. c + 1 |->
                      IF j = c + 1 THEN SetField(Zero["block"], l) ELSE Entries[j]]
    BY <1>4, <1>10, Zenon DEF Entries
  <1> QED
    BY <1>2, <1>3, <1>11

\* ... and the one under construction by the next.
LEMMA BlocksSet ==
  ASSUME NEW l \in Line, NEW n, Reads(l, n), Ranked, l.is = "field", l.key \in DOMAIN Zero["block"],
         Root(n) > 0, file[Root(n)].is = "item"
  PROVE  /\ Cardinality(Items) \in Nat \ {0} /\ Entries[Cardinality(Items)] = Built(Root(n), "block")
         /\ Entries' = [j \in 1 .. Cardinality(Items) |->
                         IF j = Cardinality(Items) THEN SetField(Built(Root(n), "block"), l) ELSE Entries[j]]
  <1>1. n \in Nat /\ file \in Seq(Line) /\ n = Len(file)
    BY ReadFile DEF Reads
  <1>2. PICK c, r : c = Cardinality(Items) /\ r = Root(n)
    OBVIOUS
  <1>3. c \in Nat \ {0} /\ Items \subseteq 1 .. n /\ Entry(c) = r
    BY <1>1, <1>2, ItemsAre, LastEntry
  <1>4. Cardinality(Items') = c /\ Root(n + 1)' = r /\ r \in 0 .. n + 1
    <2>1. r \in 1 .. n
      BY <1>1, <1>2, OpenerIs, RootIs
    <2> QED
      BY <1>1, <1>2, <2>1, RanksStep, NewOpener
  <1>5. \A j \in 1 .. c : Rank(Entry(j)) = j
    BY <1>1, <1>2, EntryIs
  <1>6. ASSUME NEW j \in 1 .. c, j # c
        PROVE  Built(Entry(j), "block")' = Entries[j]
    <2>1. c \in 1 .. c
      BY <1>3
    <2>2. Entry(j) # r
      BY <1>3, <1>5, <1>6, <2>1
    <2>3. Built(Entry(j), "block")' = Built(Entry(j), "block")
      BY <1>2, <1>4, <2>2, EntryStays
    <2> QED
      BY <1>2, <2>3 DEF Entries
  <1>7. Built(r, "block")' = SetField(Built(r, "block"), l)
    BY <1>4, ZeroIs, BuiltGrows
  <1>8. ASSUME NEW j, j = c PROVE Built(Entry(j), "block")' = SetField(Built(r, "block"), l)
    <2>1. j \in 1 .. Cardinality(Items)
      BY <1>2, <1>3, <1>8
    <2>2. Entry(j)' = r
      BY <1>3, <1>8, <2>1, EntriesStep
    <2> QED
      BY <1>7, <2>2
  <1>9. \A j \in 1 .. c :
          Built(Entry(j), "block")' = IF j = c THEN SetField(Built(r, "block"), l) ELSE Entries[j]
    BY <1>6, <1>8
  <1>10. Entries' = [j \in 1 .. c |-> IF j = c THEN SetField(Built(r, "block"), l) ELSE Entries[j]]
    BY <1>4, <1>9, Zenon DEF Entries
  <1>11. Entries[c] = Built(r, "block")
    BY <1>2, <1>3 DEF Entries
  <1> QED
    BY <1>2, <1>3, <1>10, <1>11

LEMMA SectionStep ==
  ASSUME NEW l \in Line, NEW n, Reads(l, n), NEW s \in Sections
  PROVE  /\ l.is = "header" /\ l.key = s => SectionSays(s)' = Zero[s]
         /\ /\ ~(l.is = "header" /\ l.key = s)
            /\ l.is \in {"item", "field"} => LastHeader(s) = 0 \/ Root(n + 1)' # LastHeader(s)
            => SectionSays(s)' = SectionSays(s)
         /\ /\ l.is = "field" /\ LastHeader(s) # 0 /\ Root(n + 1)' = LastHeader(s)
            /\ l.key \in DOMAIN Zero[s]
            => SectionSays(s)' = SetField(Built(LastHeader(s), s), l)
  <1>1. n \in Nat /\ file \in Seq(Line) /\ n = Len(file) /\ s \in DOMAIN Zero /\ n + 1 # 0
    BY ReadFile, ZeroIs DEF Reads, Sections
  <1>2. PICK h : h = LastHeader(s)
    OBVIOUS
  <1>3. h \in 0 .. n /\ h \in 0 .. n + 1
    BY <1>1, <1>2, HeaderIs
  <1>4. ASSUME l.is = "header", l.key = s PROVE SectionSays(s)' = Zero[s]
    <2>1. LastHeader(s)' = n + 1
      BY <1>4, HeaderStep
    <2>2. Built(n + 1, s)' = Zero[s]
      BY <1>1, <1>4, BuiltFresh
    <2>3. Built(LastHeader(s), s)' = Zero[s]
      BY <2>1, <2>2
    <2> QED
      BY <1>1, <2>1, <2>3, Zenon DEF SectionSays
  <1>5. ASSUME ~(l.is = "header" /\ l.key = s) PROVE LastHeader(s)' = h
    BY <1>2, <1>5, HeaderStep
  <1>6. ASSUME ~(l.is = "header" /\ l.key = s),
               l.is \in {"item", "field"} => h = 0 \/ Root(n + 1)' # h
        PROVE  SectionSays(s)' = SectionSays(s)
    <2>1. CASE h = 0
      BY <1>2, <1>5, <1>6, <2>1, Zenon DEF SectionSays
    <2>2. CASE h # 0
      <3>1. Built(h, s)' = Built(h, s)
        BY <1>3, <1>6, <2>2, BuiltStays
      <3>2. Built(LastHeader(s), s)' = Built(h, s)
        BY <1>5, <1>6, <3>1
      <3> QED
        BY <1>2, <1>5, <1>6, <2>2, <3>2, Zenon DEF SectionSays
    <2> QED
      BY <2>1, <2>2
  <1>7. ASSUME l.is = "field", h # 0, Root(n + 1)' = h, l.key \in DOMAIN Zero[s]
        PROVE  SectionSays(s)' = SetField(Built(h, s), l)
    <2>1. Built(h, s)' = SetField(Built(h, s), l)
      BY <1>1, <1>3, <1>7, BuiltGrows
    <2>2. LastHeader(s)' = h
      BY <1>5, <1>7
    <2>3. Built(LastHeader(s), s)' = SetField(Built(h, s), l)
      BY <2>1, <2>2
    <2> QED
      BY <1>7, <2>2, <2>3, Zenon DEF SectionSays
  <1> QED
    BY <1>2, <1>4, <1>6, <1>7

-----------------------------------------------------------------------------
(* The reader keeps to what the lines say.                                 *)

LEMMA AppendIs ==
  ASSUME NEW c \in Nat, NEW f, f = [j \in 1 .. c |-> f[j]], NEW x
  PROVE  Append(f, x) = [j \in 1 .. c + 1 |-> IF j = c + 1 THEN x ELSE f[j]]
  <1> DEFINE B == {f[j] : j \in 1 .. c} \cup {x}
  <1>1. f \in [1 .. c -> B]
    OBVIOUS
  <1> HIDE DEF B
  <1>2. f \in Seq(B) /\ Len(f) = c
    BY <1>1
  <1>3. x \in B
    BY DEF B
  <1> QED
    BY <1>2, <1>3

LEMMA ReadKept ==
  ASSUME NEW l \in Line, NEW n, Reads(l, n), ReadInv, LineFits(l, n),
         sect' = SectionOf(n + 1)', OpenIs(n + 1)', Flushed' = Meaning'
  PROVE  ReadInv'
  <1>1. /\ n \in Nat /\ file' \in Seq(Line) /\ Len(file') = n + 1
        /\ DOMAIN file = 1 .. n /\ DOMAIN file' = 1 .. n + 1
    BY ReadFile
  <1>2. Ranked'
    BY EntriesStep DEF ReadInv
  <1>3. ASSUME NEW i \in 1 .. n + 1 PROVE LineSays(i)'
    <2>1. CASE i \in 1 .. n
      BY <1>1, <2>1, LinesStay DEF ReadInv
    <2>2. CASE i = n + 1
      BY <2>2, NewLine
    <2> QED
      BY <1>1, <2>1, <2>2
  <1>4. sect' = SectionOf(Len(file))' /\ OpenIs(Len(file))'
    BY <1>1
  <1> QED
    BY <1>1, <1>2, <1>3, <1>4 DEF ReadInv

\* A line is taken if it fits, and else the file is rejected.
Goes(l, n) ==
  \/ LineFits(l, n) /\ ReadInv' /\ UNCHANGED verdict
  \/ ~LineFits(l, n) /\ verdict' = "rejected"

LEMMA VersionRead ==
  ASSUME NEW l \in Line, NEW n, Reads(l, n), ReadInv, Version(l)
  PROVE  Goes(l, n)
  <1>1. l.is = "version"
    BY DEF Version
  <1>2. CASE ~(VersionOf(l.value) >= 0)
    BY <1>1, <1>2 DEF Version, Reject, Goes, LineFits
  <1>3. CASE VersionOf(l.value) >= 0
    <2>1. LineFits(l, n)
      BY <1>1, <1>3 DEF LineFits
    <2> DEFINE v == VersionOf(l.value)
               M == [Meaning EXCEPT !["version"] = v]
    <2>2. pol' = [Flushed EXCEPT !["version"] = v] /\ sect' = "none" /\ open' = <<>> /\ UNCHANGED verdict
      BY <1>3 DEF Version
    <2>3. TheVersion' = v
      BY <1>1, VersionStep
    <2> HIDE DEF v
    <2>4. Flushed' = M
      BY <2>2 DEF Flushed, ReadInv
    <2>5. Meaning' = M
      <3>1. Entries' = Entries
        BY <1>1, BlocksStay DEF ReadInv
      <3>2. \A s \in Sections : SectionSays(s)' = SectionSays(s)
        BY <1>1, SectionStep
      <3>3. /\ DOMAIN Meaning = Sections \cup {"version", "block"}
            /\ Meaning["block"] = Entries /\ \A s \in Sections : Meaning[s] = SectionSays(s)
            /\ "version" \notin Sections
        BY MeaningIs, ZeroIs DEF InParts
      <3>4. DOMAIN M = DOMAIN Meaning /\ M = [s \in DOMAIN M |-> M[s]]
        OBVIOUS
      <3>5. M["version"] = v /\ M["block"] = Entries /\ \A s \in Sections : M[s] = SectionSays(s)
        BY <3>3
      <3> HIDE DEF M
      <3> QED
        BY <2>3, <3>1, <3>2, <3>4, <3>5, MeaningFrom
    <2>6. sect' = SectionOf(n + 1)'
      BY <1>1, <2>2, NewOpener
    <2>7. OpenIs(n + 1)'
      BY <2>2 DEF OpenIs
    <2>8. ReadInv'
      BY <2>1, <2>4, <2>5, <2>6, <2>7, ReadKept
    <2> QED
      BY <2>1, <2>2, <2>8 DEF Goes
  <1> QED
    BY <1>2, <1>3

LEMMA HeaderRead ==
  ASSUME NEW l \in Line, NEW n, Reads(l, n), ReadInv, Header(l)
  PROVE  Goes(l, n)
  <1>1. l.is = "header" /\ l.key \in Sections \cup {"block"}
    BY LinesOK DEF Header
  <1>2. LineFits(l, n)
    BY <1>1 DEF LineFits
  <1>3. pol' = Meaning /\ sect' = l.key /\ UNCHANGED verdict
    BY DEF Header, ReadInv
  <1>4. n + 1 > 0 /\ file'[n + 1] = l /\ Root(n + 1)' = n + 1 /\ SectionOf(n + 1)' = l.key
    BY <1>1, ReadFile, NewOpener
  <1>5. Entries' = Entries /\ TheVersion' = TheVersion
    BY <1>1, BlocksStay, VersionStep DEF ReadInv
  <1>6. \A s \in Sections : SectionSays(s)' = IF s = l.key THEN Zero[s] ELSE SectionSays(s)
    BY <1>1, SectionStep
  <1>7. /\ DOMAIN Meaning = Sections \cup {"version", "block"}
        /\ Meaning["block"] = Entries /\ \A s \in Sections : Meaning[s] = SectionSays(s)
        /\ Meaning["version"] = TheVersion /\ Meaning = [s \in DOMAIN Meaning |-> Meaning[s]]
        /\ "version" \notin Sections /\ "block" \notin Sections
    BY MeaningIs, ZeroIs DEF InParts
  <1>8. CASE l.key = "block"
    <2>1. open' = <<>>
      BY <1>8 DEF Header
    <2>2. Flushed' = Meaning
      BY <1>3, <2>1 DEF Flushed
    <2>3. Meaning' = Meaning
      BY <1>5, <1>6, <1>7, <1>8, MeaningFrom
    <2>4. OpenIs(n + 1)'
      BY <1>1, <1>3, <1>4, <1>8, <2>1 DEF OpenIs
    <2>5. ReadInv'
      BY <1>2, <1>3, <1>4, <2>2, <2>3, <2>4, ReadKept
    <2> QED
      BY <1>2, <1>3, <2>5 DEF Goes
  <1>9. CASE l.key \in Sections
    <2> DEFINE z == Zero[l.key]
               M == [Meaning EXCEPT ![l.key] = z]
    <2>1. open' = <<z>> /\ l.key # "block"
      BY <1>7, <1>9 DEF Header
    <2>2. M["version"] = TheVersion /\ M["block"] = Entries
          /\ \A s \in Sections : M[s] = IF s = l.key THEN z ELSE SectionSays(s)
      BY <1>7, <1>9
    <2>3. DOMAIN M = DOMAIN Meaning /\ M = [s \in DOMAIN M |-> M[s]]
      OBVIOUS
    <2>4. \A s \in Sections : SectionSays(s)' = IF s = l.key THEN z ELSE SectionSays(s)
      BY <1>6
    <2>5. Built(n + 1, l.key)' = z
      BY <1>1, <1>9, BuiltFresh, ZeroIs DEF Sections
    <2> HIDE DEF z
    <2>6. Flushed' = M
      BY <1>3, <2>1 DEF Flushed
    <2> HIDE DEF M
    <2>7. Meaning' = M
      BY <1>5, <2>2, <2>3, <2>4, MeaningFrom
    <2>8. Built(Root(n + 1), sect)' = z
      BY <1>3, <1>4, <2>5
    <2>9. OpenIs(n + 1)'
      BY <1>1, <1>3, <1>4, <1>9, <2>1, <2>8 DEF OpenIs
    <2>10. ReadInv'
      BY <1>2, <1>3, <1>4, <2>6, <2>7, <2>9, ReadKept
    <2> QED
      BY <1>2, <1>3, <2>10 DEF Goes
  <1> QED
    BY <1>1, <1>8, <1>9

LEMMA ItemRead ==
  ASSUME NEW l \in Line, NEW n, Reads(l, n), ReadInv, Item(l)
  PROVE  Goes(l, n)
  <1>1. l.is = "item" /\ sect = SectionOf(n)
    BY DEF Item, ReadInv, Reads
  <1>2. LineFits(l, n) <=> sect = "block" /\ Known(l)
    BY <1>1, Zenon DEF LineFits, Known
  <1>5. n + 1 > 0 /\ file'[n + 1] = l /\ Root(n + 1)' = n + 1 /\ SectionOf(n + 1)' = sect
    BY <1>1, ReadFile, NewOpener
  <1>3. CASE ~LineFits(l, n)
    BY <1>2, <1>3 DEF Item, Reject, Goes
  <1>4. CASE LineFits(l, n)
    <2>1. sect = "block" /\ l.key \in DOMAIN Zero["block"]
      BY <1>2, <1>4 DEF Known
    <2> DEFINE x == SetField(Zero["block"], l)
               e == Append(Entries, x)
               M == [Meaning EXCEPT !["block"] = e]
    <2>2. pol' = Meaning /\ open' = <<x>> /\ sect' = "block" /\ UNCHANGED verdict
      BY <1>2, <1>4, <2>1 DEF Item, ReadInv
    <2>3. n + 1 > 0 /\ file'[n + 1] = l /\ Root(n + 1)' = n + 1 /\ SectionOf(n + 1)' = "block"
      BY <1>5, <2>1
    <2>4. TheVersion' = TheVersion
      BY <1>1, VersionStep
    <2>5. \A s \in Sections : SectionSays(s)' = SectionSays(s)
      <3> SUFFICES ASSUME NEW s \in Sections PROVE SectionSays(s)' = SectionSays(s)
        OBVIOUS
      <3>1. LastHeader(s) \in 0 .. n /\ n \in Nat
        BY HeaderIs, ReadFile DEF Reads
      <3>2. Root(n + 1)' # LastHeader(s)
        BY <2>3, <3>1
      <3> QED
        BY <1>1, <3>2, SectionStep
    <2>6. Entries' = e
      <3>1. PICK c : c = Cardinality(Items)
        OBVIOUS
      <3>2. /\ c \in Nat
            /\ Entries' = [j \in 1 .. c + 1 |-> IF j = c + 1 THEN x ELSE Entries[j]]
        BY <1>1, <2>1, <3>1, BlocksGrow DEF ReadInv
      <3>3. Entries = [j \in 1 .. c |-> Entries[j]]
        BY <3>1 DEF Entries
      <3> HIDE DEF x
      <3>4. e = [j \in 1 .. c + 1 |-> IF j = c + 1 THEN x ELSE Entries[j]]
        BY <3>2, <3>3, AppendIs
      <3> QED
        BY <3>2, <3>4
    <2>7. /\ DOMAIN Meaning = Sections \cup {"version", "block"}
          /\ Meaning["block"] = Entries /\ \A s \in Sections : Meaning[s] = SectionSays(s)
          /\ Meaning["version"] = TheVersion /\ Meaning = [s \in DOMAIN Meaning |-> Meaning[s]]
          /\ "version" \notin Sections /\ "block" \notin Sections
      BY MeaningIs, ZeroIs DEF InParts
    <2>8. Built(n + 1, "block")' = x
      <3>1. n + 1 \in 0 .. n + 1 /\ "block" \in DOMAIN Zero
        BY ReadFile, ZeroIs
      <3>2. Built(n + 1, "block")' = SetField(Built(n + 1, "block"), l)
        BY <1>1, <2>1, <2>3, <3>1, BuiltGrows
      <3> QED
        BY <3>1, <3>2, BuiltFresh
    <2> HIDE DEF x
    <2>9. Flushed' = M
      BY <2>2, <2>7 DEF Flushed
    <2> HIDE DEF e
    <2>10. M["version"] = TheVersion /\ M["block"] = e
           /\ \A s \in Sections : M[s] = SectionSays(s)
      BY <2>7
    <2>11. DOMAIN M = DOMAIN Meaning /\ M = [s \in DOMAIN M |-> M[s]]
      OBVIOUS
    <2> HIDE DEF M
    <2>12. Meaning' = M
      BY <2>4, <2>5, <2>6, <2>10, <2>11, MeaningFrom
    <2>13. Built(Root(n + 1), sect)' = x
      BY <2>2, <2>3, <2>8
    <2>14. OpenIs(n + 1)'
      BY <1>1, <2>2, <2>3, <2>13 DEF OpenIs
    <2>15. ReadInv'
      BY <1>4, <2>2, <2>3, <2>9, <2>12, <2>14, ReadKept
    <2> QED
      BY <1>4, <2>2, <2>15 DEF Goes
  <1> QED
    BY <1>3, <1>4

\* A field of an entry: the last entry of the file has it set.
LEMMA EntryField ==
  ASSUME NEW l \in Line, NEW n, Reads(l, n), ReadInv, PolShape, l.is = "field",
         sect = "block", Root(n) > 0, file[Root(n)].is = "item", l.key \in DOMAIN Zero["block"],
         open = <<Built(Root(n), "block")>>,
         NEW x, x = SetField(open[1], l)
  PROVE  Meaning' = [pol EXCEPT !["block"] = Append(@, x)]
  <1>1. PICK c, r, b : c = Cardinality(Items) /\ r = Root(n) /\ b = open[1]
    OBVIOUS
  <1>2. b = Built(r, "block") /\ x = SetField(b, l)
    BY <1>1
  <1>3. /\ c \in Nat \ {0} /\ Entries[c] = b
        /\ Entries' = [j \in 1 .. c |-> IF j = c THEN x ELSE Entries[j]]
    BY <1>1, <1>2, BlocksSet DEF ReadInv
  <1>4. TheVersion' = TheVersion
    BY VersionStep
  <1>5. Root(n + 1)' = r
    BY <1>1, NewOpener
  <1>6. \A s \in Sections : SectionSays(s)' = SectionSays(s)
    <2> SUFFICES ASSUME NEW s \in Sections PROVE SectionSays(s)' = SectionSays(s)
      OBVIOUS
    <2>1. LastHeader(s) # 0 => file[LastHeader(s)].is = "header"
      BY HeaderIs DEF Reads
    <2>2. LastHeader(s) = 0 \/ Root(n + 1)' # LastHeader(s)
      BY <1>1, <1>5, <2>1
    <2> QED
      BY <2>2, SectionStep
  <1>7. /\ DOMAIN Meaning = Sections \cup {"version", "block"}
        /\ Meaning["block"] = Entries /\ \A s \in Sections : Meaning[s] = SectionSays(s)
        /\ Meaning["version"] = TheVersion
        /\ "version" \notin Sections /\ "block" \notin Sections
    BY MeaningIs, ZeroIs DEF InParts
  <1>8. PICK B : pol.block \in Seq(B)
    BY DEF PolShape
  <1> DEFINE p == pol.block
             M == [pol EXCEPT !["block"] = Append(p, x)]
  <1>9. open # <<>> /\ open[1] = b
    BY <1>1
  <1>10. Meaning = [pol EXCEPT !["block"] = Append(p, b)]
    BY <1>9 DEF ReadInv, Flushed
  <1>11. DOMAIN pol = DOMAIN Meaning
    BY <1>10
  <1>12. Entries = Append(p, b)
    BY <1>7, <1>10, <1>11
  <1>13. Append(p, x) = [j \in 1 .. c |-> IF j = c THEN x ELSE Entries[j]]
    <2>1. Len(p) \in Nat /\ p = [j \in 1 .. Len(p) |-> p[j]]
      BY <1>8
    <2>2. PICK m : m = Len(p)
      OBVIOUS
    <2> HIDE DEF p
    <2>3. \A y : Append(p, y) = [j \in 1 .. m + 1 |-> IF j = m + 1 THEN y ELSE p[j]]
      BY <2>1, <2>2, AppendIs
    <2>4. DOMAIN Entries = 1 .. c
      BY <1>1 DEF Entries
    <2>5. 1 .. c = 1 .. m + 1
      BY <1>12, <2>3, <2>4
    <2>6. c = m + 1
      BY <1>3, <2>1, <2>2, <2>5
    <2>7. \A j \in 1 .. c : j # c => Entries[j] = p[j]
      BY <1>12, <2>3, <2>6
    <2> QED
      BY <2>3, <2>6, <2>7
  <1>14. DOMAIN M = DOMAIN Meaning /\ M = [s \in DOMAIN M |-> M[s]]
    BY <1>11
  <1>15. M["block"] = Append(p, x) /\ M["version"] = TheVersion
         /\ \A s \in Sections : M[s] = SectionSays(s)
    BY <1>7, <1>10, <1>11
  <1>16. Entries' = Append(p, x)
    BY <1>3, <1>13
  <1> HIDE DEF M
  <1>17. Meaning' = M
    BY <1>4, <1>6, <1>14, <1>15, <1>16, MeaningFrom
  <1> QED
    BY <1>17 DEF M

\* A field of a section: the section is the last of its name.
LEMMA SectionField ==
  ASSUME NEW l \in Line, NEW n, Reads(l, n), ReadInv, l.is = "field",
         sect \in Sections, Root(n) > 0, file[Root(n)].is # "item", l.key \in DOMAIN Zero[sect],
         open = <<Built(Root(n), sect)>>,
         NEW x, x = SetField(open[1], l)
  PROVE  Meaning' = [pol EXCEPT ![sect] = x]
  <1>1. PICK r, b, t : r = Root(n) /\ b = open[1] /\ t = sect
    OBVIOUS
  <1>2. b = Built(r, t) /\ x = SetField(b, l) /\ t \in Sections
    BY <1>1
  <1>3. /\ n \in Nat /\ file \in Seq(Line) /\ n = Len(file) /\ DOMAIN file = 1 .. n
    BY ReadFile DEF Reads
  <1>4. LastHeader(t) = r /\ r # 0
    <2>1. Opener(n) = r /\ r \in 1 .. n
      BY <1>1, <1>3, OpenerIs, RootIs
    <2>2. file[r].is = "header" /\ file[r].key = t
      <3>1. t = SectionOf(n) /\ t # "none"
        BY <1>1, <1>2, <1>3, ZeroIs DEF ReadInv
      <3>2. file[r].is # "version" /\ file[r].key = t
        BY <2>1, <3>1 DEF SectionOf
      <3>3. Opens(r)
        BY <1>3, <2>1, OpenerIs
      <3> QED
        BY <3>2, <3>3 DEF Opens
    <2>3. LastHeader(t) \in 0 .. n /\ r <= LastHeader(t) /\ LastHeader(t) # 0
      BY <1>3, <2>1, <2>2, HeaderIs
    <2>4. Opens(LastHeader(t))
      BY <1>3, <2>3, HeaderIs DEF Opens
    <2>5. LastHeader(t) \in 1 .. n
      BY <1>3, <2>3
    <2>6. LastHeader(t) <= r
      BY <1>3, <2>1, <2>4, <2>5, OpenerIs
    <2> QED
      BY <1>3, <2>1, <2>3, <2>6
  <1>5. TheVersion' = TheVersion /\ Entries' = Entries /\ Root(n + 1)' = r
    BY <1>1, VersionStep, BlocksStay, NewOpener DEF ReadInv
  <1>6. SectionSays(t)' = x
    BY <1>1, <1>2, <1>4, <1>5, SectionStep
  <1>7. ASSUME NEW s \in Sections, s # t PROVE SectionSays(s)' = SectionSays(s)
    <2>1. LastHeader(s) = 0 \/ file[LastHeader(s)].key = s
      BY <1>3, HeaderIs
    <2>2. file[r].key = t
      BY <1>3, <1>4, HeaderIs
    <2>3. LastHeader(s) = 0 \/ Root(n + 1)' # LastHeader(s)
      BY <1>5, <1>7, <2>1, <2>2
    <2> QED
      BY <2>3, SectionStep
  <1>8. /\ DOMAIN Meaning = Sections \cup {"version", "block"}
        /\ Meaning["block"] = Entries /\ \A s \in Sections : Meaning[s] = SectionSays(s)
        /\ Meaning["version"] = TheVersion
        /\ "version" \notin Sections /\ "block" \notin Sections
    BY MeaningIs, ZeroIs DEF InParts
  <1> DEFINE M == [pol EXCEPT ![t] = x]
  <1>9. open # <<>> /\ open[1] = b /\ t # "block"
    BY <1>1, <1>2, <1>8
  <1>10. Meaning = [pol EXCEPT ![t] = b]
    BY <1>1, <1>9 DEF ReadInv, Flushed
  <1>11. DOMAIN M = DOMAIN Meaning /\ M = [s \in DOMAIN M |-> M[s]]
    BY <1>10
  <1>12. M["block"] = Entries /\ M["version"] = TheVersion /\ M[t] = x
         /\ \A s \in Sections : s # t => M[s] = SectionSays(s)
    BY <1>2, <1>8, <1>10
  <1> HIDE DEF M
  <1>13. Meaning' = M
    BY <1>5, <1>6, <1>7, <1>11, <1>12, MeaningFrom
  <1> QED
    BY <1>1, <1>13 DEF M

LEMMA FieldRead ==
  ASSUME NEW l \in Line, NEW n, Reads(l, n), ReadInv, PolShape, Field(l)
  PROVE  Goes(l, n)
  <1>1. l.is = "field" /\ sect = SectionOf(n) /\ OpenIs(n)
    BY DEF Field, ReadInv, Reads
  <1>2. LineFits(l, n) <=> open # <<>> /\ Known(l)
    <2>1. CASE open = <<>>
      <3>1. ~(sect # "none" /\ (sect = "block" <=> file[Root(n)].is = "item"))
        BY <1>1, <2>1 DEF OpenIs
      <3> QED
        BY <1>1, <2>1, <3>1, Zenon DEF LineFits
    <2>2. CASE open # <<>>
      <3>1. /\ sect \in Sections \cup {"block"}
            /\ sect = "block" <=> file[Root(n)].is = "item"
        BY <1>1, <2>2 DEF OpenIs
      <3>2. sect # "none"
        BY <3>1, ZeroIs
      <3> QED
        BY <1>1, <2>2, <3>1, <3>2, Zenon DEF LineFits, Known
    <2> QED
      BY <2>1, <2>2
  <1>3. CASE ~LineFits(l, n)
    BY <1>2, <1>3 DEF Field, Reject, Goes
  <1>4. CASE LineFits(l, n)
    <2>1. PICK x : x = SetField(open[1], l)
      OBVIOUS
    <2>2. open # <<>> /\ l.key \in DOMAIN Zero[sect]
      BY <1>2, <1>4 DEF Known
    <2>3. open' = <<x>> /\ UNCHANGED <<sect, pol, verdict>>
      BY <1>2, <1>4, <2>1, <2>2 DEF Field
    <2>4. /\ sect \in Sections \cup {"block"} /\ Root(n) > 0
          /\ open = <<Built(Root(n), sect)>>
          /\ sect = "block" <=> file[Root(n)].is = "item"
      BY <1>1, <2>2 DEF OpenIs
    <2>5. Flushed' = IF sect = "block" THEN [pol EXCEPT !["block"] = Append(@, x)]
                     ELSE [pol EXCEPT ![sect] = x]
      BY <2>3 DEF Flushed
    <2>6. Meaning' = Flushed'
      <3>1. CASE sect = "block"
        BY <1>1, <2>1, <2>2, <2>4, <2>5, <3>1, EntryField
      <3>2. CASE sect # "block"
        BY <1>1, <2>1, <2>2, <2>4, <2>5, <3>2, SectionField
      <3> QED
        BY <3>1, <3>2
    <2>7. /\ n \in Nat /\ Root(n) \in 1 .. n /\ file'[Root(n)] = file[Root(n)]
      BY <2>4, ReadFile, OpenerIs, RootIs DEF Reads
    <2>8. PICK r, t : r = Root(n) /\ t = sect
      OBVIOUS
    <2>9. Root(n + 1)' = r /\ SectionOf(n + 1)' = t /\ sect' = t
      BY <1>1, <2>3, <2>8, NewOpener
    <2>10. Built(r, t)' = x
      <3>1. r \in 0 .. n + 1 /\ t \in DOMAIN Zero
        BY <2>4, <2>7, <2>8, ZeroIs
      <3>2. Built(r, t)' = SetField(Built(r, t), l)
        BY <1>1, <2>2, <2>8, <2>9, <3>1, BuiltGrows
      <3>3. open[1] = Built(r, t)
        BY <2>4, <2>8
      <3> QED
        BY <2>1, <3>2, <3>3
    <2>11. Built(Root(n + 1), sect)' = x
      BY <2>9, <2>10
    <2>12. OpenIs(n + 1)'
      BY <2>3, <2>4, <2>7, <2>8, <2>9, <2>11 DEF OpenIs
    <2>13. ReadInv'
      BY <1>4, <2>6, <2>9, <2>12, ReadKept
    <2> QED
      BY <1>4, <2>3, <2>13 DEF Goes
  <1> QED
    BY <1>3, <1>4

\* What a file says does not change while it is not read.
LEMMA Unread ==
  ASSUME file' = file
  PROVE  /\ Meaning' = Meaning /\ WellFormed' = WellFormed /\ Ranked' = Ranked
         /\ \A i : LineSays(i)' = LineSays(i)
         /\ \A i : SectionOf(i)' = SectionOf(i) /\ Root(i)' = Root(i)
         /\ \A r, s : Built(r, s)' = Built(r, s)
  <1>1. \A i : Opens(i)' = Opens(i)
    BY DEF Opens
  <1>2. \A i : Opener(i)' = Opener(i)
    BY <1>1, Zenon DEF Opener
  <1>3. \A i : SectionOf(i)' = SectionOf(i) /\ Root(i)' = Root(i)
    BY <1>2, Zenon DEF SectionOf, Root
  <1>4. \A i : LineSays(i)' = LineSays(i)
    BY <1>3, Zenon DEF LineSays
  <1>5. \A r, k : Says(r, k)' = Says(r, k)
    BY <1>1, <1>3, Zenon DEF Says
  <1>6. \A r, s : Built(r, s)' = Built(r, s)
    BY <1>5, Zenon DEF Built
  <1>7. Items' = Items
    BY DEF Items
  <1>8. \A i : Rank(i)' = Rank(i)
    BY <1>7, Zenon DEF Rank
  <1>9. \A j : Entry(j)' = Entry(j)
    BY <1>7, <1>8, Zenon DEF Entry
  <1>10. Ranked' = Ranked
    BY <1>7, <1>8, Zenon DEF Ranked
  <1>11. Entries' = Entries
    BY <1>6, <1>7, <1>9, Zenon DEF Entries
  <1>12. \A s : LastHeader(s)' = LastHeader(s)
    BY Zenon DEF LastHeader
  <1>13. \A s : SectionSays(s)' = SectionSays(s)
    BY <1>6, <1>12, Zenon DEF SectionSays
  <1>14. TheVersion' = TheVersion
    BY DEF TheVersion, LastVersion
  <1>15. Meaning' = Meaning
    <2>1. /\ Meaning = [s \in DOMAIN Meaning |-> Meaning[s]]
          /\ Meaning["version"] = TheVersion /\ Meaning["block"] = Entries
          /\ \A s \in Sections : Meaning[s] = SectionSays(s)
      BY MeaningIs DEF InParts
    <2>2. PICK M : M = Meaning
      OBVIOUS
    <2>3. Meaning' = M
      BY <1>11, <1>13, <1>14, <2>1, <2>2, MeaningFrom
    <2> QED
      BY <2>2, <2>3
  <1>16. WellFormed' = WellFormed
    BY <1>4, <1>15, Zenon DEF WellFormed, Sound
  <1> QED
    BY <1>3, <1>4, <1>6, <1>10, <1>15, <1>16

LEMMA FileStart ==
  ASSUME PolicyInit
  PROVE  PolicyInv
  <1>1. /\ file = <<>> /\ sect = "none" /\ open = <<>> /\ pol = Policy0 /\ verdict = "reading"
        /\ Len(file) = 0 /\ DOMAIN file = {} /\ file \in Seq(Line)
    BY DEF PolicyInit
  <1>2. Items = {}
    BY <1>1 DEF Items
  <1>3. Cardinality(Items) = 0
    BY <1>2, FS_EmptySet
  <1>4. Ranked
    BY <1>3 DEF Ranked
  <1>5. Opener(0) = 0 /\ Root(0) \in 0 .. 0
    BY <1>1, OpenerIs, RootIs
  <1>6. sect = SectionOf(Len(file))
    BY <1>1, <1>5 DEF SectionOf
  <1>7. OpenIs(Len(file))
    BY <1>1 DEF OpenIs
  <1>8. Flushed = Policy0
    BY <1>1 DEF Flushed
  <1>9. \A s : LastHeader(s) = 0
    <2> TAKE s
    <2> QED
      BY <1>1, HeaderIs
  <1>10. LastVersion = 0
    <2>1. {0} \cup {h \in DOMAIN file : file[h].is = "version"} = {0}
      BY <1>1
    <2>2. {0} \subseteq Nat /\ 0 \in {0} /\ \A x \in {0} : x <= 0
      OBVIOUS
    <2> QED
      BY <2>1, <2>2, MaxIs DEF LastVersion
  <1>11. Meaning = Policy0
    <2>1. TheVersion = 1 /\ Entries = <<>> /\ \A s \in Sections : SectionSays(s) = Zero[s]
      BY <1>3, <1>9, <1>10 DEF TheVersion, Entries, SectionSays
    <2>2. /\ Meaning = [s \in DOMAIN Meaning |-> Meaning[s]]
          /\ DOMAIN Meaning = Sections \cup {"version", "block"}
          /\ Meaning["version"] = 1 /\ Meaning["block"] = <<>>
          /\ \A s \in Sections : Meaning[s] = Zero[s]
          /\ "version" \notin Sections /\ "block" \notin Sections
      BY <2>1, MeaningIs, ZeroIs DEF InParts
    <2> QED
      BY <2>2 DEF Policy0
  <1> QED
    BY <1>1, <1>4, <1>6, <1>7, <1>8, <1>11 DEF PolicyInv, ReadInv, ParsedAsWritten

LEMMA FileStep ==
  ASSUME PolicyInv, PolShape, PolicyNext \/ UNCHANGED policyVars \/ verdict' = "used"
  PROVE  PolicyInv'
  <1>1. CASE EndOfFile
    <2>1. /\ verdict = "reading" /\ ReadInv /\ pol' = Flushed /\ file' = file
          /\ verdict' = IF Sound(Flushed) THEN "loaded" ELSE "rejected"
      BY <1>1 DEF EndOfFile, PolicyInv
    <2>2. pol' = Meaning' /\ WellFormed' = WellFormed
      BY <2>1, Unread DEF ReadInv
    <2>3. WellFormed <=> Sound(Flushed)
      BY <2>1, Zenon DEF ReadInv, WellFormed
    <2>4. ParsedAsWritten'
      BY <2>1, <2>2, <2>3 DEF ParsedAsWritten
    <2> QED
      BY <2>1, <2>4 DEF PolicyInv
  <1>2. ASSUME NEW l \in Line, ReadLine(l) PROVE PolicyInv'
    <2>1. PICK n : n = Len(file)
      OBVIOUS
    <2>2. verdict = "reading" /\ ReadInv
      BY <1>2 DEF ReadLine, PolicyInv
    <2>3. Reads(l, n)
      BY <1>2, <2>1, <2>2 DEF ReadLine, Reads, ReadInv
    <2>4. Goes(l, n)
      BY <1>2, <2>2, <2>3, VersionRead, HeaderRead, ItemRead, FieldRead DEF ReadLine
    <2>5. CASE ReadInv' /\ UNCHANGED verdict
      BY <2>2, <2>5 DEF PolicyInv, ParsedAsWritten
    <2>6. CASE ~LineFits(l, n) /\ verdict' = "rejected"
      <3>1. ~LineSays(n + 1)'
        BY <2>3, <2>6, NewLine
      <3>2. n + 1 \in DOMAIN file'
        BY <2>3, ReadFile
      <3>3. ~WellFormed'
        BY <3>1, <3>2, Zenon DEF WellFormed
      <3> QED
        BY <2>6, <3>3 DEF PolicyInv, ParsedAsWritten
    <2> QED
      BY <2>4, <2>5, <2>6 DEF Goes
  <1>3. CASE UNCHANGED policyVars
    <2>1. /\ file' = file /\ sect' = sect /\ open' = open /\ pol' = pol /\ verdict' = verdict
      BY <1>3 DEF policyVars
    <2>2. Flushed' = Flushed
      BY <2>1, Zenon DEF Flushed
    <2>3. OpenIs(Len(file))' <=> OpenIs(Len(file))
      BY <2>1, Unread, Zenon DEF OpenIs
    <2>4. ReadInv => ReadInv'
      BY <2>1, <2>2, <2>3, Unread, Zenon DEF ReadInv
    <2>5. ParsedAsWritten' <=> ParsedAsWritten
      <3>1. (WellFormed' <=> WellFormed) /\ Meaning' = Meaning
        BY <2>1, Unread
      <3> QED
        BY <2>1, <3>1 DEF ParsedAsWritten
    <2> QED
      BY <2>1, <2>4, <2>5 DEF PolicyInv
  <1>4. CASE verdict' = "used"
    BY <1>4 DEF PolicyInv, ParsedAsWritten
  <1> QED
    BY <1>1, <1>2, <1>3, <1>4 DEF PolicyNext

-----------------------------------------------------------------------------
(* sxctl and the fleet.                                                    *)

\* The requests that set limit k of address a.
Asked(a, k) == {j \in DOMAIN jobs : jobs[j].do = "rule" /\ jobs[j].ip = a /\ jobs[j][k] > 0}

Stage == {"sent", "pps", "kbps", "ok", "refused"}
Limit == {"pps", "kbps"}

\* The node of worker w, and whether all that talk to h are without an error.
HostOf(w) == nodes[w].host
Clean(h) == \A w \in Worker : HostOf(w) = h => worker[w].errs = 0

Part == {"blocked", "pps", "kbps"}
Daemons(X) == [Host -> [Address -> [Part -> X]]]
Confs(X) == [Host -> [Settings -> X]]
Ruled(R) == \E X : R \in Daemons(X)
RulesType == Ruled(rules)
Configured(C) == \E X : C \in Confs(X)
ConfType == Configured(conf)

Request == [w : DOMAIN nodes, j : DOMAIN jobs, a : Nat, at : Stage]
Goroutine == [at : {"queued", "send", "wait", "done"}, job : Nat \ {0},
              attempt : Nat, errs : Nat, applied : Nat]

\* One value of R or C has become x, and nothing else.
RulePut(R, S, h, a, k, x) ==
  \A g \in Host, b \in Address, l \in Part :
    S[g][b][l] = IF g = h /\ b = a /\ l = k THEN x ELSE R[g][b][l]
ConfPut(C, D, h, k, x) ==
  \A g \in Host, l \in Settings : D[g][l] = IF g = h /\ l = k THEN x ELSE C[g][l]

FleetType ==
  /\ removed \in [Host -> SUBSET Address] /\ late \in [Host -> SUBSET Address]
  /\ worker \in [DOMAIN nodes -> Goroutine]
  /\ \A w \in DOMAIN nodes : HostOf(w) \in Host
  /\ wire \subseteq Request
  /\ Len(jobs) \in Nat /\ DOMAIN jobs = 1 .. Len(jobs)

\* One command: before it there is nothing, and the policy is gone with it.
OneCommand ==
  /\ cmd = "none" => nodes = <<>> /\ wire = {}
  /\ cmd # "none" => verdict = "used"

\* Two requests for one setting are the same.
OneSetting ==
  \A i, j \in DOMAIN jobs : jobs[i].do \in Settings /\ jobs[i].do = jobs[j].do =>
    jobs[i].cfg = jobs[j].cfg

\* A request is of its node's current attempt, which waits for it, or an earlier one.
NoneAhead ==
  \A r \in wire :
    \/ r.j < worker[r.w].job
    \/ r.j = worker[r.w].job /\ r.a < worker[r.w].attempt
    \/ Waiting(r)

DoneAll == \A w \in Worker : At(w, "done") => worker[w].job > Len(jobs)

\* What a request has done to its daemon when it is at a stage.
Blocks(h, j) ==
  jobs[j].do = "rule" =>
    jobs[j].ip \in Address /\ (rules[h][jobs[j].ip].blocked \/ jobs[j].ip \in removed[h])
Sets(h, j) == jobs[j].do \in Settings => conf[h][jobs[j].do] = jobs[j].cfg

UnderWay ==
  \A r \in wire :
    /\ r.at \in {"pps", "kbps", "ok"} => Blocks(HostOf(r.w), r.j)
    /\ r.at = "ok" => Sets(HostOf(r.w), r.j)
    /\ r.at \in Limit => jobs[r.j].do = "rule" /\ jobs[r.j][r.at] > 0

Answered ==
  \A w \in Worker : Clean(HostOf(w)) =>
    \A j \in DOMAIN jobs : j < worker[w].job => Blocks(HostOf(w), j) /\ Sets(HostOf(w), j)

\* The requests of w that have set limit k of address a: those answered, and the
\* one it waits for once it is past that stage.
Passed(r, k) == IF k = "pps" THEN r.at \in {"kbps", "ok"} ELSE r.at = "ok"
Wrote(w, a, k) ==
  {j \in Asked(a, k) : \/ j < worker[w].job
                       \/ \E r \in wire : r.w = w /\ r.j = j /\ Waiting(r) /\ Passed(r, k)}

\* The limit is one asked for, and if no abandoned request has touched it, it is
\* the newest that some worker of the host has set.
LimitSet(h, a, k) ==
  \E i \in Asked(a, k) :
    /\ rules[h][a][k] = jobs[i][k]
    /\ a \notin late[h] =>
         \E v \in Worker : HostOf(v) = h /\ \A j \in Wrote(v, a, k) : j <= i

LimitsSet ==
  \A w \in Worker, a \in Address, k \in Limit :
    Clean(HostOf(w)) /\ Wrote(w, a, k) # {} => LimitSet(HostOf(w), a, k)

ControlInv ==
  /\ RulesType /\ ConfType /\ FleetType /\ OneCommand /\ OneSetting /\ NoneAhead
  /\ DoneAll /\ UnderWay /\ Answered /\ LimitsSet

\* What holds of a limit stays where rules and late do, no node gets rid of an
\* error, and no worker has set more than before.
LEMMA LimitsStay ==
  ASSUME LimitsSet, UNCHANGED <<rules, late, nodes, jobs>>, Worker' = Worker,
         \A w \in Worker : worker'[w].errs = 0 => worker[w].errs = 0,
         \A w \in Worker, a \in Address, k \in Limit :
           Clean(HostOf(w))' => Wrote(w, a, k)' \subseteq Wrote(w, a, k)
  PROVE  LimitsSet'
  <1>1. ASSUME NEW w \in Worker PROVE HostOf(w)' = HostOf(w)
    BY DEF HostOf
  <1>2. ASSUME NEW w \in Worker, Clean(HostOf(w))' PROVE Clean(HostOf(w))
    BY <1>1, <1>2 DEF Clean
  <1>3. ASSUME NEW w \in Worker, NEW a \in Address, NEW k \in Limit, Clean(HostOf(w))',
               Wrote(w, a, k)' # {}
        PROVE  LimitSet(HostOf(w), a, k)'
    <2>1. LimitSet(HostOf(w), a, k)
      BY <1>2, <1>3 DEF LimitsSet
    <2>2. Asked(a, k)' = Asked(a, k)
      BY DEF Asked
    <2>3. ASSUME NEW v \in Worker, HostOf(v) = HostOf(w)
          PROVE  Wrote(v, a, k)' \subseteq Wrote(v, a, k)
      BY <1>1, <1>3, <2>3
    <2>4. HostOf(w)' = HostOf(w)
      BY <1>1
    <2> QED
      BY <1>1, <2>1, <2>2, <2>3, <2>4 DEF LimitSet
  <1> QED
    BY <1>3 DEF LimitsSet

\* What requests have done stays where the daemons' state does.
LEMMA DoneStays ==
  ASSUME UNCHANGED <<rules, conf, removed, nodes, jobs>>, NEW h, NEW j
  PROVE  Blocks(h, j)' = Blocks(h, j) /\ Sets(h, j)' = Sets(h, j)
  BY DEF Blocks, Sets

\* What every step of the client has to show: no error is forgotten, a request
\* is new when it is sent, and what a worker leaves behind it has been answered.
LEMMA ClientStep ==
  ASSUME ControlInv, UNCHANGED <<verdict, cmd, policy, nodes, jobs, rules, conf, removed, late>>,
         Worker # {}, FleetType', NoneAhead', DoneAll',
         \A v \in Worker : worker'[v].errs = 0 => worker[v].errs = 0,
         \A r \in wire' : r \in wire \/ r.at = "sent",
         \A v \in Worker, j \in DOMAIN jobs : worker'[v].errs = 0 /\ j < worker'[v].job =>
           j < worker[v].job \/ \E r \in wire : r.w = v /\ r.j = j /\ r.at = "ok",
         \A v \in Worker, a \in Address, k \in Limit : worker'[v].errs = 0 =>
           Wrote(v, a, k)' \subseteq Wrote(v, a, k)
  PROVE  ControlInv'
  <1> USE DEF ControlInv
  <1>1. Worker = DOMAIN nodes /\ Worker' = Worker
    BY DEF FleetType, Worker
  <1>2. OneCommand'
    <2>1. nodes # <<>>
      BY <1>1
    <2> QED
      BY <2>1 DEF OneCommand
  <1>3. UnderWay'
    BY DoneStays DEF UnderWay, HostOf, Limit
  <1>4. ASSUME NEW v \in Worker, Clean(HostOf(v))'
        PROVE  Clean(HostOf(v)) /\ worker'[v].errs = 0
    BY <1>1, <1>4 DEF Clean, HostOf
  <1>5. Answered'
    <2> SUFFICES ASSUME NEW v \in Worker, Clean(HostOf(v))', NEW j \in DOMAIN jobs,
                        j < worker'[v].job
                 PROVE  Blocks(HostOf(v), j) /\ Sets(HostOf(v), j)
      BY <1>1, DoneStays DEF Answered, HostOf
    <2>1. CASE j < worker[v].job
      BY <1>4, <2>1 DEF Answered
    <2>2. ASSUME NEW r \in wire, r.w = v, r.j = j, r.at = "ok"
          PROVE  Blocks(HostOf(v), j) /\ Sets(HostOf(v), j)
      BY <2>2 DEF UnderWay
    <2> QED
      BY <1>4, <2>1, <2>2
  <1>6. LimitsSet'
    <2>1. ASSUME NEW v \in Worker, NEW a \in Address, NEW k \in Limit, Clean(HostOf(v))'
          PROVE  Wrote(v, a, k)' \subseteq Wrote(v, a, k)
      BY <1>4, <2>1
    <2> QED
      BY <1>1, <2>1, LimitsStay
  <1> QED
    BY <1>2, <1>3, <1>5, <1>6 DEF RulesType, ConfType, OneSetting

LEMMA FleetTypeStays ==
  ASSUME FleetType, UNCHANGED <<nodes, jobs, removed, late>>,
         worker' \in [DOMAIN nodes -> Goroutine], wire' \subseteq Request
  PROVE  FleetType'
  <1>1. Request' = Request /\ Goroutine' = Goroutine
    BY Zenon DEF Request, Goroutine
  <1> QED
    BY <1>1 DEF FleetType, HostOf

LEMMA LaunchStep ==
  ASSUME ControlInv, NEW w \in Worker, Launch(w)
  PROVE  ControlInv'
  <1> USE DEF ControlInv
  <1>1. /\ UNCHANGED <<verdict, cmd, policy, nodes, jobs, wire, rules, conf, removed, late>>
        /\ worker[w].at = "queued" /\ worker' = [worker EXCEPT ![w].at = "send"]
    BY DEF Launch, At, Goto, policyVars
  <1>2. Worker = DOMAIN nodes /\ Worker' = Worker
    BY <1>1 DEF FleetType, Worker
  <1>3. \A v \in Worker : /\ worker'[v].job = worker[v].job
                          /\ worker'[v].attempt = worker[v].attempt
                          /\ worker'[v].errs = worker[v].errs
                          /\ worker'[v].at = IF v = w THEN "send" ELSE worker[v].at
    BY <1>1, <1>2 DEF FleetType, Goroutine
  <1>4. FleetType'
    <2>1. worker' \in [DOMAIN nodes -> Goroutine]
      BY <1>1, <1>2 DEF FleetType, Goroutine
    <2> QED
      BY <1>1, <2>1, FleetTypeStays DEF FleetType
  <1>5. \A r \in wire : r.w \in Worker /\ (Waiting(r)' <=> Waiting(r))
    BY <1>1, <1>2, <1>3 DEF FleetType, Request, Waiting, At
  <1>6. NoneAhead'
    BY <1>1, <1>3, <1>5 DEF NoneAhead
  <1>7. DoneAll'
    BY <1>1, <1>2, <1>3 DEF DoneAll, At
  <1>8. \A v \in Worker, a \in Address, k \in Limit : Wrote(v, a, k)' = Wrote(v, a, k)
    BY <1>1, <1>3, <1>5 DEF Wrote, Asked, Passed
  <1> QED
    BY <1>1, <1>3, <1>4, <1>6, <1>7, <1>8, ClientStep

LEMMA LeaveStep ==
  ASSUME ControlInv, NEW w \in Worker, Leave(w)
  PROVE  ControlInv'
  <1> USE DEF ControlInv
  <1>1. /\ UNCHANGED <<verdict, cmd, policy, nodes, jobs, wire, rules, conf, removed, late>>
        /\ worker[w].at = "send" /\ worker' = [worker EXCEPT ![w].at = "done"]
        /\ worker[w].job > Len(jobs)
    BY DEF Leave, At, Goto, policyVars
  <1>2. Worker = DOMAIN nodes /\ Worker' = Worker
    BY <1>1 DEF FleetType, Worker
  <1>3. \A v \in Worker : /\ worker'[v].job = worker[v].job
                          /\ worker'[v].attempt = worker[v].attempt
                          /\ worker'[v].errs = worker[v].errs
                          /\ worker'[v].at = IF v = w THEN "done" ELSE worker[v].at
    BY <1>1, <1>2 DEF FleetType, Goroutine
  <1>4. FleetType'
    <2>1. worker' \in [DOMAIN nodes -> Goroutine]
      BY <1>1, <1>2 DEF FleetType, Goroutine
    <2> QED
      BY <1>1, <2>1, FleetTypeStays DEF FleetType
  <1>5. \A r \in wire : r.w \in Worker /\ (Waiting(r)' <=> Waiting(r))
    BY <1>1, <1>2, <1>3 DEF FleetType, Request, Waiting, At
  <1>6. NoneAhead'
    BY <1>1, <1>3, <1>5 DEF NoneAhead
  <1>7. DoneAll'
    BY <1>1, <1>2, <1>3 DEF DoneAll, At
  <1>8. \A v \in Worker, a \in Address, k \in Limit : Wrote(v, a, k)' = Wrote(v, a, k)
    BY <1>1, <1>3, <1>5 DEF Wrote, Asked, Passed
  <1> QED
    BY <1>1, <1>3, <1>4, <1>6, <1>7, <1>8, ClientStep

\* None of the requests under way is of the attempt that begins.
LEMMA SendStep ==
  ASSUME ControlInv, NEW w \in Worker, Send(w)
  PROVE  ControlInv'
  <1> USE DEF ControlInv
  <1> DEFINE new == [w |-> w, j |-> worker[w].job, a |-> worker[w].attempt, at |-> "sent"]
  <1>1. /\ UNCHANGED <<verdict, cmd, policy, nodes, jobs, rules, conf, removed, late>>
        /\ worker[w].at = "send" /\ worker' = [worker EXCEPT ![w].at = "wait"]
        /\ worker[w].job <= Len(jobs) /\ wire' = wire \cup {new}
    BY DEF Send, At, Goto, policyVars
  <1>2. Worker = DOMAIN nodes /\ Worker' = Worker
    BY <1>1 DEF FleetType, Worker
  <1>3. \A v \in Worker : /\ worker'[v].job = worker[v].job
                          /\ worker'[v].attempt = worker[v].attempt
                          /\ worker'[v].errs = worker[v].errs
                          /\ worker'[v].at = IF v = w THEN "wait" ELSE worker[v].at
    BY <1>1, <1>2 DEF FleetType, Goroutine
  <1>4. new \in Request
    BY <1>1, <1>2 DEF FleetType, Stage, Request, Goroutine
  <1>5. FleetType'
    <2>1. wire' \subseteq Request
      BY <1>1, <1>4 DEF FleetType
    <2>2. worker' \in [DOMAIN nodes -> Goroutine]
      BY <1>1, <1>2 DEF FleetType, Goroutine
    <2> QED
      BY <1>1, <2>1, <2>2, FleetTypeStays
  <1>6. \A r \in wire : r.w \in Worker /\ (Waiting(r)' <=> Waiting(r))
    <2> SUFFICES ASSUME NEW r \in wire PROVE r.w \in Worker /\ (Waiting(r)' <=> Waiting(r))
      OBVIOUS
    <2>1. r.w \in Worker /\ r.j \in Nat /\ r.a \in Nat
      BY <1>2 DEF FleetType, Request
    <2>2. CASE r.w = w
      <3>1. r.j < worker[w].job \/ (r.j = worker[w].job /\ r.a < worker[w].attempt)
        BY <1>1, <2>2 DEF NoneAhead, Waiting, At
      <3>2. ~Waiting(r) /\ ~Waiting(r)'
        BY <1>1, <1>3, <2>1, <2>2, <3>1 DEF Waiting, At, FleetType, Goroutine
      <3> QED
        BY <2>1, <3>2
    <2>3. CASE r.w # w
      BY <1>3, <2>1, <2>3 DEF Waiting, At
    <2> QED
      BY <2>2, <2>3
  <1>7. new.w = w /\ new.at = "sent" /\ new.j = worker[w].job /\ new.a = worker[w].attempt
    OBVIOUS
  <1> HIDE DEF new
  <1>8. NoneAhead'
    BY <1>1, <1>3, <1>6, <1>7 DEF NoneAhead, Waiting, At
  <1>9. DoneAll'
    BY <1>1, <1>2, <1>3 DEF DoneAll, At
  <1>10. \A v \in Worker, a \in Address, k \in Limit : Wrote(v, a, k)' = Wrote(v, a, k)
    BY <1>1, <1>3, <1>6, <1>7 DEF Wrote, Asked, Passed
  <1>11. \A r \in wire' : r \in wire \/ r.at = "sent"
    BY <1>1, <1>7
  <1> QED
    BY <1>1, <1>3, <1>5, <1>8, <1>9, <1>10, <1>11, ClientStep

\* A worker leaves an attempt: for the next one, or for the next job, with an
\* error or with an answer.
LEMMA MoveOn ==
  ASSUME ControlInv, UNCHANGED <<verdict, cmd, policy, nodes, jobs, rules, conf, removed, late>>,
         NEW w \in Worker, wire' \subseteq wire, NEW again \in BOOLEAN,
         \/ Failed(w, again)
         \/ /\ NextJob(w, FALSE)
            /\ \E r \in wire : Waiting(r) /\ r.w = w /\ r.at = "ok"
  PROVE  ControlInv'
  <1> USE DEF ControlInv
  <1>1. Worker = DOMAIN nodes /\ Worker' = Worker /\ Worker # {}
    BY DEF FleetType, Worker, Failed, NextJob
  <1>2. /\ \A v \in Worker : v # w => worker'[v] = worker[v]
        /\ worker'[w].at = "send"
        /\ \/ /\ worker'[w].job = worker[w].job
              /\ worker'[w].attempt = worker[w].attempt + 1
              /\ worker'[w].errs = worker[w].errs
           \/ /\ worker'[w].job = worker[w].job + 1
              /\ worker'[w].errs = worker[w].errs + 1
           \/ /\ worker'[w].job = worker[w].job + 1
              /\ worker'[w].errs = worker[w].errs
              /\ \E r \in wire : Waiting(r) /\ r.w = w /\ r.at = "ok"
        /\ worker'[w] \in Goroutine
    <2>1. /\ worker[w] \in Goroutine /\ w \in DOMAIN worker
          /\ worker[w].job \in Nat /\ worker[w].attempt \in Nat /\ worker[w].errs \in Nat
          /\ worker[w].applied \in Nat
      BY <1>1 DEF FleetType, Goroutine
    <2>2. ASSUME again, worker[w].attempt < Attempts, Failed(w, again)
          PROVE  /\ \A v \in Worker : v # w => worker'[v] = worker[v]
                 /\ worker'[w] \in Goroutine /\ worker'[w].at = "send"
                 /\ worker'[w].job = worker[w].job /\ worker'[w].errs = worker[w].errs
                 /\ worker'[w].attempt = worker[w].attempt + 1
      <3>1. worker' = [worker EXCEPT ![w].attempt = @ + 1, ![w].at = "send"]
        BY <2>2 DEF Failed
      <3>2. worker'[w] = [[worker[w] EXCEPT !.attempt = @ + 1] EXCEPT !.at = "send"]
        BY <2>1, <3>1
      <3>3. PICK g \in Goroutine : g = worker[w]
        BY <2>1
      <3>4. PICK u \in Goroutine : u = [g EXCEPT !.attempt = g.attempt + 1]
        <4>1. PICK n \in Nat : n = g.attempt + 1
          BY DEF Goroutine
        <4>2. [g EXCEPT !.attempt = n] \in Goroutine
          BY DEF Goroutine
        <4> QED
          BY <4>1, <4>2
      <3>5. worker'[w] = [u EXCEPT !.at = "send"]
        BY <3>2, <3>3, <3>4
      <3>6. worker'[w] \in Goroutine
        BY <3>5 DEF Goroutine
      <3>7. /\ worker'[w].at = "send" /\ worker'[w].job = u.job /\ worker'[w].errs = u.errs
            /\ worker'[w].attempt = u.attempt
        BY <3>5 DEF Goroutine
      <3>8. u.job = g.job /\ u.errs = g.errs /\ u.attempt = g.attempt + 1
        BY <3>4 DEF Goroutine
      <3>9. \A v \in Worker : v # w => worker'[v] = worker[v]
        BY <3>1, <1>1 DEF Worker
      <3> QED
        BY <3>3, <3>6, <3>7, <3>8, <3>9
    <2>3. ASSUME NEW failed \in BOOLEAN, NextJob(w, failed)
          PROVE  /\ \A v \in Worker : v # w => worker'[v] = worker[v]
                 /\ worker'[w] \in Goroutine /\ worker'[w].at = "send"
                 /\ worker'[w].job = worker[w].job + 1
                 /\ worker'[w].errs = worker[w].errs + (IF failed THEN 1 ELSE 0)
      <3>1. PICK e \in {0, 1}, s \in {0, 1} :
              e = (IF failed THEN 1 ELSE 0) /\ s = (IF failed THEN 0 ELSE 1)
        OBVIOUS
      <3>2. worker' = [worker EXCEPT ![w] =
              [at |-> "send", job |-> @.job + 1, attempt |-> 1,
               errs |-> @.errs + e, applied |-> @.applied + s]]
        BY <2>3, <3>1 DEF NextJob
      <3>3. worker'[w] = [at |-> "send", job |-> worker[w].job + 1, attempt |-> 1,
                          errs |-> worker[w].errs + e, applied |-> worker[w].applied + s]
        BY <2>1, <3>2
      <3>4. /\ worker'[w] \in Goroutine /\ worker'[w].at = "send"
            /\ worker'[w].job = worker[w].job + 1 /\ worker'[w].errs = worker[w].errs + e
        BY <2>1, <3>3 DEF Goroutine
      <3> QED
        BY <3>1, <3>2, <3>4
    <2>4. TRUE \in BOOLEAN /\ FALSE \in BOOLEAN
      OBVIOUS
    <2>5. CASE Failed(w, again)
      <3>1. \/ again /\ worker[w].attempt < Attempts
            \/ NextJob(w, TRUE)
        BY <2>5 DEF Failed
      <3>2. CASE NextJob(w, TRUE)
        BY <2>3, <2>4, <3>2
      <3> QED
        BY <2>2, <2>5, <3>1, <3>2
    <2>6. CASE /\ NextJob(w, FALSE)
               /\ \E r \in wire : Waiting(r) /\ r.w = w /\ r.at = "ok"
      <3>1. /\ \A v \in Worker : v # w => worker'[v] = worker[v]
            /\ worker'[w] \in Goroutine /\ worker'[w].at = "send"
            /\ worker'[w].job = worker[w].job + 1
            /\ worker'[w].errs = worker[w].errs + (IF FALSE THEN 1 ELSE 0)
        BY <2>3, <2>4, <2>6
      <3>2. worker'[w].errs = worker[w].errs
        BY <2>1, <3>1
      <3> QED
        BY <2>6, <3>1, <3>2
    <2> QED
      BY <2>5, <2>6
  <1>12. FleetType'
    <2>1. DOMAIN worker' = DOMAIN nodes /\ worker' = [v \in DOMAIN nodes |-> worker'[v]]
      BY DEF FleetType, Failed, NextJob
    <2>2. \A v \in DOMAIN nodes : worker'[v] \in Goroutine
      BY <1>1, <1>2 DEF FleetType
    <2>3. worker' \in [DOMAIN nodes -> Goroutine]
      BY <2>1, <2>2
    <2> QED
      BY <2>3, FleetTypeStays DEF FleetType
  <1>3. /\ \A v \in Worker : worker[v].job \in Nat /\ worker[v].attempt \in Nat
                             /\ worker[v].errs \in Nat
        /\ \A r \in wire : r.w \in Worker /\ r.j \in DOMAIN jobs /\ r.j \in Nat /\ r.a \in Nat
    BY <1>1 DEF FleetType, Goroutine, Request
  <1>4. \A r \in wire' : IF r.w = w THEN ~Waiting(r)' ELSE Waiting(r)' <=> Waiting(r)
    BY <1>2, <1>3 DEF Waiting, At
  <1>5. NoneAhead'
    <2> SUFFICES ASSUME NEW r \in wire'
                 PROVE  \/ r.j < worker'[r.w].job
                        \/ r.j = worker'[r.w].job /\ r.a < worker'[r.w].attempt
                        \/ Waiting(r)'
      BY DEF NoneAhead
    <2>1. CASE r.w # w
      BY <1>2, <1>3, <1>4, <2>1 DEF NoneAhead
    <2>2. CASE r.w = w
      <3>1. r.j <= worker[w].job /\ (r.j = worker[w].job => r.a <= worker[w].attempt)
        BY <1>3, <2>2 DEF NoneAhead, Waiting, At
      <3>2. CASE worker'[w].job = worker[w].job + 1
        BY <1>3, <2>2, <3>1, <3>2
      <3>3. CASE /\ worker'[w].job = worker[w].job
                 /\ worker'[w].attempt = worker[w].attempt + 1
        BY <1>3, <2>2, <3>1, <3>3
      <3> QED
        BY <1>2, <3>2, <3>3
    <2> QED
      BY <2>1, <2>2
  <1>6. DoneAll'
    BY <1>1, <1>2 DEF DoneAll, At
  <1>7. \A v \in Worker : worker'[v].errs = 0 => worker[v].errs = 0
    BY <1>2, <1>3
  <1>8. ASSUME NEW v \in Worker, worker'[v].errs = 0, NEW j \in DOMAIN jobs, j < worker'[v].job
        PROVE  j < worker[v].job \/ \E r \in wire : r.w = v /\ r.j = j /\ Waiting(r) /\ r.at = "ok"
    <2>1. j \in Nat
      BY DEF FleetType
    <2>2. CASE v # w
      BY <1>2, <1>8, <2>2
    <2>3. CASE v = w /\ worker'[w].job = worker[w].job
      BY <1>8, <2>3
    <2>4. CASE v = w /\ worker'[w].job = worker[w].job + 1
      <3>1. PICK r \in wire : Waiting(r) /\ r.w = w /\ r.at = "ok"
        BY <1>2, <1>3, <1>8, <2>4
      <3>2. r.j = worker[w].job
        BY <3>1 DEF Waiting
      <3> QED
        BY <1>3, <1>8, <2>1, <2>4, <3>1, <3>2
    <2> QED
      BY <1>2, <2>2, <2>3, <2>4
  <1>9. ASSUME NEW v \in Worker, NEW a \in Address, NEW k \in Limit, worker'[v].errs = 0,
               NEW j \in Wrote(v, a, k)'
        PROVE  j \in Wrote(v, a, k)
    <2>1. j \in Asked(a, k) /\ j \in DOMAIN jobs
      BY DEF Wrote, Asked
    <2>2. CASE j < worker'[v].job
      BY <1>8, <1>9, <2>1, <2>2 DEF Wrote, Passed
    <2>3. ASSUME NEW r \in wire', r.w = v, r.j = j, Waiting(r)', Passed(r, k)
          PROVE  j \in Wrote(v, a, k)
      BY <1>4, <2>1, <2>3 DEF Wrote
    <2> QED
      BY <2>2, <2>3 DEF Wrote, Passed
  <1>10. \A v \in Worker, a \in Address, k \in Limit : worker'[v].errs = 0 =>
           Wrote(v, a, k)' \subseteq Wrote(v, a, k)
    BY <1>9
  <1>11. \A v \in Worker, j \in DOMAIN jobs : worker'[v].errs = 0 /\ j < worker'[v].job =>
           j < worker[v].job \/ \E r \in wire : r.w = v /\ r.j = j /\ r.at = "ok"
    BY <1>8
  <1> QED
    BY <1>1, <1>2, <1>5, <1>6, <1>7, <1>10, <1>11, <1>12, ClientStep

LEMMA AnswerStep ==
  ASSUME ControlInv, NEW r \in wire, Answer(r)
  PROVE  ControlInv'
  <1>1. /\ UNCHANGED <<verdict, cmd, policy, nodes, jobs, rules, conf, removed, late>>
        /\ wire' \subseteq wire /\ Waiting(r)
        /\ \/ r.at = "ok" /\ NextJob(r.w, FALSE)
           \/ Failed(r.w, cmd # "apply")
    BY DEF Answer, policyVars
  <1>2. r.w \in Worker
    BY DEF ControlInv, FleetType, Worker, Request
  <1>3. PICK again \in BOOLEAN : again = (cmd # "apply")
    OBVIOUS
  <1>4. (r.at = "ok" /\ NextJob(r.w, FALSE)) \/ Failed(r.w, again)
    BY <1>1, <1>3, Zenon
  <1> QED
    BY <1>1, <1>2, <1>4, MoveOn

LEMMA TimeoutStep ==
  ASSUME ControlInv, NEW w \in Worker, Timeout(w)
  PROVE  ControlInv'
  <1>1. /\ UNCHANGED <<verdict, cmd, policy, nodes, jobs, rules, conf, removed, late>>
        /\ wire' \subseteq wire /\ Failed(w, TRUE)
    BY DEF Timeout, policyVars
  <1>2. TRUE \in BOOLEAN
    OBVIOUS
  <1> QED
    BY <1>1, <1>2, MoveOn

LEMMA PartSet ==
  ASSUME NEW R, Ruled(R), NEW h \in Host, NEW a \in Address, NEW x,
         NEW k \in Part, NEW S, S = [R EXCEPT ![h][a][k] = x]
  PROVE  Ruled(S) /\ RulePut(R, S, h, a, k, x)
  <1>1. PICK X : R \in Daemons(X)
    BY DEF Ruled
  <1>2. S \in Daemons(X \cup {x})
    BY <1>1, SMT DEF Daemons
  <1>3. RulePut(R, S, h, a, k, x)
    BY <1>1, SMT DEF Daemons, RulePut
  <1> QED
    BY <1>2, <1>3 DEF Ruled

\* The block of an address is set or lifted.
LEMMA BlockSet ==
  ASSUME NEW R, Ruled(R), NEW h \in Host, NEW a \in Address, NEW x,
         NEW S, S = [R EXCEPT ![h][a].blocked = x]
  PROVE  Ruled(S) /\ RulePut(R, S, h, a, "blocked", x)
  <1>1. "blocked" \in Part /\ S = [R EXCEPT ![h][a]["blocked"] = x]
    BY DEF Part
  <1> QED
    BY <1>1, PartSet

LEMMA SettingSet ==
  ASSUME NEW C, Configured(C), NEW h \in Host, NEW k \in Settings, NEW x,
         NEW D, D = [C EXCEPT ![h][k] = x]
  PROVE  Configured(D) /\ ConfPut(C, D, h, k, x)
  <1>1. PICK X : C \in Confs(X)
    BY DEF Configured
  <1>2. D \in Confs(X \cup {x})
    BY <1>1, SMT DEF Confs
  <1>3. ConfPut(C, D, h, k, x)
    BY <1>1, SMT DEF Confs, ConfPut
  <1> QED
    BY <1>2, <1>3 DEF Configured

\* A host's limit stays as well set as it was where nobody writes it.
LEMMA LimitKept ==
  ASSUME NEW h, NEW a, NEW k, LimitSet(h, a, k), UNCHANGED <<nodes, jobs, worker>>,
         rules'[h][a][k] = rules[h][a][k], a \in late[h] => a \in late'[h],
         \A v \in Worker : HostOf(v) = h => Wrote(v, a, k)' \subseteq Wrote(v, a, k)
  PROVE  LimitSet(h, a, k)'
  <1>1. PICK i \in Asked(a, k) :
          /\ rules[h][a][k] = jobs[i][k]
          /\ a \notin late[h] =>
               \E v \in Worker : HostOf(v) = h /\ \A j \in Wrote(v, a, k) : j <= i
    BY DEF LimitSet
  <1>2. i \in Asked(a, k)' /\ rules'[h][a][k] = jobs'[i][k]
    BY <1>1 DEF Asked
  <1>3. ASSUME a \notin late'[h]
        PROVE  \E v \in Worker' : HostOf(v)' = h /\ \A j \in Wrote(v, a, k)' : j <= i
    <2>1. PICK v \in Worker : HostOf(v) = h /\ \A j \in Wrote(v, a, k) : j <= i
      BY <1>1, <1>3
    <2>2. v \in Worker' /\ HostOf(v)' = h
      BY <2>1 DEF Worker, HostOf
    <2> QED
      BY <2>1, <2>2
  <1> QED
    BY <1>2, <1>3 DEF LimitSet

\* A request that moves on stays the request it is.
LEMMA Moving ==
  ASSUME ControlInv, NEW r \in wire, NEW stage \in Stage, Moves(r, stage),
         UNCHANGED <<nodes, jobs, worker>>
  PROVE  /\ wire' \subseteq Request
         /\ \A q \in Request : Waiting(q)' <=> Waiting(q)
         /\ \A q \in wire' : \/ q \in wire
                             \/ /\ q.w = r.w /\ q.j = r.j /\ q.a = r.a /\ q.at = stage
                                /\ Waiting(q) <=> Waiting(r)
  <1> DEFINE moved == [r EXCEPT !.at = stage]
  <1>1. r \in Request
    BY DEF ControlInv, FleetType
  <1>2. /\ moved \in Request /\ moved.w = r.w /\ moved.j = r.j /\ moved.a = r.a
        /\ moved.at = stage
    BY <1>1 DEF Request
  <1> HIDE DEF moved
  <1>3. Waiting(moved) <=> Waiting(r)
    BY <1>2 DEF Waiting
  <1>4. \A q \in wire' : q \in wire \/ q = moved
    BY DEF Moves, moved
  <1>5. wire' \subseteq Request
    BY <1>2, <1>4 DEF ControlInv, FleetType
  <1>6. \A q \in Request : Waiting(q)' <=> Waiting(q)
    BY DEF Waiting, At
  <1> QED
    BY <1>2, <1>3, <1>4, <1>5, <1>6

\* What a stage of a request has to show, besides what it does to a limit.
LEMMA StageServed ==
  ASSUME ControlInv, NEW r \in wire, NEW stage \in Stage, Moves(r, stage),
         UNCHANGED <<verdict, cmd, policy, nodes, jobs, worker, removed>>,
         RulesType', ConfType', late' \in [Host -> SUBSET Address],
         \A h \in Host, j \in DOMAIN jobs :
           /\ Blocks(h, j) => Blocks(h, j)'
           /\ Sets(h, j) => Sets(h, j)',
         stage \in {"pps", "kbps", "ok"} => Blocks(HostOf(r.w), r.j)',
         stage = "ok" => Sets(HostOf(r.w), r.j)',
         stage \in Limit => jobs[r.j].do = "rule" /\ jobs[r.j][stage] > 0,
         LimitsSet'
  PROVE  ControlInv'
  <1> USE DEF ControlInv
  <1>1. /\ wire' \subseteq Request
        /\ \A q \in Request : Waiting(q)' <=> Waiting(q)
        /\ \A q \in wire' : \/ q \in wire
                            \/ /\ q.w = r.w /\ q.j = r.j /\ q.a = r.a /\ q.at = stage
                               /\ Waiting(q) <=> Waiting(r)
    BY Moving
  <1>2. Request' = Request /\ Goroutine' = Goroutine
    BY Zenon DEF Request, Goroutine
  <1>3. FleetType'
    BY <1>1, <1>2 DEF FleetType, HostOf
  <1>4. \A q \in wire \cup wire' : q.w \in DOMAIN nodes /\ q.j \in DOMAIN jobs /\ HostOf(q.w) \in Host
    BY <1>1 DEF FleetType, Request
  <1>5. OneCommand'
    <2>1. nodes # <<>>
      BY <1>4
    <2> QED
      BY <2>1 DEF OneCommand
  <1>6. NoneAhead'
    <2> SUFFICES ASSUME NEW q \in wire'
                 PROVE  \/ q.j < worker[q.w].job
                        \/ q.j = worker[q.w].job /\ q.a < worker[q.w].attempt
                        \/ Waiting(q)
      BY <1>1 DEF NoneAhead
    <2> QED
      BY <1>1 DEF NoneAhead
  <1>7. DoneAll'
    BY DEF DoneAll, At, Worker
  <1>8. UnderWay'
    <2>1. ASSUME NEW q \in wire'
          PROVE  /\ q.at \in {"pps", "kbps", "ok"} => Blocks(HostOf(q.w), q.j)'
                 /\ q.at = "ok" => Sets(HostOf(q.w), q.j)'
                 /\ q.at \in Limit => jobs[q.j].do = "rule" /\ jobs[q.j][q.at] > 0
      <3>1. HostOf(q.w)' = HostOf(q.w)
        BY DEF HostOf
      <3>2. CASE q \in wire
        BY <1>4, <3>1, <3>2 DEF UnderWay
      <3>3. CASE q.w = r.w /\ q.j = r.j /\ q.at = stage
        BY <3>3
      <3> QED
        BY <1>1, <3>2, <3>3
    <2> QED
      BY <2>1 DEF UnderWay
  <1>9. Answered'
    <2>1. ASSUME NEW v \in Worker, Clean(HostOf(v)), NEW j \in DOMAIN jobs, j < worker[v].job
          PROVE  Blocks(HostOf(v), j)' /\ Sets(HostOf(v), j)'
      <3>1. HostOf(v) \in Host /\ HostOf(v)' = HostOf(v)
        BY DEF FleetType, Worker, HostOf
      <3> QED
        BY <2>1, <3>1 DEF Answered
    <2>2. \A v \in Worker : HostOf(v)' = HostOf(v) /\ (Clean(HostOf(v))' <=> Clean(HostOf(v)))
      BY DEF Worker, HostOf, Clean
    <2> QED
      BY <2>1, <2>2 DEF Answered, Worker
  <1> QED
    BY <1>3, <1>5, <1>6, <1>7, <1>8, <1>9 DEF OneSetting

\* A request that moves on has set nothing more, but for the stage it has passed.
LEMMA WroteMore ==
  ASSUME ControlInv, NEW r \in wire, NEW stage \in Stage, Moves(r, stage),
         UNCHANGED <<nodes, jobs, worker>>, NEW v \in Worker, NEW a, NEW k \in Limit,
         NEW j \in Wrote(v, a, k)', j \notin Wrote(v, a, k)
  PROVE  /\ v = r.w /\ j = r.j /\ Waiting(r) /\ j \in Asked(a, k)
         /\ IF k = "pps" THEN stage \in {"kbps", "ok"} ELSE stage = "ok"
  <1>1. /\ wire' \subseteq Request
        /\ \A q \in Request : Waiting(q)' <=> Waiting(q)
        /\ \A q \in wire' : \/ q \in wire
                            \/ /\ q.w = r.w /\ q.j = r.j /\ q.a = r.a /\ q.at = stage
                               /\ Waiting(q) <=> Waiting(r)
    BY Moving
  <1>2. j \in Asked(a, k)
    BY DEF Wrote, Asked
  <1>3. ~(j < worker[v].job)
    BY <1>2 DEF Wrote
  <1>4. PICK q \in wire' : q.w = v /\ q.j = j /\ Waiting(q)' /\ Passed(q, k)
    BY <1>3 DEF Wrote, Passed
  <1>5. Waiting(q)
    BY <1>1, <1>4
  <1>6. q \notin wire
    BY <1>2, <1>4, <1>5 DEF Wrote
  <1>7. q.w = r.w /\ q.j = r.j /\ q.at = stage /\ Waiting(r)
    BY <1>1, <1>5, <1>6
  <1> QED
    BY <1>2, <1>4, <1>7 DEF Passed

LEMMA LimitsServed ==
  ASSUME ControlInv, UNCHANGED <<nodes, jobs, worker>>,
         \A h \in Host : late[h] \subseteq late'[h],
         \A h \in Host, a \in Address, k \in Limit :
           \/ LimitSet(h, a, k)'
           \/ /\ rules'[h][a][k] = rules[h][a][k]
              /\ \A v \in Worker : HostOf(v) = h => Wrote(v, a, k)' \subseteq Wrote(v, a, k)
  PROVE  LimitsSet'
  <1>1. \A w \in Worker : HostOf(w)' = HostOf(w) /\ HostOf(w) \in Host
    BY DEF ControlInv, FleetType, HostOf, Worker
  <1>2. \A w \in Worker : Clean(HostOf(w))' <=> Clean(HostOf(w))
    BY <1>1 DEF Clean, Worker
  <1>3. ASSUME NEW w \in Worker, NEW a \in Address, NEW k \in Limit, Clean(HostOf(w)),
               Wrote(w, a, k)' # {}
        PROVE  LimitSet(HostOf(w), a, k)'
    <2>1. PICK h \in Host : h = HostOf(w)
      BY <1>1
    <2>2. CASE LimitSet(h, a, k)'
      BY <1>1, <2>1, <2>2 DEF LimitSet
    <2>3. CASE /\ rules'[h][a][k] = rules[h][a][k]
               /\ \A v \in Worker : HostOf(v) = h => Wrote(v, a, k)' \subseteq Wrote(v, a, k)
      <3>1. Wrote(w, a, k) # {}
        BY <1>3, <2>1, <2>3
      <3>2. LimitSet(h, a, k)
        BY <1>3, <2>1, <3>1 DEF ControlInv, LimitsSet
      <3>3. a \in late[h] => a \in late'[h]
        OBVIOUS
      <3>4. LimitSet(h, a, k)'
        BY <2>3, <3>2, <3>3, LimitKept
      <3> QED
        BY <2>2, <3>4
    <2> QED
      BY <2>2, <2>3
  <1> QED
    BY <1>1, <1>2, <1>3 DEF LimitsSet, Worker

\* A stage that sets no limit and passes none that is asked for.
LEMMA NoLimitSet ==
  ASSUME ControlInv, NEW r \in wire, NEW stage \in Stage, Moves(r, stage),
         UNCHANGED <<nodes, jobs, worker>>,
         \A h \in Host : late[h] \subseteq late'[h],
         \A h \in Host, a \in Address, k \in Limit : rules'[h][a][k] = rules[h][a][k],
         jobs[r.j].do = "rule" =>
           /\ stage \in {"kbps", "ok"} => ~(jobs[r.j].pps > 0)
           /\ stage = "ok" => ~(jobs[r.j].kbps > 0)
  PROVE  LimitsSet'
  <1>1. ASSUME NEW v \in Worker, NEW a \in Address, NEW k \in Limit, NEW j \in Wrote(v, a, k)'
        PROVE  j \in Wrote(v, a, k)
    <2> SUFFICES ASSUME j \notin Wrote(v, a, k) PROVE FALSE
      OBVIOUS
    <2>1. /\ v = r.w /\ j = r.j /\ Waiting(r) /\ j \in Asked(a, k)
          /\ IF k = "pps" THEN stage \in {"kbps", "ok"} ELSE stage = "ok"
      BY WroteMore
    <2>2. CASE k = "pps"
      BY <2>1, <2>2 DEF Asked
    <2>3. CASE k = "kbps"
      BY <2>1, <2>3 DEF Asked
    <2> QED
      BY <2>2, <2>3 DEF Limit
  <1> QED
    BY <1>1, LimitsServed

LEMMA LateType ==
  ASSUME ControlInv, NEW r \in wire, NEW h \in Host, NEW x \in Address, Marked(r, h, x)
  PROVE  /\ late' \in [Host -> SUBSET Address]
         /\ \A g \in Host : late[g] \subseteq late'[g]
         /\ ~Waiting(r) => x \in late'[h]
  <1>1. late \in [Host -> SUBSET Address]
    BY DEF ControlInv, FleetType
  <1>2. CASE Waiting(r)
    BY <1>1, <1>2 DEF Marked
  <1>3. CASE ~Waiting(r)
    <2>1. late' = [late EXCEPT ![h] = @ \cup {x}]
      BY <1>3 DEF Marked
    <2> QED
      BY <1>1, <1>3, <2>1
  <1> QED
    BY <1>2, <1>3

\* A request that is refused leaves what it has done.
LEMMA RefusedStep ==
  ASSUME ControlInv, NEW r \in wire, Moves(r, "refused"),
         UNCHANGED <<verdict, cmd, policy, nodes, jobs, worker, removed, rules, conf, late>>
  PROVE  ControlInv'
  <1>1. "refused" \in Stage
    BY DEF Stage
  <1>2. LimitsSet'
    BY <1>1, NoLimitSet
  <1>3. RulesType' /\ ConfType' /\ late' \in [Host -> SUBSET Address]
    BY DEF ControlInv, RulesType, ConfType, FleetType, Ruled, Daemons, Configured, Confs
  <1>4. \A h \in Host, j \in DOMAIN jobs :
           /\ Blocks(h, j) => Blocks(h, j)'
           /\ Sets(h, j) => Sets(h, j)'
    BY DoneStays
  <1> QED
    BY <1>1, <1>2, <1>3, <1>4, StageServed DEF Limit

LEMMA HealthStep ==
  ASSUME ControlInv, NEW r \in wire, Moves(r, "ok"), jobs[r.j].do = "health",
         UNCHANGED <<verdict, cmd, policy, nodes, jobs, worker, removed, rules, conf, late>>
  PROVE  ControlInv'
  <1>1. "ok" \in Stage
    BY DEF Stage
  <1>2. LimitsSet'
    BY <1>1, NoLimitSet
  <1>3. RulesType' /\ ConfType' /\ late' \in [Host -> SUBSET Address]
    BY DEF ControlInv, RulesType, ConfType, FleetType, Ruled, Daemons, Configured, Confs
  <1>4. \A h \in Host, j \in DOMAIN jobs :
           /\ Blocks(h, j) => Blocks(h, j)'
           /\ Sets(h, j) => Sets(h, j)'
    BY DoneStays
  <1>5. Blocks(HostOf(r.w), r.j)' /\ Sets(HostOf(r.w), r.j)'
    BY DEF Blocks, Sets, Settings
  <1> QED
    BY <1>1, <1>2, <1>3, <1>4, <1>5, StageServed DEF Limit

\* The settings of two requests are the same, so one does not undo the other.
LEMMA SettingStep ==
  ASSUME ControlInv, NEW r \in wire, Moves(r, "ok"), jobs[r.j].do \in Settings,
         conf' = [conf EXCEPT ![HostOf(r.w)][jobs[r.j].do] = jobs[r.j].cfg],
         UNCHANGED <<verdict, cmd, policy, nodes, jobs, worker, removed, rules, late>>
  PROVE  ControlInv'
  <1>1. "ok" \in Stage
    BY DEF Stage
  <1>2. LimitsSet'
    BY <1>1, NoLimitSet DEF Settings
  <1>3. r.w \in DOMAIN nodes /\ r.j \in DOMAIN jobs
    BY DEF ControlInv, FleetType, Request
  <1> DEFINE x == jobs[r.j].cfg
  <1>4. PICK h \in Host, s \in Settings : h = HostOf(r.w) /\ s = jobs[r.j].do
    BY <1>3 DEF ControlInv, FleetType
  <1>5. conf' = [conf EXCEPT ![h][s] = x]
    BY <1>4
  <1> HIDE DEF x
  <1>6. Configured(conf') /\ ConfPut(conf, conf', h, s, x)
    BY <1>5, SettingSet DEF ControlInv, ConfType
  <1>7. \A g \in Host, l \in Settings : conf'[g][l] = IF g = h /\ l = s THEN x ELSE conf[g][l]
    BY <1>6 DEF ConfPut
  <1>8. RulesType' /\ ConfType' /\ late' \in [Host -> SUBSET Address]
    BY <1>6 DEF ControlInv, RulesType, ConfType, FleetType, Ruled, Daemons, Configured, Confs
  <1>9. ASSUME NEW g \in Host, NEW j \in DOMAIN jobs, Sets(g, j) \/ (g = h /\ j = r.j)
        PROVE  Sets(g, j)'
    <2>1. jobs[j].do = s => jobs[j].cfg = x
      BY <1>3, <1>4 DEF ControlInv, OneSetting, x
    <2> QED
      BY <1>4, <1>7, <1>9, <2>1 DEF Sets
  <1>10. \A g \in Host, j \in DOMAIN jobs : Blocks(g, j) => Blocks(g, j)'
    BY DEF Blocks
  <1>11. Blocks(HostOf(r.w), r.j)' /\ Sets(HostOf(r.w), r.j)'
    <2>1. HostOf(r.w)' = h
      BY <1>4 DEF HostOf
    <2> QED
      BY <1>3, <1>9, <2>1 DEF Blocks, Sets, Settings
  <1> QED
    BY <1>1, <1>2, <1>8, <1>9, <1>10, <1>11, StageServed DEF Limit

LEMMA BlockStep ==
  ASSUME ControlInv, NEW r \in wire, r.at = "sent",
         NEW h \in Host, h = HostOf(r.w), NEW a \in Address, a = jobs[r.j].ip,
         jobs[r.j].do = "rule",
         NEW yes, yes, Ruled(rules'), RulePut(rules, rules', h, a, "blocked", yes),
         Moves(r, After(jobs[r.j], "sent")), Marked(r, h, a),
         UNCHANGED <<verdict, cmd, policy, nodes, jobs, worker, removed, conf>>
  PROVE  ControlInv'
  <1>1. PICK stage \in Stage :
          /\ stage = After(jobs[r.j], "sent")
          /\ stage \in {"pps", "kbps", "ok"}
          /\ stage \in Limit => jobs[r.j][stage] > 0
          /\ stage \in {"kbps", "ok"} => ~(jobs[r.j].pps > 0)
          /\ stage = "ok" => ~(jobs[r.j].kbps > 0)
    BY DEF After, Stage, Limit
  <1>2. Moves(r, stage)
    BY <1>1
  <1>3. /\ late' \in [Host -> SUBSET Address]
        /\ \A g \in Host : late[g] \subseteq late'[g]
    BY LateType
  <1>7. RulesType' /\ ConfType'
    BY DEF ControlInv, RulesType, ConfType, Ruled, Daemons, Configured, Confs
  <1>8. ASSUME NEW g \in Host, NEW b \in Address, NEW k \in Limit
        PROVE  rules'[g][b][k] = rules[g][b][k]
    <2>1. k \in Part /\ k # "blocked"
      BY DEF Part, Limit
    <2> QED
      BY <2>1, Zenon DEF RulePut
  <1>9. ASSUME NEW g \in Host, NEW b \in Address, rules[g][b].blocked \/ (g = h /\ b = a)
        PROVE  rules'[g][b].blocked
    <2>1. rules'[g][b].blocked = IF g = h /\ b = a THEN yes ELSE rules[g][b].blocked
      <3>1. "blocked" \in Part
        BY DEF Part
      <3> QED
        BY <3>1, Zenon DEF RulePut
    <2>2. CASE g = h /\ b = a
      BY <2>1, <2>2, Zenon
    <2>3. CASE ~(g = h /\ b = a)
      BY <1>9, <2>1, <2>3, Zenon
    <2> QED
      BY <2>2, <2>3
  <1>10. LimitsSet'
    BY <1>1, <1>2, <1>3, <1>8, NoLimitSet
  <1>11. \A g \in Host, j \in DOMAIN jobs :
            /\ Blocks(g, j) => Blocks(g, j)'
            /\ Sets(g, j) => Sets(g, j)'
    BY <1>9 DEF Blocks, Sets
  <1>12. Blocks(HostOf(r.w), r.j)' /\ Sets(HostOf(r.w), r.j)'
    <2>1. HostOf(r.w)' = h
      BY DEF HostOf
    <2> QED
      BY <1>9, <2>1 DEF Blocks, Sets, Settings
  <1> QED
    BY <1>1, <1>2, <1>3, <1>7, <1>10, <1>11, <1>12, StageServed

\* A limit that is written is the newest its worker has set: what the worker has
\* behind it are earlier requests.  One that nobody waits for is noted.
LEMMA LimitStep ==
  ASSUME ControlInv, NEW r \in wire, NEW at \in Limit, r.at = at,
         NEW h \in Host, h = HostOf(r.w), NEW a \in Address, a = jobs[r.j].ip,
         jobs[r.j].do = "rule",
         NEW x, x = jobs[r.j][at], Ruled(rules'), RulePut(rules, rules', h, a, at, x),
         Moves(r, After(jobs[r.j], at)), Marked(r, h, a),
         UNCHANGED <<verdict, cmd, policy, nodes, jobs, worker, removed, conf>>
  PROVE  ControlInv'
  <1>1. PICK stage \in Stage :
          /\ stage = After(jobs[r.j], at)
          /\ stage \in {"kbps", "ok"}
          /\ stage = "kbps" => at = "pps" /\ jobs[r.j].kbps > 0
          /\ at = "pps" /\ stage = "ok" => ~(jobs[r.j].kbps > 0)
    BY DEF After, Stage, Limit
  <1>2. Moves(r, stage)
    BY <1>1
  <1>3. /\ late' \in [Host -> SUBSET Address]
        /\ \A g \in Host : late[g] \subseteq late'[g]
        /\ ~Waiting(r) => a \in late'[h]
    BY LateType
  <1>6. \A g \in Host, b \in Address, l \in Part :
          rules'[g][b][l] = IF g = h /\ b = a /\ l = at THEN x ELSE rules[g][b][l]
    BY DEF RulePut
  <1>7. RulesType' /\ ConfType'
    BY DEF ControlInv, RulesType, ConfType, Ruled, Daemons, Configured, Confs
  <1>8. \A g \in Host, b \in Address : rules'[g][b].blocked = rules[g][b].blocked
    BY <1>6 DEF Part, Limit
  <1>9. /\ r.w \in DOMAIN nodes /\ r.w \in Worker /\ r.j \in DOMAIN jobs /\ r.j \in Nat
        /\ r.j \in Asked(a, at) /\ Blocks(h, r.j)
    BY DEF ControlInv, FleetType, Request, Worker, UnderWay, Asked, Limit
  <1>10. ASSUME NEW g \in Host, NEW b \in Address, NEW k \in Limit
         PROVE  \/ LimitSet(g, b, k)'
                \/ /\ rules'[g][b][k] = rules[g][b][k]
                   /\ \A v \in Worker : HostOf(v) = g => Wrote(v, b, k)' \subseteq Wrote(v, b, k)
    <2>1. CASE g = h /\ b = a /\ k = at
      <3>1. r.j \in Asked(b, k)' /\ rules'[g][b][k] = jobs'[r.j][k]
        BY <1>6, <1>9, <2>1 DEF Asked, Part, Limit
      <3>2. ASSUME b \notin late'[g], NEW j \in Wrote(r.w, b, k)'
            PROVE  j <= r.j
        <4>1. Waiting(r) /\ worker[r.w].job = r.j
          BY <1>3, <2>1, <3>2 DEF Waiting
        <4>2. j \in DOMAIN jobs /\ j \in Nat
          BY DEF Wrote, Asked, ControlInv, FleetType
        <4>3. CASE j < worker[r.w].job
          BY <1>9, <4>1, <4>2, <4>3
        <4>4. CASE \E q \in wire' : q.w = r.w /\ q.j = j /\ Waiting(q)'
          BY <1>9, <4>1, <4>4 DEF Waiting
        <4> QED
          BY <4>3, <4>4 DEF Wrote, Passed
      <3>3. HostOf(r.w)' = g /\ r.w \in Worker'
        BY <1>9, <2>1 DEF HostOf, Worker
      <3> QED
        BY <3>1, <3>2, <3>3 DEF LimitSet
    <2>2. CASE ~(g = h /\ b = a /\ k = at)
      <3>1. rules'[g][b][k] = rules[g][b][k]
        BY <1>6, <2>2 DEF Part, Limit
      <3>2. ASSUME NEW v \in Worker, HostOf(v) = g, NEW j \in Wrote(v, b, k)',
                   j \notin Wrote(v, b, k)
            PROVE  FALSE
        <4>1. /\ v = r.w /\ j = r.j /\ Waiting(r) /\ j \in Asked(b, k)
              /\ IF k = "pps" THEN stage \in {"kbps", "ok"} ELSE stage = "ok"
          BY <1>2, <3>2, WroteMore
        <4>2. g = h /\ b = a /\ k # at
          BY <2>2, <3>2, <4>1 DEF Asked
        <4>3. CASE k = "pps"
          BY <1>1, <1>9, <3>2, <4>1, <4>2, <4>3 DEF Limit, Wrote, Passed
        <4>4. CASE k = "kbps"
          BY <1>1, <4>1, <4>2, <4>4 DEF Limit, Asked
        <4> QED
          BY <4>3, <4>4 DEF Limit
      <3> QED
        BY <3>1, <3>2
    <2> QED
      BY <2>1, <2>2
  <1>11. LimitsSet'
    BY <1>3, <1>10, LimitsServed
  <1>12. \A g \in Host, j \in DOMAIN jobs :
            /\ Blocks(g, j) => Blocks(g, j)'
            /\ Sets(g, j) => Sets(g, j)'
    BY <1>8 DEF Blocks, Sets
  <1>13. Blocks(HostOf(r.w), r.j)' /\ Sets(HostOf(r.w), r.j)'
    <2>1. HostOf(r.w)' = h
      BY DEF HostOf
    <2> QED
      BY <1>9, <1>12, <2>1 DEF Blocks, Sets, Settings
  <1>14. stage \in Limit => jobs[r.j].do = "rule" /\ jobs[r.j][stage] > 0
    BY <1>1 DEF Limit
  <1> QED
    BY <1>1, <1>2, <1>3, <1>7, <1>11, <1>12, <1>13, <1>14, StageServed

LEMMA ServeStep ==
  ASSUME ControlInv, NEW r \in wire, Serve(r)
  PROVE  ControlInv'
  <1>1. r.w \in DOMAIN nodes /\ r.j \in DOMAIN jobs /\ r.at \in {"sent", "pps", "kbps"}
    BY DEF ControlInv, FleetType, Request, Serve
  <1>2. PICK h \in Host : h = HostOf(r.w)
    BY <1>1 DEF ControlInv, FleetType
  <1>3. UNCHANGED <<verdict, cmd, policy, nodes, jobs, worker, removed>>
    BY DEF Serve, policyVars
  <1>8. Ruled(rules)
    BY DEF ControlInv, RulesType
  <1>4. CASE Moves(r, "refused") /\ UNCHANGED <<rules, conf, late>>
    BY <1>3, <1>4, RefusedStep
  <1>5. CASE jobs[r.j].do = "health" /\ Moves(r, "ok") /\ UNCHANGED <<rules, conf, late>>
    BY <1>3, <1>5, HealthStep
  <1>6. CASE jobs[r.j].do \in Settings /\ ServeSetting(r, h, jobs[r.j]) /\ UNCHANGED rules
    <2>1. UNCHANGED late
      BY <1>6 DEF ServeSetting
    <2>2. CASE conf' = [conf EXCEPT ![h][jobs[r.j].do] = jobs[r.j].cfg] /\ Moves(r, "ok")
      BY <1>2, <1>3, <1>6, <2>1, <2>2, SettingStep
    <2> QED
      BY <1>3, <1>4, <1>6, <2>1, <2>2 DEF ServeSetting
  <1>7. CASE jobs[r.j].do = "rule" /\ ServeRule(r, h, jobs[r.j]) /\ UNCHANGED conf
    <2>1. CASE /\ r.at = "sent" /\ jobs[r.j].ip \in Address
               /\ rules' = [rules EXCEPT ![h][jobs[r.j].ip].blocked = TRUE]
               /\ Moves(r, After(jobs[r.j], "sent")) /\ Marked(r, h, jobs[r.j].ip)
      <3>1. PICK a \in Address : a = jobs[r.j].ip
        BY <2>1
      <3>2. rules' = [rules EXCEPT ![h][a].blocked = TRUE]
        BY <2>1, <3>1
      <3>3. PICK yes : yes = TRUE
        OBVIOUS
      <3>4. rules' = [rules EXCEPT ![h][a].blocked = yes]
        BY <3>2, <3>3, Zenon
      <3>5. Ruled(rules') /\ RulePut(rules, rules', h, a, "blocked", yes)
        BY <1>8, <3>4, BlockSet
      <3> QED
        BY <1>2, <1>3, <1>7, <2>1, <3>1, <3>3, <3>5, BlockStep
    <2>2. CASE /\ r.at \in Limit
               /\ rules' = [rules EXCEPT ![h][jobs[r.j].ip][r.at] = jobs[r.j][r.at]]
               /\ Moves(r, After(jobs[r.j], r.at)) /\ Marked(r, h, jobs[r.j].ip)
      <3>1. jobs[r.j].ip \in Address
        BY <1>7, <2>2 DEF ControlInv, UnderWay, Blocks, Limit
      <3> QED
        <4>1. PICK a \in Address, at \in Limit : a = jobs[r.j].ip /\ at = r.at
          BY <2>2, <3>1
        <4>4. PICK x : x = jobs[r.j][r.at]
          OBVIOUS
        <4>2. at \in Part /\ rules' = [rules EXCEPT ![h][a][at] = x]
          BY <2>2, <4>1, <4>4 DEF Part, Limit
        <4>3. Ruled(rules') /\ RulePut(rules, rules', h, a, at, x)
          BY <1>8, <4>2, PartSet
        <4> QED
          BY <1>2, <1>3, <1>7, <2>2, <4>1, <4>3, <4>4, LimitStep
    <2>3. CASE Moves(r, "refused") /\ UNCHANGED <<rules, late>>
      BY <1>4, <1>7, <2>3
    <2> QED
      BY <1>7, <2>1, <2>2, <2>3 DEF ServeRule, Limit
  <1> QED
    BY <1>2, <1>4, <1>5, <1>6, <1>7 DEF Serve, HostOf

LEMMA RemoveStep ==
  ASSUME ControlInv, NEW h \in Host, NEW a \in Address, Remove(h, a)
  PROVE  ControlInv'
  <1> USE DEF ControlInv
  <1>1. UNCHANGED <<verdict, cmd, policy, nodes, jobs, worker, wire, conf, late>>
    BY DEF Remove, policyVars
  <1>2. PICK no : no = FALSE
    OBVIOUS
  <1>3. /\ rules' = [rules EXCEPT ![h][a].blocked = no]
        /\ removed' = [removed EXCEPT ![h] = @ \cup {a}]
    BY <1>2, Zenon DEF Remove
  <1>4. Ruled(rules)
    BY DEF RulesType
  <1>5. Ruled(rules') /\ RulePut(rules, rules', h, a, "blocked", no)
    BY <1>3, <1>4, BlockSet
  <1>6. /\ removed' \in [Host -> SUBSET Address] /\ a \in removed'[h]
        /\ \A g \in Host : removed[g] \subseteq removed'[g]
    BY <1>3 DEF FleetType
  <1>7. ASSUME NEW g \in Host, NEW b \in Address, NEW k \in Limit
        PROVE  rules'[g][b][k] = rules[g][b][k]
    <2>1. k \in Part /\ k # "blocked"
      BY DEF Part, Limit
    <2> QED
      BY <1>5, <2>1, Zenon DEF RulePut
  <1>8. ASSUME NEW g \in Host, NEW b \in Address, rules[g][b].blocked, ~(g = h /\ b = a)
        PROVE  rules'[g][b].blocked
    <2>1. "blocked" \in Part
      BY DEF Part
    <2>2. rules'[g][b].blocked = IF g = h /\ b = a THEN no ELSE rules[g][b].blocked
      BY <1>5, <2>1, Zenon DEF RulePut
    <2> QED
      BY <1>8, <2>2, Zenon
  <1>9. ASSUME NEW g \in Host, NEW j \in DOMAIN jobs
        PROVE  (Blocks(g, j) => Blocks(g, j)') /\ (Sets(g, j) => Sets(g, j)')
    <2> DEFINE b == jobs[j].ip
    <2>1. ASSUME Blocks(g, j), jobs[j].do = "rule"
          PROVE  b \in Address /\ (rules'[g][b].blocked \/ b \in removed'[g])
      <3>1. b \in Address /\ (rules[g][b].blocked \/ b \in removed[g])
        BY <2>1 DEF Blocks
      <3> QED
        BY <1>6, <1>8, <3>1
    <2> QED
      BY <1>1, <2>1 DEF Blocks, Sets
  <1>10. \A v \in Worker, b \in Address, k \in Limit : Wrote(v, b, k)' = Wrote(v, b, k)
    BY <1>1 DEF Wrote, Asked, Waiting, Passed, At
  <1>11. LimitsSet'
    <2>1. \A g \in Host : late[g] \subseteq late'[g]
      BY <1>1
    <2> QED
      BY <1>1, <1>7, <1>10, <2>1, LimitsServed
  <1>12. FleetType'
    <2>1. Request' = Request /\ Goroutine' = Goroutine
      BY <1>1, Zenon DEF Request, Goroutine
    <2> QED
      BY <1>1, <1>6, <2>1 DEF FleetType, HostOf
  <1>13. \A r \in wire : /\ r.w \in DOMAIN nodes /\ r.j \in DOMAIN jobs
                         /\ HostOf(r.w) \in Host /\ HostOf(r.w)' = HostOf(r.w)
    BY <1>1 DEF FleetType, Request, HostOf
  <1>14. UnderWay'
    BY <1>1, <1>9, <1>13 DEF UnderWay
  <1>15. \A v \in Worker : HostOf(v) \in Host /\ HostOf(v)' = HostOf(v)
                           /\ (Clean(HostOf(v))' <=> Clean(HostOf(v)))
    BY <1>1 DEF FleetType, Worker, HostOf, Clean
  <1>16. Answered'
    BY <1>1, <1>9, <1>15 DEF Answered, Worker
  <1>17. RulesType' /\ ConfType'
    BY <1>1, <1>5 DEF RulesType, ConfType, Ruled, Daemons, Configured, Confs
  <1>18. NoneAhead' /\ DoneAll' /\ OneCommand' /\ OneSetting'
    BY <1>1 DEF NoneAhead, DoneAll, OneCommand, OneSetting, Waiting, At, Worker
  <1> QED
    BY <1>11, <1>12, <1>14, <1>16, <1>17, <1>18

\* A command starts from nothing: no node, no request, none answered.
LEMMA BeginStep ==
  ASSUME ControlInv, verdict # "used", NEW c, c # "none", NEW list, NEW work, NEW parallel,
         Begin(c, list, work, parallel), \A i \in DOMAIN list : list[i].host \in Host,
         Len(work) \in Nat, DOMAIN work = 1 .. Len(work),
         \A i, j \in DOMAIN work : work[i].do \in Settings /\ work[i].do = work[j].do =>
           work[i].cfg = work[j].cfg
  PROVE  ControlInv'
  <1>1. cmd = "none" /\ wire = {}
    BY DEF ControlInv, OneCommand
  <1>2. /\ cmd' = c /\ nodes' = list /\ jobs' = work /\ verdict' = "used" /\ wire' = {}
        /\ worker' = [i \in DOMAIN list |-> Idle]
        /\ UNCHANGED <<rules, conf, removed, late>>
    BY <1>1 DEF Begin
  <1>3. /\ Idle \in Goroutine /\ Idle.job = 1 /\ Idle.at = "queued"
    BY DEF Idle, Goroutine
  <1>4. Worker' = DOMAIN list /\ \A w \in Worker' : worker'[w] = Idle
    BY <1>2 DEF Worker
  <1>5. Goroutine' = Goroutine
    BY Zenon DEF Goroutine
  <1>6. FleetType'
    BY <1>2, <1>3, <1>5 DEF ControlInv, FleetType, HostOf
  <1>7. \A w \in Worker', j \in DOMAIN work : ~(j < worker'[w].job)
    BY <1>3, <1>4
  <1>8. OneCommand' /\ OneSetting' /\ NoneAhead' /\ UnderWay'
    BY <1>2 DEF OneCommand, OneSetting, NoneAhead, UnderWay
  <1>9. DoneAll'
    BY <1>3, <1>4 DEF DoneAll, At
  <1>10. Answered'
    BY <1>2, <1>7 DEF Answered
  <1>11. LimitsSet'
    <2>1. \A w \in Worker', b \in Address, k \in Limit : Wrote(w, b, k)' = {}
      BY <1>2, <1>7 DEF Wrote, Asked
    <2> QED
      BY <2>1 DEF LimitsSet
  <1>12. RulesType' /\ ConfType'
    BY <1>2 DEF ControlInv, RulesType, ConfType, Ruled, Daemons, Configured, Confs
  <1> QED
    BY <1>6, <1>8, <1>9, <1>10, <1>11, <1>12 DEF ControlInv

LEMMA PushStep ==
  ASSUME ControlInv, PolShape, FleetOK, Push
  PROVE  ControlInv'
  <1>1. PICK l \in NodeLists, p \in Parallel : Begin("push", l, PushJobs(pol), p)
    BY DEF Push
  <1>2. PICK B : pol.block \in Seq(B)
    BY DEF PolShape
  <1>3. PICK n \in Nat : DOMAIN pol.block = 1 .. n
    BY <1>2
  <1>4. Len(PushJobs(pol)) = n /\ DOMAIN PushJobs(pol) = 1 .. n
    BY <1>3 DEF PushJobs
  <1>5. \A i \in DOMAIN PushJobs(pol) : PushJobs(pol)[i].do = "rule"
    BY DEF PushJobs, RuleJob
  <1>6. \A i \in DOMAIN l : l[i].host \in Host
    BY DEF FleetOK
  <1>7. "push" # "none" /\ verdict # "used" /\ "rule" \notin Settings
    BY DEF Push, Settings
  <1> QED
    BY <1>1, <1>4, <1>5, <1>6, <1>7, BeginStep

LEMMA TwoMore ==
  ASSUME NEW n \in Nat, NEW T, NEW b \in [1 .. n -> T], NEW x \in T, NEW y \in T
  PROVE  /\ Len(b \o <<x, y>>) = n + 2 /\ DOMAIN (b \o <<x, y>>) = 1 .. n + 2
         /\ \A i \in 1 .. n : (b \o <<x, y>>)[i] = b[i]
         /\ (b \o <<x, y>>)[n + 1] = x /\ (b \o <<x, y>>)[n + 2] = y
  <1>1. b \in Seq(T) /\ Len(b) = n /\ DOMAIN b = 1 .. n
    OBVIOUS
  <1> DEFINE s == <<x, y>>
  <1>2. s \in Seq(T) /\ Len(s) = 2 /\ s[1] = x /\ s[2] = y
    OBVIOUS
  <1> HIDE DEF s
  <1>3. /\ b \o s \in Seq(T) /\ Len(b \o s) = n + 2
        /\ \A i \in 1 .. n + 2 : (b \o s)[i] = IF i <= n THEN b[i] ELSE s[i - n]
    <2>1. /\ b \o s \in Seq(T) /\ Len(b \o s) = Len(b) + Len(s)
          /\ \A i \in 1 .. Len(b) + Len(s) :
               (b \o s)[i] = IF i <= Len(b) THEN b[i] ELSE s[i - Len(b)]
      BY <1>1, <1>2, ConcatProperties
    <2> QED
      BY <1>1, <1>2, <2>1
  <1>4. DOMAIN (b \o s) = 1 .. n + 2
    BY <1>3
  <1>5. \A i \in 1 .. n : (b \o s)[i] = b[i]
    BY <1>3
  <1>6. (b \o s)[n + 1] = s[1] /\ (b \o s)[n + 2] = s[2]
    BY <1>3
  <1> QED
    BY <1>2, <1>3, <1>4, <1>5, <1>6 DEF s

LEMMA ApplyStep ==
  ASSUME ControlInv, PolShape, Apply
  PROVE  ControlInv'
  <1> DEFINE one(h) == <<[host |-> h, token |-> TokenOf[h]]>>
             x == [do |-> "syn_cookie", cfg |-> pol.syn_cookie]
             y == [do |-> "knock", cfg |-> pol.knock]
             block == [i \in DOMAIN pol.block |-> RuleJob(pol.block[i], 0)]
  <1>1. PICK h \in Host : Begin("apply", one(h), ApplyJobs(pol), 1)
    BY DEF Apply
  <1>2. PICK B : pol.block \in Seq(B)
    BY DEF PolShape
  <1>3. PICK n \in Nat : DOMAIN pol.block = 1 .. n
    BY <1>2
  <1>4. \A i \in 1 .. n : block[i].do = "rule"
    BY <1>3 DEF RuleJob
  <1>5. x.do = "syn_cookie" /\ y.do = "knock"
    OBVIOUS
  <1>6. ApplyJobs(pol) = block \o <<x, y>>
    BY DEF ApplyJobs
  <1>15. block = [i \in 1 .. n |-> block[i]]
    BY <1>3
  <1> HIDE DEF x, y, block
  <1> DEFINE T == {block[i] : i \in 1 .. n} \cup {x, y}
  <1>16. block \in [1 .. n -> T] /\ x \in T /\ y \in T
    BY <1>15
  <1> HIDE DEF T
  <1>7. /\ Len(ApplyJobs(pol)) = n + 2 /\ DOMAIN ApplyJobs(pol) = 1 .. n + 2
        /\ \A i \in 1 .. n : ApplyJobs(pol)[i] = block[i]
        /\ ApplyJobs(pol)[n + 1] = x /\ ApplyJobs(pol)[n + 2] = y
    BY <1>3, <1>6, <1>16, TwoMore
  <1>8. \A i \in 1 .. n : ApplyJobs(pol)[i].do = "rule"
    BY <1>4, <1>7
  <1>9. ApplyJobs(pol)[n + 1].do = "syn_cookie" /\ ApplyJobs(pol)[n + 2].do = "knock"
    BY <1>5, <1>7
  <1>10. ASSUME NEW i \in DOMAIN ApplyJobs(pol), NEW j \in DOMAIN ApplyJobs(pol),
                ApplyJobs(pol)[i].do \in Settings, ApplyJobs(pol)[i].do = ApplyJobs(pol)[j].do
         PROVE  i = j
    <2>1. i \in {n + 1, n + 2} /\ j \in {n + 1, n + 2}
      BY <1>7, <1>8, <1>10 DEF Settings
    <2> QED
      BY <1>9, <1>10, <2>1
  <1>11. \A i \in DOMAIN one(h) : one(h)[i].host \in Host
    OBVIOUS
  <1>12. "apply" # "none" /\ verdict # "used"
    BY DEF Apply
  <1>13. Len(ApplyJobs(pol)) \in Nat /\ DOMAIN ApplyJobs(pol) = 1 .. Len(ApplyJobs(pol))
    BY <1>7
  <1>14. \A i, j \in DOMAIN ApplyJobs(pol) :
           ApplyJobs(pol)[i].do \in Settings /\ ApplyJobs(pol)[i].do = ApplyJobs(pol)[j].do =>
             ApplyJobs(pol)[i].cfg = ApplyJobs(pol)[j].cfg
    BY <1>10
  <1> HIDE DEF one
  <1> QED
    BY <1>1, <1>11, <1>12, <1>13, <1>14, BeginStep

LEMMA StatusStep ==
  ASSUME ControlInv, FleetOK, Status
  PROVE  ControlInv'
  <1> DEFINE work == <<[do |-> "health"]>>
  <1>1. PICK l \in NodeLists, p \in Parallel : Begin("status", l, work, p)
    BY DEF Status
  <1>2. Len(work) \in Nat /\ DOMAIN work = 1 .. Len(work)
    OBVIOUS
  <1>3. \A i \in DOMAIN work : work[i].do \notin Settings
    BY DEF Settings
  <1>4. \A i \in DOMAIN l : l[i].host \in Host
    BY DEF FleetOK
  <1>5. "status" # "none" /\ verdict # "used"
    BY DEF Status
  <1> HIDE DEF work
  <1> QED
    BY <1>1, <1>2, <1>3, <1>4, <1>5, BeginStep

\* Only OneCommand looks at anything but the fleet.
LEMMA Quiet ==
  ASSUME ControlInv, OneCommand',
         UNCHANGED <<nodes, jobs, worker, wire, rules, conf, removed, late>>
  PROVE  ControlInv'
  <1> USE DEF ControlInv
  <1>1. RulesType' /\ ConfType'
    BY DEF RulesType, ConfType, Ruled, Daemons, Configured, Confs
  <1>2. FleetType'
    <2>1. Request' = Request /\ Goroutine' = Goroutine
      BY Zenon DEF Request, Goroutine
    <2> QED
      BY <2>1 DEF FleetType, HostOf
  <1>3. OneSetting' /\ NoneAhead' /\ DoneAll'
    BY DEF NoneAhead, DoneAll, OneSetting, Waiting, At, Worker
  <1>4. UnderWay'
    BY DEF UnderWay, Blocks, Sets, HostOf
  <1>5. Answered'
    BY DEF Answered, Blocks, Sets, HostOf, Worker, Clean
  <1>6. LimitsSet'
    <2>1. \A v \in Worker, b \in Address, k \in Limit : Wrote(v, b, k)' = Wrote(v, b, k)
      BY DEF Wrote, Asked, Waiting, Passed, At
    <2>2. Worker' = Worker
      BY DEF Worker
    <2> QED
      BY <2>1, <2>2, LimitsStay
  <1> QED
    BY <1>1, <1>2, <1>3, <1>4, <1>5, <1>6

LEMMA LoadStep ==
  ASSUME ControlInv, Load
  PROVE  ControlInv'
  <1>1. UNCHANGED <<cmd, policy, nodes, jobs, worker, wire, rules, conf, removed, late>>
    BY DEF Load, fleetVars
  <1>2. verdict = "reading"
    BY DEF Load, PolicyNext, EndOfFile, ReadLine
  <1>3. OneCommand'
    BY <1>1, <1>2 DEF ControlInv, OneCommand
  <1> QED
    BY <1>1, <1>3, Quiet

LEMMA FlushedShape ==
  ASSUME PolShape
  PROVE  (\E X : Flushed \in [DOMAIN Policy0 -> X]) /\ \E B : Flushed.block \in Seq(B)
  <1>1. PICK X : pol \in [DOMAIN Policy0 -> X]
    BY DEF PolShape
  <1>2. PICK B : pol.block \in Seq(B)
    BY DEF PolShape
  <1>3. "block" \in DOMAIN Policy0
    BY DEF Policy0
  <1>4. PICK one : one = open[1]
    OBVIOUS
  <1>5. CASE open = <<>>
    BY <1>1, <1>2, <1>5 DEF Flushed
  <1>6. CASE open # <<>> /\ sect = "block"
    <2>1. PICK list : list = Append(pol.block, one)
      OBVIOUS
    <2>2. list \in Seq(B \cup {one})
      <3>1. pol.block \in Seq(B \cup {one}) /\ one \in B \cup {one}
        BY <1>2
      <3> QED
        BY <2>1, <3>1
    <2>3. Flushed = [pol EXCEPT !["block"] = list]
      BY <1>4, <1>6, <2>1 DEF Flushed
    <2>4. Flushed \in [DOMAIN Policy0 -> X \cup {list}] /\ Flushed["block"] = list
      BY <1>1, <1>3, <2>3
    <2> QED
      BY <2>2, <2>4
  <1>7. CASE open # <<>> /\ sect # "block"
    <2>1. Flushed = [pol EXCEPT ![sect] = one]
      BY <1>4, <1>7 DEF Flushed
    <2>2. Flushed \in [DOMAIN Policy0 -> X \cup {one}] /\ Flushed["block"] = pol["block"]
      BY <1>1, <1>3, <1>7, <2>1
    <2> QED
      BY <1>2, <2>2
  <1> QED
    BY <1>5, <1>6, <1>7

LEMMA ShapeStep ==
  ASSUME PolShape, ControlNext
  PROVE  PolShape'
  <1>1. PICK X : Flushed \in [DOMAIN Policy0 -> X]
    BY FlushedShape
  <1>2. PICK B : Flushed.block \in Seq(B)
    BY FlushedShape
  <1>3. DOMAIN Policy0' = DOMAIN Policy0
    BY DEF Policy0
  <1>4. CASE pol' = Flushed
    BY <1>1, <1>2, <1>3, <1>4 DEF PolShape
  <1>5. CASE UNCHANGED pol
    BY <1>3, <1>5 DEF PolShape
  <1>6. CASE pol' = Policy0
    <2>1. Policy0 \in [DOMAIN Policy0 -> {Policy0[s] : s \in DOMAIN Policy0}]
      BY DEF Policy0
    <2>2. Policy0.block = <<>> /\ <<>> \in Seq({})
      BY DEF Policy0
    <2> QED
      BY <1>3, <1>6, <2>1, <2>2 DEF PolShape
  <1>7. ASSUME NEW n, pol' = [Flushed EXCEPT !["version"] = n]
        PROVE  PolShape'
    <2>1. pol' \in [DOMAIN Policy0 -> X \cup {n}] /\ pol'["block"] = Flushed["block"]
      BY <1>1, <1>7 DEF Policy0
    <2> QED
      BY <1>2, <1>3, <2>1 DEF PolShape
  <1>8. ASSUME NEW l \in Line, ReadLine(l)
        PROVE  PolShape'
    BY <1>4, <1>5, <1>7, <1>8 DEF ReadLine, Version, Header, Item, Field, Reject
  <1>9. CASE Load
    BY <1>4, <1>8, <1>9 DEF Load, PolicyNext, EndOfFile
  <1>10. CASE Push \/ Apply \/ Status
    BY <1>6, <1>10 DEF Push, Apply, Status, Begin
  <1>11. CASE \E w \in Worker : Launch(w) \/ Send(w) \/ Timeout(w) \/ Leave(w)
    BY <1>5, <1>11 DEF Launch, Send, Timeout, Leave, policyVars
  <1>12. CASE \E r \in wire : Answer(r) \/ Serve(r)
    BY <1>5, <1>12 DEF Answer, Serve, policyVars
  <1>13. CASE \E h \in Host, a \in Address : Remove(h, a)
    BY <1>5, <1>13 DEF Remove, policyVars
  <1> QED
    BY <1>9, <1>10, <1>11, <1>12, <1>13 DEF ControlNext, Client

LEMMA ControlStart ==
  ASSUME ControlInit
  PROVE  ControlInv /\ PolShape
  <1>1. /\ cmd = "none" /\ nodes = <<>> /\ jobs = <<>> /\ worker = <<>> /\ wire = {}
        /\ pol = Policy0
    BY DEF ControlInit, PolicyInit
  <1>2. Worker = {} /\ DOMAIN nodes = {} /\ DOMAIN jobs = {} /\ Len(jobs) = 0
    BY <1>1 DEF Worker
  <1>3. Ruled(rules)
    <2> DEFINE no == FALSE
               free == [blocked |-> no, pps |-> 0, kbps |-> 0]
    <2>1. rules = [h \in Host |-> [a \in Address |-> free]]
      BY DEF ControlInit
    <2> HIDE DEF no
    <2>2. free \in [Part -> {no, 0}]
      BY SMT DEF Part
    <2> HIDE DEF free
    <2>3. rules \in Daemons({no, 0})
      BY <2>1, <2>2 DEF Daemons
    <2> QED
      BY <2>3 DEF Ruled
  <1>4. Configured(conf)
    <2>1. conf \in Confs({Zero[s] : s \in Settings})
      BY DEF ControlInit, Confs
    <2> QED
      BY <2>1 DEF Configured
  <1>5. FleetType
    <2>1. /\ removed \in [Host -> SUBSET Address] /\ late \in [Host -> SUBSET Address]
      BY DEF ControlInit
    <2>2. worker \in [DOMAIN nodes -> Goroutine]
      BY <1>1, <1>2
    <2> QED
      BY <1>1, <1>2, <2>1, <2>2 DEF FleetType
  <1>6. PolShape
    <2>1. Policy0 \in [DOMAIN Policy0 -> {Policy0[s] : s \in DOMAIN Policy0}]
      BY DEF Policy0
    <2>2. Policy0.block = <<>> /\ <<>> \in Seq({})
      BY DEF Policy0
    <2> QED
      BY <1>1, <2>1, <2>2 DEF PolShape
  <1>7. OneCommand /\ OneSetting /\ NoneAhead /\ DoneAll /\ UnderWay /\ Answered /\ LimitsSet
    BY <1>1, <1>2 DEF OneCommand, OneSetting, NoneAhead, DoneAll, UnderWay, Answered, LimitsSet
  <1> QED
    BY <1>3, <1>4, <1>5, <1>6, <1>7 DEF ControlInv, RulesType, ConfType

LEMMA ControlStep ==
  ASSUME ControlInv, PolShape, FleetOK, [ControlNext]_controlVars
  PROVE  ControlInv' /\ PolShape'
  <1>1. Load => ControlInv'
    BY LoadStep
  <1>2. ASSUME Push \/ Apply \/ Status
        PROVE  ControlInv'
    BY <1>2, PushStep, ApplyStep, StatusStep
  <1>3. ASSUME NEW w \in Worker, Launch(w) \/ Send(w) \/ Timeout(w) \/ Leave(w)
        PROVE  ControlInv'
    BY <1>3, LaunchStep, SendStep, TimeoutStep, LeaveStep
  <1>4. ASSUME NEW r \in wire, Answer(r) \/ Serve(r)
        PROVE  ControlInv'
    BY <1>4, AnswerStep, ServeStep
  <1>5. ASSUME NEW h \in Host, NEW a \in Address, Remove(h, a)
        PROVE  ControlInv'
    BY <1>5, RemoveStep
  <1>6. CASE UNCHANGED controlVars
    <2>1. /\ UNCHANGED <<nodes, jobs, worker, wire, rules, conf, removed, late>>
          /\ UNCHANGED <<cmd, verdict, pol>>
      BY <1>6 DEF controlVars, fleetVars, policyVars
    <2>2. OneCommand'
      BY <2>1 DEF ControlInv, OneCommand
    <2>3. PolShape'
      BY <2>1 DEF PolShape, Policy0
    <2> QED
      BY <2>1, <2>2, <2>3, Quiet
  <1> QED
    BY <1>1, <1>2, <1>3, <1>4, <1>5, <1>6, ShapeStep DEF ControlNext, Client

\* At the report every request has been answered, so a host without an error
\* has all that was sent to it, and of a limit the newest one.
SentHonest ==
  Reported => \A h \in Host : Ticked(h) =>
    /\ \A j \in DOMAIN jobs : jobs[j].do = "rule" =>
         LET a == jobs[j].ip IN
         /\ rules[h][a].blocked \/ a \in removed[h]
         /\ \A k \in {"pps", "kbps"} : Asked(a, k) # {} =>
              rules[h][a][k] \in {jobs[i][k] : i \in
                IF a \in late[h] THEN Asked(a, k) ELSE {Max(Asked(a, k))}}
    /\ \A j \in DOMAIN jobs : jobs[j].do \in Settings =>
         conf[h][jobs[j].do] = jobs[j].cfg

LEMMA HonestAtTheEnd ==
  ASSUME ControlInv
  PROVE  SentHonest
  <1> USE DEF ControlInv
  <1> SUFFICES ASSUME Reported, NEW h \in Host, Ticked(h)
               PROVE  /\ \A j \in DOMAIN jobs : jobs[j].do = "rule" =>
                           LET a == jobs[j].ip IN
                           /\ rules[h][a].blocked \/ a \in removed[h]
                           /\ \A k \in {"pps", "kbps"} : Asked(a, k) # {} =>
                                rules[h][a][k] \in {jobs[i][k] : i \in
                                  IF a \in late[h] THEN Asked(a, k) ELSE {Max(Asked(a, k))}}
                      /\ \A j \in DOMAIN jobs : jobs[j].do \in Settings =>
                           conf[h][jobs[j].do] = jobs[j].cfg
    BY Zenon DEF SentHonest
  <1>1. PICK w \in Worker : HostOf(w) = h
    BY DEF Ticked, HostOf
  <1>2. Clean(h)
    BY DEF Ticked, HostOf, Clean
  <1>3. \A v \in Worker, j \in DOMAIN jobs : j < worker[v].job
    <2> SUFFICES ASSUME NEW v \in Worker, NEW j \in DOMAIN jobs PROVE j < worker[v].job
      OBVIOUS
    <2>1. worker[v].job > Len(jobs) /\ worker[v].job \in Nat /\ Len(jobs) \in Nat
      BY DEF Reported, DoneAll, FleetType, Goroutine, Worker
    <2>2. j \in 1 .. Len(jobs)
      BY DEF FleetType
    <2> QED
      BY <2>1, <2>2
  <1>4. \A j \in DOMAIN jobs : Blocks(h, j) /\ Sets(h, j)
    BY <1>1, <1>2, <1>3 DEF Answered
  <1>5. \A v \in Worker, a \in Address, k \in Limit : Wrote(v, a, k) = Asked(a, k)
    BY <1>3 DEF Wrote, Asked
  <1>6. ASSUME NEW j \in DOMAIN jobs, jobs[j].do = "rule", NEW a, a = jobs[j].ip,
               NEW k \in Limit, Asked(a, k) # {}
        PROVE  rules[h][a][k] \in {jobs[i][k] : i \in
                 IF a \in late[h] THEN Asked(a, k) ELSE {Max(Asked(a, k))}}
    <2>1. a \in Address
      BY <1>4, <1>6 DEF Blocks
    <2>2. LimitSet(h, a, k)
      BY <1>1, <1>2, <1>5, <1>6, <2>1 DEF LimitsSet
    <2>3. PICK i \in Asked(a, k) :
            /\ rules[h][a][k] = jobs[i][k]
            /\ a \notin late[h] => \A x \in Asked(a, k) : x <= i
      BY <1>5, <2>1, <2>2 DEF LimitSet
    <2>4. CASE a \in late[h]
      BY <2>3, <2>4
    <2>5. CASE a \notin late[h]
      <3>1. Asked(a, k) \subseteq Nat
        BY DEF Asked, FleetType
      <3>2. \A m \in Asked(a, k) : (\A x \in Asked(a, k) : x <= m) => m = i
        BY <2>3, <2>5, <3>1
      <3>3. Max(Asked(a, k)) = i
        BY <2>3, <2>5, <3>1, <3>2 DEF Max
      <3> QED
        BY <2>3, <2>5, <3>3
    <2> QED
      BY <2>4, <2>5
  <1>7. ASSUME NEW j \in DOMAIN jobs, jobs[j].do = "rule"
        PROVE  rules[h][jobs[j].ip].blocked \/ jobs[j].ip \in removed[h]
    BY <1>4, <1>7 DEF Blocks
  <1>8. \A j \in DOMAIN jobs : jobs[j].do \in Settings => conf[h][jobs[j].do] = jobs[j].cfg
    BY <1>4 DEF Sets
  <1> QED
    BY <1>6, <1>7, <1>8, Zenon DEF Limit

\* What was sent is what the policy says: its entries in their order, with the
\* limits the command carries, and after "policy apply" both settings.
Carried ==
  cmd \in {"push", "apply"} =>
    /\ \A i \in DOMAIN policy.block :
         /\ i \in DOMAIN jobs /\ jobs[i].do = "rule" /\ jobs[i].ip = policy.block[i].ip
         /\ \A k \in Carries : jobs[i][k] = LimitOf(policy.block[i], k)
    /\ \A j \in DOMAIN jobs : jobs[j].do = "rule" => j \in DOMAIN policy.block
    /\ cmd = "apply" => \A s \in Settings :
         \E j \in DOMAIN jobs : jobs[j].do = s /\ jobs[j].cfg = policy[s]

LEMMA RuleJobIs ==
  ASSUME NEW e, NEW kbps
  PROVE  /\ RuleJob(e, kbps).do = "rule" /\ RuleJob(e, kbps).ip = e.ip
         /\ RuleJob(e, kbps)["pps"] = LimitOf(e, "pps")
         /\ RuleJob(e, kbps)["kbps"] = kbps
  BY DEF RuleJob, LimitOf

LEMMA CarriedPush ==
  ASSUME PolShape, NEW l, NEW p, Begin("push", l, PushJobs(pol), p)
  PROVE  Carried'
  <1>1. /\ cmd' = "push" /\ jobs' = PushJobs(pol) /\ policy' = [s \in Said |-> pol[s]]
    BY DEF Begin
  <1>2. policy'.block = pol.block
    BY <1>1 DEF Said
  <1>3. DOMAIN PushJobs(pol) = DOMAIN pol.block
        /\ \A i \in DOMAIN pol.block :
             PushJobs(pol)[i] = RuleJob(pol.block[i], pol.block[i].rate_limit_kbps)
    BY DEF PushJobs
  <1>4. ASSUME NEW i \in DOMAIN pol.block
        PROVE  /\ PushJobs(pol)[i].do = "rule" /\ PushJobs(pol)[i].ip = pol.block[i].ip
               /\ \A k \in {"pps", "kbps"} :
                    PushJobs(pol)[i][k] = LimitOf(pol.block[i], k)
    <2>1. LimitOf(pol.block[i], "kbps") = pol.block[i].rate_limit_kbps
      BY DEF LimitOf
    <2> QED
      BY <1>3, <2>1, RuleJobIs
  <1>5. Carries' = {"pps", "kbps"}
    BY <1>1 DEF Carries
  <1> QED
    BY <1>1, <1>2, <1>3, <1>4, <1>5 DEF Carried

LEMMA CarriedApply ==
  ASSUME PolShape, NEW l, Begin("apply", l, ApplyJobs(pol), 1)
  PROVE  Carried'
  <1> DEFINE x == [do |-> "syn_cookie", cfg |-> pol.syn_cookie]
             y == [do |-> "knock", cfg |-> pol.knock]
             block == [i \in DOMAIN pol.block |-> RuleJob(pol.block[i], 0)]
  <1>1. cmd' = "apply" /\ jobs' = ApplyJobs(pol) /\ policy' = [s \in Said |-> pol[s]]
    BY DEF Begin
  <1>2. /\ policy'.block = pol.block
        /\ policy'["syn_cookie"] = pol.syn_cookie /\ policy'["knock"] = pol.knock
    BY <1>1 DEF Said, Settings
  <1>3. PICK n \in Nat : DOMAIN pol.block = 1 .. n
    <2>1. PICK B : pol.block \in Seq(B)
      BY DEF PolShape
    <2> QED
      BY <2>1
  <1>4. \A i \in 1 .. n : block[i] = RuleJob(pol.block[i], 0)
    BY <1>3
  <1>5. ApplyJobs(pol) = block \o <<x, y>>
    BY DEF ApplyJobs
  <1>6. block = [i \in 1 .. n |-> block[i]]
    BY <1>3
  <1>7. x.do = "syn_cookie" /\ x.cfg = pol.syn_cookie /\ y.do = "knock" /\ y.cfg = pol.knock
    OBVIOUS
  <1> HIDE DEF x, y, block
  <1> DEFINE T == {block[i] : i \in 1 .. n} \cup {x, y}
  <1>8. block \in [1 .. n -> T] /\ x \in T /\ y \in T
    BY <1>6
  <1> HIDE DEF T
  <1>9. /\ DOMAIN jobs' = 1 .. n + 2
        /\ \A i \in 1 .. n : jobs'[i] = block[i]
        /\ jobs'[n + 1] = x /\ jobs'[n + 2] = y
    <2>1. /\ DOMAIN (block \o <<x, y>>) = 1 .. n + 2
          /\ \A i \in 1 .. n : (block \o <<x, y>>)[i] = block[i]
          /\ (block \o <<x, y>>)[n + 1] = x /\ (block \o <<x, y>>)[n + 2] = y
      BY <1>8, TwoMore
    <2>2. jobs' = block \o <<x, y>>
      BY <1>1, <1>5
    <2> QED
      BY <2>1, <2>2
  <1>10. Carries' = {"pps"}
    BY <1>1 DEF Carries
  <1>11. ASSUME NEW i \in 1 .. n
         PROVE  /\ i \in DOMAIN jobs' /\ jobs'[i].do = "rule" /\ jobs'[i].ip = pol.block[i].ip
                /\ jobs'[i]["pps"] = LimitOf(pol.block[i], "pps")
    BY <1>4, <1>9, RuleJobIs
  <1>12. ASSUME NEW j \in 1 .. n + 2, jobs'[j].do = "rule"
         PROVE  j \in 1 .. n
    <2>1. j # n + 1 /\ j # n + 2
      BY <1>7, <1>9, <1>12
    <2> QED
      BY <2>1
  <1>13. \A s \in Settings : \E j \in 1 .. n + 2 : jobs'[j].do = s /\ jobs'[j].cfg = policy'[s]
    <2>1. n + 1 \in 1 .. n + 2 /\ n + 2 \in 1 .. n + 2
      OBVIOUS
    <2> QED
      BY <1>2, <1>7, <1>9, <2>1 DEF Settings
  <1> QED
    BY <1>1, <1>2, <1>3, <1>9, <1>10, <1>11, <1>12, <1>13 DEF Carried

LEMMA CarriedStep ==
  ASSUME Carried, PolShape, [ControlNext]_controlVars
  PROVE  Carried'
  <1>1. CASE UNCHANGED <<cmd, policy, jobs>>
    BY <1>1 DEF Carried, Carries
  <1>2. CASE Push
    BY <1>2, CarriedPush DEF Push
  <1>3. CASE Apply
    BY <1>3, CarriedApply DEF Apply
  <1>4. CASE Status
    BY <1>4 DEF Status, Begin, Carried
  <1>5. CASE Load
    BY <1>1, <1>5 DEF Load, fleetVars
  <1>6. CASE Client
    BY <1>1, <1>6 DEF Client, Launch, Send, Timeout, Leave, Answer
  <1>7. ASSUME NEW r \in wire, Serve(r) PROVE Carried'
    BY <1>1, <1>7 DEF Serve
  <1>8. ASSUME NEW h \in Host, NEW a \in Address, Remove(h, a) PROVE Carried'
    BY <1>1, <1>8 DEF Remove
  <1>9. CASE UNCHANGED controlVars
    BY <1>1, <1>9 DEF controlVars, fleetVars
  <1> QED
    BY <1>2, <1>3, <1>4, <1>5, <1>6, <1>7, <1>8, <1>9 DEF ControlNext

\* The requests that set a limit the command carries are the entries that name it.
LEMMA AsSent ==
  ASSUME FleetType, SentHonest, Carried
  PROVE  ReportHonest
  <1> SUFFICES ASSUME Reported, cmd \in {"push", "apply"}, NEW h \in Host, Ticked(h)
               PROVE  /\ \A i \in DOMAIN policy.block :
                           LET a == policy.block[i].ip IN
                           /\ rules[h][a].blocked \/ a \in removed[h]
                           /\ \A k \in Carries : Naming(a, k) # {} =>
                                rules[h][a][k] \in {LimitOf(policy.block[j], k) : j \in
                                  IF a \in late[h] THEN Naming(a, k) ELSE {Max(Naming(a, k))}}
                      /\ cmd = "apply" => \A s \in Settings : conf[h][s] = policy[s]
    BY Zenon DEF ReportHonest
  <1>1. Carries \subseteq {"pps", "kbps"}
    BY DEF Carries
  <1>2. ASSUME NEW a, NEW k \in Carries PROVE Naming(a, k) = Asked(a, k)
    BY <1>2 DEF Carried, Naming, Asked
  <1>3. ASSUME NEW a, NEW k \in Carries, NEW S, S \subseteq Asked(a, k)
        PROVE  {jobs[j][k] : j \in S} = {LimitOf(policy.block[j], k) : j \in S}
    BY <1>3 DEF Carried, Asked
  <1>4. ASSUME NEW i \in DOMAIN policy.block
        PROVE  /\ i \in DOMAIN jobs /\ jobs[i].do = "rule" /\ jobs[i].ip = policy.block[i].ip
    BY DEF Carried
  <1>5. ASSUME NEW i \in DOMAIN policy.block, NEW a, a = policy.block[i].ip
        PROVE  /\ rules[h][a].blocked \/ a \in removed[h]
               /\ \A k \in {"pps", "kbps"} : Asked(a, k) # {} =>
                    rules[h][a][k] \in {jobs[j][k] : j \in
                      IF a \in late[h] THEN Asked(a, k) ELSE {Max(Asked(a, k))}}
    <2>1. \A j \in DOMAIN jobs : jobs[j].do = "rule" =>
            LET b == jobs[j].ip IN
            /\ rules[h][b].blocked \/ b \in removed[h]
            /\ \A k \in {"pps", "kbps"} : Asked(b, k) # {} =>
                 rules[h][b][k] \in {jobs[m][k] : m \in
                   IF b \in late[h] THEN Asked(b, k) ELSE {Max(Asked(b, k))}}
      BY Zenon DEF SentHonest
    <2>2. i \in DOMAIN jobs /\ jobs[i].do = "rule" /\ jobs[i].ip = a
      BY <1>4, <1>5
    <2> QED
      BY <2>1, <2>2, Zenon
  <1>6. ASSUME NEW i \in DOMAIN policy.block, NEW a, a = policy.block[i].ip,
               NEW k \in Carries, Naming(a, k) # {}
        PROVE  rules[h][a][k] \in {LimitOf(policy.block[j], k) : j \in
                 IF a \in late[h] THEN Naming(a, k) ELSE {Max(Naming(a, k))}}
    <2>1. PICK S : S = IF a \in late[h] THEN Asked(a, k) ELSE {Max(Asked(a, k))}
      OBVIOUS
    <2>4. k \in {"pps", "kbps"} /\ Asked(a, k) # {}
      BY <1>1, <1>2, <1>6
    <2>2. rules[h][a][k] \in {jobs[j][k] : j \in S}
      BY <1>5, <1>6, <2>1, <2>4, Zenon
    <2>3. S \subseteq Asked(a, k)
      <3>1. Asked(a, k) \subseteq 0 .. Len(jobs) /\ Asked(a, k) # {} /\ Len(jobs) \in Nat
        BY <1>2, <1>6 DEF FleetType, Asked
      <3>2. Max(Asked(a, k)) \in Asked(a, k)
        BY <3>1, MaxExists
      <3> QED
        BY <2>1, <3>2
    <2> QED
      BY <1>2, <1>3, <2>1, <2>2, <2>3
  <1>7. ASSUME cmd = "apply", NEW s \in Settings PROVE conf[h][s] = policy[s]
    BY <1>7 DEF Carried, SentHonest
  <1> QED
    BY <1>5, <1>6, <1>7, Zenon

\* A node the report ticks has what the policy asks for, of what the command
\* carries, however many nodes there are, however often a request is tried and whatever is answered late or never.
THEOREM ReportCorrect == ControlSpec => []ReportHonest
  <1>1. ControlInit => ControlInv /\ PolShape
    BY ControlStart
  <1>2. ControlInv /\ PolShape /\ [ControlNext]_controlVars => ControlInv' /\ PolShape'
    BY ControlStep, FleetOK
  <1>4. ControlInit => Carried
    BY DEF ControlInit, Carried
  <1>5. Carried /\ PolShape /\ [ControlNext]_controlVars => Carried'
    BY CarriedStep
  <1>3. ControlInv /\ Carried => ReportHonest
    BY HonestAtTheEnd, AsSent DEF ControlInv
  <1> QED
    BY <1>1, <1>2, <1>3, <1>4, <1>5, PTL DEF ControlSpec

\* Whatever lines a file is made of, and however many: it is loaded only if each of
\* them can be read, and then the policy is what the file says as a whole.
THEOREM ReadCorrect == ControlSpec => []ParsedAsWritten
  <1>1. ControlInit => PolicyInv /\ PolShape
    BY FileStart, ControlStart DEF ControlInit
  <1>2. PolicyInv /\ PolShape /\ [ControlNext]_controlVars => PolicyInv' /\ PolShape'
    <2> SUFFICES ASSUME PolicyInv, PolShape, [ControlNext]_controlVars PROVE PolicyInv' /\ PolShape'
      OBVIOUS
    <2>1. CASE UNCHANGED controlVars
      BY <2>1, FileStep DEF controlVars, policyVars, PolShape
    <2>2. CASE ControlNext
      <3>1. PolicyNext \/ UNCHANGED policyVars \/ verdict' = "used"
        <4>1. CASE Load
          BY <4>1 DEF Load
        <4>2. CASE Push \/ Apply \/ Status
          BY <4>2 DEF Push, Apply, Status, Begin
        <4>3. CASE Client
          BY <4>3 DEF Client, Launch, Send, Timeout, Leave, Answer
        <4>4. CASE \E r \in wire : Serve(r)
          BY <4>4 DEF Serve
        <4>5. CASE \E h \in Host, a \in Address : Remove(h, a)
          BY <4>5 DEF Remove
        <4> QED
          BY <2>2, <4>1, <4>2, <4>3, <4>4, <4>5 DEF ControlNext
      <3> QED
        BY <2>2, <3>1, FileStep, ShapeStep
    <2> QED
      BY <2>1, <2>2
  <1>3. PolicyInv => ParsedAsWritten
    BY DEF PolicyInv
  <1> QED
    BY <1>1, <1>2, <1>3, PTL DEF ControlSpec
=============================================================================
