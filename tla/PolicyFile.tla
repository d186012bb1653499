----------------------------- MODULE PolicyFile -----------------------------
(***************************************************************************)
(* policy.Load: the reader of policy.yaml, one line a step, next to what   *)
(* the file says when it is read as a whole.                               *)
(*                                                                         *)
(* A line comes trimmed and without its comment; blank lines are left out. *)
(* A nil section and one with every field at zero mean the same to every   *)
(* reader of the policy, and are one value here.                           *)
(***************************************************************************)
EXTENDS Integers, Sequences, FiniteSetsExt

CONSTANTS
  Line,      \* the lines a file is made of
  Number,    \* scalar -> the number it spells, or -1
  Unquoted,  \* scalar -> the scalar without its quotes
  Max16,     \* 2^16 - 1 in the code
  Max32,     \* 2^32 - 1 in the code
  MaxPorts,  \* 8 in the code: KNOCK_MAX_SEQ
  MaxLines   \* bound on the lines of a file

VARIABLES
  file,     \* history: the lines read
  sect,     \* the section the reader is in, or "none"
  open,     \* the entry or section under construction: <<>> or <<fields>>
  pol,      \* the policy read so far
  verdict   \* "reading", "loaded" or "rejected"

policyVars == <<file, sect, open, pol, verdict>>

-----------------------------------------------------------------------------
(* What a field may hold.                                                  *)

Numeric == [rate_limit_pps |-> Max32, rate_limit_kbps |-> Max32,
            low_pps |-> Max32, high_pps |-> Max32,
            open_port |-> Max16, window_seconds |-> Max32,
            refresh_minutes |-> Max32, refresh_hours |-> Max32]
Optional == {"rate_limit_pps", "rate_limit_kbps"}
Names == {"blocked_domains", "blocked_countries"}

\* The fields of each section at their zero values.
Zero ==
  [none |-> <<>>,
   block |-> [ip |-> "", label |-> "", rate_limit_pps |-> 0, rate_limit_kbps |-> 0],
   syn_cookie |-> [low_pps |-> 0, high_pps |-> 0],
   knock |-> [sequence |-> <<>>, open_port |-> 0, window_seconds |-> 0],
   dns |-> [blocked_domains |-> <<>>, refresh_minutes |-> 0],
   geoip |-> [blocked_countries |-> <<>>, refresh_hours |-> 0]]
Sections == DOMAIN Zero \ {"none", "block"}

\* A line is a version, a section's header, the first field of a list entry
\* ("- key: value"), or a field.  A value is a scalar, or a bracketed list.
ASSUME LinesOK ==
  \A l \in Line :
    /\ l.is \in {"version", "header", "item", "field"}
    /\ l.is = "header" => l.key \in Sections \cup {"block"}
    /\ ~l.value.list => Len(l.value.of) = 1

Policy0 == [s \in Sections \cup {"version", "block"} |->
              IF s = "version" THEN 1 ELSE IF s = "block" THEN <<>> ELSE Zero[s]]

\* A scalar's text: a list where a scalar is due is text too, and no number.
Text(v) == IF v.list THEN "[]" ELSE Unquoted[v.of[1]]
NumberOf(v) == IF v.list THEN -1 ELSE Number[Unquoted[v.of[1]]]
InRange(n, max) == 0 <= n /\ n <= max

\* parseUint16List takes a port as it stands, parseStringList takes its quotes off.
PortOf(x) == Number[x]
IsList(v) == v.list \/ v.of = <<"">>
Elements(v) == IF v.list THEN v.of ELSE <<>>

\* setField, setSynCookieField, setKnockField, setDNSField, setGeoIPField:
\* whether the value is taken ...
Accepts(key, v) ==
  CASE key \in {"ip", "label"} -> TRUE
    [] key \in Optional -> Text(v) = "" \/ InRange(NumberOf(v), Numeric[key])
    [] key \in DOMAIN Numeric \ Optional -> InRange(NumberOf(v), Numeric[key])
    [] key = "sequence" ->
         IsList(v) /\ \A i \in DOMAIN Elements(v) : InRange(PortOf(Elements(v)[i]), Max16)
    [] key \in Names -> IsList(v)

\* ... and what becomes of the field.
Taken(key, v, old) ==
  CASE key \in {"ip", "label"} -> Text(v)
    [] key \in Optional /\ Text(v) = "" -> old
    [] key \in DOMAIN Numeric /\ ~(key \in Optional /\ Text(v) = "") -> NumberOf(v)
    [] key = "sequence" -> [i \in DOMAIN Elements(v) |-> PortOf(Elements(v)[i])]
    [] key \in Names ->
         LET bare == [i \in DOMAIN Elements(v) |-> Unquoted[Elements(v)[i]]]
         IN SelectSeq(bare, LAMBDA x : x # "")

SetField(fields, l) == [fields EXCEPT ![l.key] = Taken(l.key, l.value, @)]

-----------------------------------------------------------------------------
(* The reader.                                                             *)

PolicyInit ==
  /\ file = <<>> /\ sect = "none" /\ open = <<>>
  /\ pol = Policy0 /\ verdict = "reading"

\* Mutant: a header throws away the entry that is still under construction.
Flushed_Dropped ==
  IF open = <<>> \/ sect = "block" THEN pol ELSE [pol EXCEPT ![sect] = open[1]]

\* flush: what is under construction becomes part of the policy.
Flushed ==
  IF open = <<>> THEN pol
  ELSE IF sect = "block" THEN [pol EXCEPT !.block = Append(@, open[1])]
  ELSE [pol EXCEPT ![sect] = open[1]]

\* The version is a number without quotes.
VersionOf(v) == IF v.list THEN -1 ELSE Number[v.of[1]]

Reject == verdict' = "rejected" /\ UNCHANGED <<sect, open, pol>>

Version(l) ==
  /\ l.is = "version"
  /\ IF VersionOf(l.value) >= 0
     THEN /\ pol' = [Flushed EXCEPT !.version = VersionOf(l.value)]
          /\ sect' = "none" /\ open' = <<>>
          /\ UNCHANGED verdict
     ELSE Reject

Header(l) ==
  /\ l.is = "header"
  /\ pol' = Flushed /\ sect' = l.key
  /\ open' = IF l.key = "block" THEN <<>> ELSE <<Zero[l.key]>>
  /\ UNCHANGED verdict

\* A dash is part of the key everywhere but in the block list.
Known(l) == l.key \in DOMAIN Zero[sect] /\ Accepts(l.key, l.value)

Item(l) ==
  /\ l.is = "item"
  /\ IF sect # "block" \/ ~Known(l) THEN Reject
     ELSE /\ pol' = Flushed
          /\ open' = <<SetField(Zero["block"], l)>>
          /\ UNCHANGED <<sect, verdict>>

Field(l) ==
  /\ l.is = "field"
  /\ IF open = <<>> \/ ~Known(l) THEN Reject
     ELSE open' = <<SetField(open[1], l)>> /\ UNCHANGED <<sect, pol, verdict>>

ReadLine(l) ==
  /\ verdict = "reading" /\ Len(file) < MaxLines
  /\ file' = Append(file, l)
  /\ Version(l) \/ Header(l) \/ Item(l) \/ Field(l)

\* The checks of the whole, at the end of the file.
Sound(p) ==
  /\ \A i \in DOMAIN p.block : p.block[i].ip # ""
  /\ p.knock.sequence # <<>> =>
       Len(p.knock.sequence) <= MaxPorts /\ p.knock.open_port # 0
  /\ p.syn_cookie.high_pps # 0 => p.syn_cookie.high_pps >= p.syn_cookie.low_pps

EndOfFile ==
  /\ verdict = "reading"
  /\ pol' = Flushed /\ open' = <<>>
  /\ verdict' = IF Sound(Flushed) THEN "loaded" ELSE "rejected"
  /\ UNCHANGED <<file, sect>>

PolicyNext == EndOfFile \/ \E l \in Line : ReadLine(l)

-----------------------------------------------------------------------------
(* What a file says, read as a whole.                                      *)

Opens(i) == file[i].is \in {"version", "header"}

\* The line that opens the section of line i, 0 if there is none.
Opener(i) == Max({0} \cup {h \in 1 .. i : Opens(h)})
SectionOf(i) ==
  IF Opener(i) = 0 \/ file[Opener(i)].is = "version" THEN "none" ELSE file[Opener(i)].key

\* The line from which the entry or section that line i belongs to is built.
Root(i) ==
  Max({Opener(i)} \cup {h \in Opener(i) .. i : h > 0 /\ file[h].is = "item"})

LineSays(i) ==
  LET l == file[i]
      section == SectionOf(i)
  IN /\ l.is = "version" => VersionOf(l.value) >= 0
     /\ l.is \in {"item", "field"} =>
          /\ section # "none" /\ l.key \in DOMAIN Zero[section] /\ Accepts(l.key, l.value)
          /\ section = "block" <=> file[Root(i)].is = "item"

\* What the lines of the entry or section built from line r say: of a key the
\* last line that says something.
Says(r, k) ==
  {i \in DOMAIN file :
     /\ ~Opens(i) /\ Root(i) = r /\ file[i].key = k
     /\ ~(k \in Optional /\ Text(file[i].value) = "")}

Built(r, s) ==
  [k \in DOMAIN Zero[s] |->
     IF Says(r, k) = {} THEN Zero[s][k]
     ELSE Taken(k, file[Max(Says(r, k))].value, Zero[s][k])]

\* The entries of all block lists count, and the last section of a name does.
Items == {i \in DOMAIN file : file[i].is = "item"}
Rank(i) == Cardinality({h \in Items : h <= i})
Entry(j) == CHOOSE i \in Items : Rank(i) = j
LastHeader(s) == Max({0} \cup {h \in DOMAIN file : file[h].is = "header" /\ file[h].key = s})
LastVersion == Max({0} \cup {h \in DOMAIN file : file[h].is = "version"})

Meaning ==
  [s \in DOMAIN Policy0 |->
     CASE s = "version" ->
            IF LastVersion = 0 THEN 1 ELSE VersionOf(file[LastVersion].value)
       [] s = "block" -> [j \in 1 .. Cardinality(Items) |-> Built(Entry(j), "block")]
       [] OTHER -> IF LastHeader(s) = 0 THEN Zero[s] ELSE Built(LastHeader(s), s)]

WellFormed == (\A i \in DOMAIN file : LineSays(i)) /\ Sound(Meaning)

\* A file is loaded only if every line of it can be read, and then the policy
\* is what the file says as a whole: no entry, field or section is lost to the
\* one that follows it, taken twice, or filled from its neighbour.
ParsedAsWritten ==
  /\ verdict = "loaded" => WellFormed /\ pol = Meaning
  /\ verdict = "rejected" => ~WellFormed
=============================================================================
