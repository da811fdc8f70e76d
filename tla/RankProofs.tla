----------------------------- MODULE RankProofs -----------------------------
(***************************************************************************)
(* What the commands, the responses and time do to a rank: it stays one,   *)
(* every column command is answered once, and a command that may be issued *)
(* leaves the row it is meant to leave.                                    *)
(***************************************************************************)
EXTENDS Rank, TLAPS

\* Zenon proves a leaf that names no other prover.
USE Zenon

-----------------------------------------------------------------------------
\* The types of the rank

SubArrayRecords ==
  [state : {"CLOSED", "OPEN", "PRECHARGING", "REFRESHING"}, row : Nat,
   act : Nat, pre : Nat, rd : Nat, wr : Nat]

Events == [what : {"done", "implicit", "closed"}, bank : Banks, sub : SubArrays,
           id : Requests \cup {0}, left : Nat]

Devices ==
  [sub : [Banks -> [SubArrays -> SubArrayRecords]], open : [Banks -> SUBSET SubArrays],
   act : Nat, rd : Nat, wr : Nat, pre : Nat, raw : {r \in Seq(Nat) : Len(r) = RAW},
   events : SUBSET Events]

CommandRecords ==
  [type : CommandTypes, bank : Banks, sub : SubArrays, row : Nat,
   id : Requests \cup {0}, issued : BOOLEAN]

\* The constants, each by itself.
LEMMA Constants ==
  /\ BANKS \in Nat \ {0} /\ SubArrayNum \in Nat \ {0} /\ BanksPerRefresh \in Nat \ {0}
  /\ RAW \in Nat \ {0}
  /\ tRCD \in Nat /\ tRAS \in Nat /\ tBURST \in Nat /\ tCCD \in Nat /\ tWR \in Nat
  /\ tWTR \in Nat /\ tRTRS \in Nat /\ tPPD \in Nat /\ tRRDR \in Nat /\ tRAW \in Nat
  /\ tWP \in Nat
  /\ tRP \in Nat /\ tRP >= 2 /\ tRTP \in Nat /\ tRTP >= 2 /\ tCAS \in Nat /\ tCWD \in Nat
  /\ tRFC \in Nat
  /\ tCAS + tBURST + tRTRS >= tCWD /\ tBURST + tRTP >= tCCD
BY RankAssumption, SMT

\* Times stay natural numbers.
LEMMA Times ==
  /\ \A t, u \in Nat : Later(t, u) \in Nat /\ Later(t, u) >= t /\ Later(t, u) >= u
  /\ \A t \in Nat : Sooner(t) \in Nat
  /\ Burst \in Nat
  /\ tCAS + tBURST + tRTRS - tCWD \in Nat /\ tBURST + tRTP - tCCD \in Nat
  /\ tCAS + tBURST \in Nat /\ tCWD + tBURST + tWTR \in Nat /\ tCWD + tBURST + tWTR + tWP \in Nat
  /\ Burst + tWP \in Nat /\ tCWD + Burst + tWP \in Nat /\ Recovery \in Nat
  /\ \A t \in Nat : t + tRP \in Nat
BY Constants, SMT DEF Later, Sooner, Burst, Recovery

\* Each type of command has its own effect.
LEMMA IssueCases ==
  ASSUME NEW d, NEW c \in CommandRecords
  PROVE  /\ c.type = "ACTIVATE" => IssueCommand(d, c) = Activate(d, c)
         /\ c.type \in Reads => IssueCommand(d, c) = Read(d, c)
         /\ c.type \in Writes => IssueCommand(d, c) = Write(d, c)
         /\ c.type \in Precharges => IssueCommand(d, c) = Precharge(d, c)
         /\ c.type = "REFRESH" => IssueCommand(d, c) = Refresh(d, c)
         /\ \/ c.type = "ACTIVATE" \/ c.type \in Reads \/ c.type \in Writes
            \/ c.type \in Precharges \/ c.type = "REFRESH"
BY DEF IssueCommand, Reads, Writes, Precharges, CommandRecords, CommandTypes

\* A rank stays one: when it issues a command, when an EventResponse reaches it, and a cycle later.
\* The cycles left for a command are a natural number.
LEMMA RankTypes ==
  /\ InitDevice \in Devices
  /\ \A d \in Devices :
       /\ \A c \in CommandRecords : IssueCommand(d, c) \in Devices /\ NextIssuable(d, c) \in Nat
       /\ \A e \in d.events : RequestComplete(d, e) \in Devices
       /\ Tick(d) \in Devices
\* Of the last activations, the oldest is dropped and the new one appended.
<1>RawShifts.
    ASSUME NEW r \in Seq(Nat), Len(r) = RAW
    PROVE  /\ Head(r) \in Nat
           /\ Append(Tail(r), tRAW) \in Seq(Nat) /\ Len(Append(Tail(r), tRAW)) = RAW
  <2> USE <1>RawShifts
  <2>1. RAW \in Nat /\ RAW # 0 /\ tRAW \in Nat /\ r # <<>>
    BY Constants
  <2>2. Tail(r) \in Seq(Nat) /\ Len(Tail(r)) = RAW - 1
    BY <2>1, SMT
  <2> QED BY <2>1, <2>2, SMT

\* What the commands make of a subarray is a subarray.
<1>SubArrayTypes.
    ASSUME NEW s \in SubArrayRecords
    PROVE  /\ \A row \in Nat : OpenRow(s, row) \in SubArrayRecords
           /\ ReadRow(s) \in SubArrayRecords /\ WriteRow(s) \in SubArrayRecords
           /\ \A t \in Nat : CloseAfter(s, t) \in SubArrayRecords
           /\ \A x \in {"PRECHARGING", "REFRESHING"}, t \in Nat : Occupy(s, x, t) \in SubArrayRecords
           /\ StartClosing(s) \in SubArrayRecords /\ CloseRow(s) \in SubArrayRecords
           /\ TickSub(s) \in SubArrayRecords
  <2>1. /\ s.act \in Nat /\ s.pre \in Nat /\ s.rd \in Nat /\ s.wr \in Nat
    BY DEF SubArrayRecords
  <2>2. \A row \in Nat : OpenRow(s, row) \in SubArrayRecords
    BY <2>1, Times, Constants DEF OpenRow, SubArrayRecords
  <2>3. ReadRow(s) \in SubArrayRecords
    BY <2>1, Times, Constants DEF ReadRow, SubArrayRecords
  <2>4. WriteRow(s) \in SubArrayRecords
    BY <2>1, Times, Constants DEF WriteRow, SubArrayRecords
  <2>5. \A t \in Nat : CloseAfter(s, t) \in SubArrayRecords
    BY <2>1, Times, Constants DEF CloseAfter, SubArrayRecords
  <2>6. \A x \in {"PRECHARGING", "REFRESHING"}, t \in Nat : Occupy(s, x, t) \in SubArrayRecords
    BY <2>1, Times, Constants DEF Occupy, SubArrayRecords
  <2>7. StartClosing(s) \in SubArrayRecords /\ CloseRow(s) \in SubArrayRecords
    BY <2>1, Times, Constants DEF StartClosing, CloseRow, SubArrayRecords
  <2>8. TickSub(s) \in SubArrayRecords
    BY <2>1, Times, Constants DEF TickSub, SubArrayRecords
  <2> QED BY <2>2, <2>3, <2>4, <2>5, <2>6, <2>7, <2>8

\* What a read or a write adds to the events are events.
<1>ResponsesType.
    ASSUME NEW c \in CommandRecords, NEW done \in Nat, NEW implicit \in BOOLEAN, NEW close \in Nat
    PROVE  Responses(c, done, implicit, close) \in SUBSET Events
  <2>1. c.bank \in Banks /\ c.sub \in SubArrays /\ c.id \in Requests \cup {0}
    BY DEF CommandRecords
  <2> QED BY <2>1, SMT DEF Responses, Event, Events

\* A rank that issues a command stays one.
<1>IssueType.
    ASSUME NEW d \in Devices, NEW c \in CommandRecords
    PROVE  IssueCommand(d, c) \in Devices
  <2> DEFINE b == c.bank
             s == c.sub
  <2>1. /\ d.raw \in Seq(Nat) /\ Len(d.raw) = RAW
        /\ d.act \in Nat /\ d.rd \in Nat /\ d.wr \in Nat /\ d.pre \in Nat
        /\ b \in Banks /\ s \in SubArrays /\ c.row \in Nat
        /\ d.sub[b] \in [SubArrays -> SubArrayRecords] /\ d.sub[b][s] \in SubArrayRecords
        /\ d.open[b] \in SUBSET SubArrays /\ d.events \in SUBSET Events
    BY SMT DEF Devices, CommandRecords
  <2>2. Append(Tail(d.raw), tRAW) \in {r \in Seq(Nat) : Len(r) = RAW}
    BY <2>1, <1>RawShifts
  <2>3. CASE c.type = "ACTIVATE"
    <3>1. OpenRow(d.sub[b][s], c.row) \in SubArrayRecords /\ Later(d.act, tRRDR) \in Nat
      BY <2>1, <1>SubArrayTypes, Times, Constants
    <3>2. Activate(d, c) \in Devices
      BY <2>1, <2>2, <3>1, ZenonT(30) DEF Activate, Devices
    <3> QED BY <2>3, <3>2, IssueCases
  <2>4. CASE c.type \in Reads
    <3> DEFINE implicit == c.type = "READ_PRECHARGE"
    <3>1. /\ CloseAfter(d.sub[b][s], tRTP) \in SubArrayRecords /\ ReadRow(d.sub[b][s]) \in SubArrayRecords
          /\ Later(d.rd, Burst) \in Nat /\ Later(d.wr, tCAS + tBURST + tRTRS - tCWD) \in Nat
      BY <2>1, <1>SubArrayTypes, Times, Constants
    <3>2. Responses(c, tCAS + tBURST, implicit, tRTP) \in SUBSET Events
      BY <1>ResponsesType, Times, Constants
    <3>3. Read(d, c) \in Devices
      BY <2>1, <3>1, <3>2, ZenonT(30) DEF Read, Devices
    <3> QED BY <2>4, <3>3, IssueCases
  <2>5. CASE c.type \in Writes
    <3> DEFINE implicit == c.type = "WRITE_PRECHARGE"
    <3>1. /\ CloseAfter(d.sub[b][s], Recovery) \in SubArrayRecords /\ WriteRow(d.sub[b][s]) \in SubArrayRecords
          /\ Later(d.rd, tCWD + tBURST + tWTR) \in Nat /\ Later(d.wr, Burst) \in Nat
      BY <2>1, <1>SubArrayTypes, Times, Constants
    <3>2. Responses(c, tCWD + Burst + tWP, implicit, Recovery) \in SUBSET Events
      BY <1>ResponsesType, Times, Constants
    <3>3. Write(d, c) \in Devices
      BY <2>1, <3>1, <3>2, ZenonT(30) DEF Write, Devices
    <3> QED BY <2>5, <3>3, IssueCases
  <2>6. CASE c.type \in Precharges
    <3> DEFINE closing == IF c.type = "PRECHARGE" THEN {s} ELSE d.open[b]
    <3>1. closing \in SUBSET SubArrays
      BY <2>1
    <3>2. \A u \in SubArrays : Occupy(d.sub[b][u], "PRECHARGING", tRP) \in SubArrayRecords
      BY <2>1, <1>SubArrayTypes, Constants
    <3>3. {Event("closed", b, u, 0, tRP) : u \in closing} \in SUBSET Events
      BY <2>1, <3>1, Constants, SMTT(30) DEF Event, Events
    <3>4. Later(d.pre, tPPD) \in Nat
      BY <2>1, Times, Constants
    <3>5. Precharge(d, c) \in Devices
      BY <2>1, <3>1, <3>2, <3>3, <3>4, ZenonT(30) DEF Precharge, Devices
    <3> QED BY <2>6, <3>5, IssueCases
  <2>7. CASE c.type = "REFRESH"
    <3>1. 0 \in SubArrays
      BY Constants, SMT DEF SubArrays
    <3>2. \A a \in Banks : /\ Occupy(d.sub[a][0], "REFRESHING", tRFC) \in SubArrayRecords
                           /\ d.sub[a] \in [SubArrays -> SubArrayRecords]
      BY <3>1, <1>SubArrayTypes, Constants DEF Devices
    <3>3. {Event("closed", a, 0, 0, tRFC) : a \in Group(b)} \in SUBSET Events
      BY <3>1, Constants, SMT DEF Event, Events, Group
    <3>4. Later(d.act, tRRDR) \in Nat
      BY <2>1, Times, Constants
    <3>a. \A a \in Banks : RefreshFirst(d.sub[a]) \in [SubArrays -> SubArrayRecords]
      BY <3>1, <3>2 DEF RefreshFirst
    <3>5. Refresh(d, c) \in Devices
      BY <2>1, <2>2, <3>a, <3>2, <3>3, <3>4 DEF Refresh, Devices
    <3> QED BY <2>7, <3>5, IssueCases
  <2> QED BY <2>3, <2>4, <2>5, <2>6, <2>7, IssueCases

\* So does one that an EventResponse reaches, and one a cycle later.
<1>CompleteType.
    ASSUME NEW d \in Devices, NEW e \in d.events
    PROVE  RequestComplete(d, e) \in Devices
  <2>1. /\ e \in Events /\ e.bank \in Banks /\ e.sub \in SubArrays
        /\ d.sub[e.bank][e.sub] \in SubArrayRecords
        /\ Event("closed", e.bank, e.sub, 0, tRP) \in Events
    BY Constants, SMTT(30) DEF Devices, Events, Event
  <2>2. /\ StartClosing(d.sub[e.bank][e.sub]) \in SubArrayRecords
        /\ CloseRow(d.sub[e.bank][e.sub]) \in SubArrayRecords
    BY <2>1, <1>SubArrayTypes
  <2>3. CASE e.what = "done"
    <3>1. [d EXCEPT !.events = @ \ {e}] \in Devices
      BY DEF Devices
    <3> QED BY <2>3, <3>1 DEF RequestComplete
  <2>4. CASE e.what = "implicit"
    <3>1. [d EXCEPT !.sub[e.bank][e.sub] = StartClosing(@),
                    !.events = (@ \ {e}) \cup {Event("closed", e.bank, e.sub, 0, tRP)}] \in Devices
      BY <2>1, <2>2 DEF Devices
    <3> QED BY <2>4, <3>1 DEF RequestComplete
  <2>5. CASE e.what = "closed"
    <3>1. [d EXCEPT !.sub[e.bank][e.sub] = CloseRow(@), !.events = @ \ {e}] \in Devices
      BY <2>1, <2>2 DEF Devices
    <3> QED BY <2>5, <3>1 DEF RequestComplete
  <2> QED BY <2>1, <2>3, <2>4, <2>5 DEF Events

\* A cycle that passes leaves a device: every countdown is a cycle shorter, or over.
<1>TickType.
    ASSUME NEW d \in Devices
    PROVE  Tick(d) \in Devices
  <2>1. \A b \in Banks : \A s \in SubArrays : TickSub(d.sub[b][s]) \in SubArrayRecords
    BY <1>SubArrayTypes DEF Devices
  <2>2. \A e \in d.events : TickEvent(e) \in Events
    <3> SUFFICES ASSUME NEW e \in Events PROVE TickEvent(e) \in Events
      BY DEF Devices
    <3>1. Sooner(e.left) \in Nat
      BY Times DEF Events
    <3> QED BY <3>1 DEF TickEvent, Events
  <2>3. [i \in 1..RAW |-> Sooner(d.raw[i])] \in {r \in Seq(Nat) : Len(r) = RAW}
    <3>1. d.raw \in Seq(Nat) /\ Len(d.raw) = RAW /\ RAW \in Nat
      BY Constants DEF Devices
    <3>a. \A i \in 1..RAW : d.raw[i] \in Nat
      BY <3>1, SMT
    <3>2. \A i \in 1..RAW : Sooner(d.raw[i]) \in Nat
      BY <3>a, Times
    <3> QED BY <3>1, <3>2, SMT
  <2>4. Sooner(d.act) \in Nat /\ Sooner(d.rd) \in Nat /\ Sooner(d.wr) \in Nat /\ Sooner(d.pre) \in Nat
    BY Times DEF Devices
  <2> QED BY <2>1, <2>2, <2>3, <2>4, ZenonT(30) DEF Tick, Devices

\* The rank starts as one.
<1>InitType.
    InitDevice \in Devices
  <2>1. [i \in 1..RAW |-> tRAW] \in {r \in Seq(Nat) : Len(r) = RAW}
    BY Constants, SMT
  <2> QED BY <2>1 DEF InitDevice, Devices, SubArrayRecords

\* The cycles left for a command are a natural number.
<1>NextIssuableType.
    ASSUME NEW d \in Devices, NEW c \in CommandRecords
    PROVE  NextIssuable(d, c) \in Nat
  <2>1. /\ c.bank \in Banks /\ c.sub \in SubArrays
        /\ d.raw \in Seq(Nat) /\ Len(d.raw) = RAW
        /\ d.act \in Nat /\ d.rd \in Nat /\ d.wr \in Nat /\ d.pre \in Nat
        /\ c.type \in CommandTypes
    BY DEF Devices, CommandRecords
  <2>2. d.sub[c.bank][c.sub] \in SubArrayRecords
    BY <2>1 DEF Devices
  <2>3. /\ Head(d.raw) \in Nat
        /\ d.sub[c.bank][c.sub].act \in Nat /\ d.sub[c.bank][c.sub].rd \in Nat
        /\ d.sub[c.bank][c.sub].wr \in Nat /\ d.sub[c.bank][c.sub].pre \in Nat
    BY <2>1, <2>2, <1>RawShifts DEF SubArrayRecords
  <2> QED BY <2>1, <2>3, Times DEF NextIssuable, CommandTypes, Reads, Writes, Precharges

<1> QED BY <1>IssueType, <1>CompleteType, <1>TickType, <1>InitType, <1>NextIssuableType

-----------------------------------------------------------------------------
\* The requests the banks are working on

Columns == Reads \cup Writes
Doing(d, r) == \E e \in d.events : e.what = "done" /\ e.id = r

\* Only the column commands send something up that is done.
LEMMA IssueDone ==
  ASSUME NEW d \in Devices, NEW c \in CommandRecords
  PROVE  \A r : Doing(IssueCommand(d, c), r) <=> Doing(d, r) \/ (c.type \in Columns /\ r = c.id)
<1> DEFINE new == IssueCommand(d, c).events
<1>1. \A b, s, id, left : /\ Event("done", b, s, id, left).what = "done"
                          /\ Event("done", b, s, id, left).id = id
                          /\ Event("implicit", b, s, id, left).what # "done"
                          /\ Event("closed", b, s, id, left).what # "done"
  BY DEF Event
<1>2. CASE c.type \in Columns
  <2>1. PICK done, close : \E implicit \in BOOLEAN : new = d.events \cup Responses(c, done, implicit, close)
    <3>1. CASE c.type \in Reads
      <4>1. Read(d, c).events = d.events \cup Responses(c, tCAS + tBURST, c.type = "READ_PRECHARGE", tRTP)
        BY DEF Read, Devices
      <4>2. new = Read(d, c).events
        BY <3>1, IssueCases
      <4> HIDE DEF new
      <4> QED BY <4>1, <4>2
    <3>2. CASE c.type \in Writes
      <4>1. Write(d, c).events
              = d.events \cup Responses(c, tCWD + Burst + tWP, c.type = "WRITE_PRECHARGE", Recovery)
        BY DEF Write, Devices
      <4>2. new = Write(d, c).events
        BY <3>2, IssueCases
      <4> HIDE DEF new
      <4> QED BY <4>1, <4>2
    <3> QED BY <1>2, <3>1, <3>2 DEF Columns
  <2>2. \A e \in new : e \in d.events \/ e = Event("done", c.bank, c.sub, c.id, done)
                       \/ e = Event("implicit", c.bank, c.sub, c.id, close)
    BY <2>1 DEF Responses
  <2>3. d.events \subseteq new /\ Event("done", c.bank, c.sub, c.id, done) \in new
    BY <2>1 DEF Responses
  <2> HIDE DEF new
  <2>4. \A r : (\E e \in new : e.what = "done" /\ e.id = r)
                 <=> (\E e \in d.events : e.what = "done" /\ e.id = r) \/ r = c.id
    BY <1>1, <2>2, <2>3, SMT
  <2> QED BY <1>2, <2>4 DEF Doing, new
<1>3. CASE c.type \notin Columns
  <2>1. d.events \subseteq new /\ \A e \in new : e \in d.events \/ e.what # "done"
    <3>1. CASE c.type = "ACTIVATE"
      <4>1. Activate(d, c).events = d.events
        BY DEF Activate, Devices
      <4>2. new = Activate(d, c).events
        BY <3>1, IssueCases
      <4> HIDE DEF new
      <4> QED BY <4>1, <4>2
    <3>2. CASE c.type \in Precharges
      <4>1. PICK closing : Precharge(d, c).events
                             = d.events \cup {Event("closed", c.bank, u, 0, tRP) : u \in closing}
        BY DEF Precharge, Devices
      <4>2. new = Precharge(d, c).events
        BY <3>2, IssueCases
      <4> HIDE DEF new
      <4> QED BY <1>1, <4>1, <4>2, SMT
    <3>3. CASE c.type = "REFRESH"
      <4>1. Refresh(d, c).events = d.events \cup {Event("closed", b, 0, 0, tRFC) : b \in Group(c.bank)}
        BY DEF Refresh, Devices
      <4>2. new = Refresh(d, c).events
        BY <3>3, IssueCases
      <4> HIDE DEF new
      <4> QED BY <1>1, <4>1, <4>2, SMT
    <3> QED BY <1>3, <3>1, <3>2, <3>3, IssueCases DEF Columns
  <2> HIDE DEF new
  <2> QED BY <1>3, <2>1 DEF Doing, new
<1> QED BY <1>2, <1>3

\* The request of a response that is due is the only one that leaves the banks.
LEMMA ResponseDone ==
  ASSUME NEW d \in Devices, NEW e \in d.events
  PROVE  \A r : /\ Doing(RequestComplete(d, e), r) => Doing(d, r)
                /\ Doing(d, r) => Doing(RequestComplete(d, e), r) \/ (e.what = "done" /\ e.id = r)
<1> DEFINE new == RequestComplete(d, e).events
<1>1. e \in Events
  BY DEF Devices
<1>2. e.what \in {"done", "implicit", "closed"}
  BY <1>1 DEF Events
<1>3. Event("closed", e.bank, e.sub, 0, tRP).what = "closed"
  BY DEF Event
<1>4. \/ e.what = "done" /\ new = d.events \ {e}
      \/ e.what = "closed" /\ new = d.events \ {e}
      \/ e.what = "implicit" /\ new = (d.events \ {e}) \cup {Event("closed", e.bank, e.sub, 0, tRP)}
  <2>1. CASE e.what = "done"
    BY <2>1 DEF RequestComplete, Devices
  <2>2. CASE e.what = "implicit"
    BY <2>2 DEF RequestComplete, Devices
  <2>3. CASE e.what = "closed"
    BY <2>3 DEF RequestComplete, Devices
  <2> QED BY <1>2, <2>1, <2>2, <2>3
<1> HIDE DEF new
<1>5. \A f \in new : f.what = "done" => f \in d.events
  BY <1>3, <1>4
<1>6. \A f \in d.events : f.what = "done" => f \in new \/ (f = e /\ e.what = "done")
  BY <1>4
<1> QED BY <1>5, <1>6 DEF Doing, new

\* Time takes no request away.
LEMMA TickDone ==
  ASSUME NEW d \in Devices
  PROVE  \A r : Doing(Tick(d), r) <=> Doing(d, r)
<1>1. \A e \in d.events : TickEvent(e).what = e.what /\ TickEvent(e).id = e.id
  BY DEF TickEvent, Devices, Events
<1>2. Tick(d).events = {TickEvent(e) : e \in d.events}
  BY DEF Tick
<1> QED BY <1>1, <1>2, SMT DEF Doing

-----------------------------------------------------------------------------
\* The rows of the rank

\* The row that is open in a subarray, or none.
RowOf(d, b, s) == IF s \in d.open[b] THEN d.sub[b][s].row ELSE NoRow

\* The events that will close a subarray.
Closers(d, b, s) == {e \in d.events : e.what # "done" /\ e.bank = b /\ e.sub = s}

\* A subarray with an open row is not about to close, and one that is about to close waits for
\* one event only; until an implicit precharge starts its times keep every command away.
SoundAt(d, b, s) ==
  LET r == d.sub[b][s] IN
  /\ s \in d.open[b] => r.state = "OPEN" /\ Closers(d, b, s) = {}
  /\ \A e \in Closers(d, b, s) :
       /\ e.what = "closed" => r.state \in {"PRECHARGING", "REFRESHING"}
       /\ e.what = "implicit" => /\ r.state = "OPEN" /\ r.pre >= e.left + tRP
                                 /\ r.rd >= e.left + tRP /\ r.wr >= e.left + tRP
       /\ Closers(d, b, s) = {e}

Sound(d) == \A b \in Banks : \A s \in SubArrays : SoundAt(d, b, s)

\* A command that opens or closes the row of subarray s of bank b, and the row it leaves.
Touches(c, b, s) ==
  /\ c.bank = b
  /\ \/ c.type = "PRECHARGE_ALL"
     \/ c.sub = s /\ c.type \in {"ACTIVATE", "PRECHARGE", "READ_PRECHARGE", "WRITE_PRECHARGE"}

LeftBy(c) == IF c.type = "ACTIVATE" THEN c.row ELSE NoRow

\* What issuing command c makes of the row of subarray s of bank b.
Leads(d, n, c, b, s) ==
  SoundAt(n, b, s) /\ RowOf(n, b, s) = IF Touches(c, b, s) THEN LeftBy(c) ELSE RowOf(d, b, s)

\* The rows of a rank stay sound.  A command that may be issued leaves in the subarrays it touches the
\* row it is meant to leave, and every other row stays; neither a response nor time changes a row.
LEMMA RankRows ==
  /\ Sound(InitDevice) /\ \A b \in Banks : \A s \in SubArrays : RowOf(InitDevice, b, s) = NoRow
  /\ \A d \in Devices : Sound(d) =>
       /\ \A c \in CommandRecords : IsIssuable(d, c) =>
            /\ Sound(IssueCommand(d, c))
            /\ \A b \in Banks : \A s \in SubArrays :
                 RowOf(IssueCommand(d, c), b, s) = IF Touches(c, b, s) THEN LeftBy(c) ELSE RowOf(d, b, s)
       /\ \A e \in d.events :
            /\ Sound(RequestComplete(d, e))
            /\ \A b \in Banks : \A s \in SubArrays : RowOf(RequestComplete(d, e), b, s) = RowOf(d, b, s)
       /\ (\A e \in d.events : e.left # 0) =>
            /\ Sound(Tick(d))
            /\ \A b \in Banks : \A s \in SubArrays : RowOf(Tick(d), b, s) = RowOf(d, b, s)
\* Nothing is about to close a subarray that a command can go to.
<1>NoCloser.
    ASSUME NEW d \in Devices, NEW b \in Banks, NEW s \in SubArrays, SoundAt(d, b, s),
           LET r == d.sub[b][s]
           IN \/ r.state = "CLOSED" \/ s \in d.open[b]
              \/ r.state \in {"OPEN", "CLOSED"} /\ (r.pre = 0 \/ r.rd = 0 \/ r.wr = 0)
    PROVE  Closers(d, b, s) = {}
  <2> USE <1>NoCloser
  <2> SUFFICES ASSUME NEW e \in Closers(d, b, s) PROVE FALSE
    OBVIOUS
  <2>1. e \in Events /\ e.what # "done"
    BY DEF Closers, Devices
  <2>2. e.what \in {"implicit", "closed"} /\ e.left \in Nat /\ tRP \in Nat \ {0}
    BY <2>1, Constants, SMT DEF Events
  <2>3. d.sub[b][s] \in SubArrayRecords
    BY DEF Devices
  <2>4. /\ d.sub[b][s].pre \in Nat /\ d.sub[b][s].rd \in Nat /\ d.sub[b][s].wr \in Nat
    BY <2>3 DEF SubArrayRecords
  <2>5. CASE e.what = "closed"
    BY <2>5 DEF SoundAt
  <2>6. CASE e.what = "implicit"
    BY <2>2, <2>4, <2>6, SMT DEF SoundAt
  <2> QED BY <2>2, <2>5, <2>6

\* The fields of a subarray after what can happen to it.
<1>SubArrayFields.
    ASSUME NEW s \in SubArrayRecords
    PROVE  /\ \A row \in Nat : OpenRow(s, row).state = "OPEN" /\ OpenRow(s, row).row = row
           /\ ReadRow(s).state = s.state /\ ReadRow(s).row = s.row
           /\ WriteRow(s).state = s.state /\ WriteRow(s).row = s.row
           /\ \A t \in Nat : LET n == CloseAfter(s, t)
                             IN n.state = s.state /\ n.pre >= t + tRP /\ n.rd >= t + tRP /\ n.wr >= t + tRP
           /\ \A x, t : Occupy(s, x, t).state = x /\ Occupy(s, x, t).row = s.row
           /\ StartClosing(s).state = "PRECHARGING" /\ StartClosing(s).row = s.row
           /\ CloseRow(s).state = "CLOSED"
           /\ TickSub(s).state = s.state /\ TickSub(s).row = s.row /\ TickSub(s).pre = Sooner(s.pre)
           /\ TickSub(s).rd = Sooner(s.rd) /\ TickSub(s).wr = Sooner(s.wr)
  <2>1. /\ s.act \in Nat /\ s.pre \in Nat /\ s.rd \in Nat /\ s.wr \in Nat /\ tRP \in Nat
    BY Constants DEF SubArrayRecords
  <2>2. \A row \in Nat : OpenRow(s, row).state = "OPEN" /\ OpenRow(s, row).row = row
    BY DEF OpenRow, SubArrayRecords
  <2>3. /\ ReadRow(s).state = s.state /\ ReadRow(s).row = s.row
        /\ WriteRow(s).state = s.state /\ WriteRow(s).row = s.row
    BY DEF ReadRow, WriteRow, SubArrayRecords
  <2>4. ASSUME NEW t \in Nat
        PROVE  LET n == CloseAfter(s, t)
               IN n.state = s.state /\ n.pre >= t + tRP /\ n.rd >= t + tRP /\ n.wr >= t + tRP
    <3> DEFINE next == Later(s.act, t + tRP)
               n == CloseAfter(s, t)
    <3>1. /\ n.state = s.state /\ n.pre = Later(s.pre, next) /\ n.rd = Later(s.rd, next)
          /\ n.wr = Later(s.wr, next)
      BY DEF CloseAfter, SubArrayRecords
    <3>2. next \in Nat /\ next >= t + tRP
      BY <2>1, SMT DEF Later
    <3>3. \A x \in Nat : Later(x, next) >= t + tRP
      BY <2>1, <3>2, SMT DEF Later
    <3> HIDE DEF next
    <3> QED BY <2>1, <3>1, <3>3
  <2>5. \A x, t : Occupy(s, x, t).state = x /\ Occupy(s, x, t).row = s.row
    BY DEF Occupy, SubArrayRecords
  <2>6. /\ StartClosing(s).state = "PRECHARGING" /\ StartClosing(s).row = s.row /\ CloseRow(s).state = "CLOSED"
    BY DEF StartClosing, CloseRow, SubArrayRecords
  <2>7. /\ TickSub(s).state = s.state /\ TickSub(s).row = s.row /\ TickSub(s).pre = Sooner(s.pre)
        /\ TickSub(s).rd = Sooner(s.rd) /\ TickSub(s).wr = Sooner(s.wr)
    BY DEF TickSub, SubArrayRecords
  <2> QED BY <2>2, <2>3, <2>4, <2>5, <2>6, <2>7, SMT

\* A subarray that a step leaves alone stays sound, with its row.
<1>Untouched.
    ASSUME NEW d, NEW n, NEW b, NEW s, SoundAt(d, b, s), n.sub[b][s] = d.sub[b][s],
           s \in n.open[b] <=> s \in d.open[b], Closers(n, b, s) = Closers(d, b, s)
    PROVE  SoundAt(n, b, s) /\ RowOf(n, b, s) = RowOf(d, b, s)
  BY <1>Untouched DEF SoundAt, RowOf

\* One that an event will close.
<1>AboutToClose.
    ASSUME NEW n, NEW b, NEW s, NEW e, e.what \in {"implicit", "closed"},
           Closers(n, b, s) = {e}, s \notin n.open[b],
           e.what = "closed" => n.sub[b][s].state \in {"PRECHARGING", "REFRESHING"},
           e.what = "implicit" => /\ n.sub[b][s].state = "OPEN" /\ n.sub[b][s].pre >= e.left + tRP
                                  /\ n.sub[b][s].rd >= e.left + tRP /\ n.sub[b][s].wr >= e.left + tRP
    PROVE  SoundAt(n, b, s) /\ RowOf(n, b, s) = NoRow
  BY <1>AboutToClose DEF SoundAt, RowOf

\* An ACTIVATE that may go opens its row in its subarray, and nothing else changes.
<1>ActivateSound.
    ASSUME NEW d \in Devices, NEW c \in CommandRecords, c.type = "ACTIVATE", IsIssuable(d, c),
           NEW b \in Banks, NEW s \in SubArrays, SoundAt(d, b, s)
    PROVE  Leads(d, Activate(d, c), c, b, s)
  <2> USE <1>ActivateSound
  <2> DEFINE n == Activate(d, c)
             here == b = c.bank /\ s = c.sub
  <2>1. c.bank \in Banks /\ c.sub \in SubArrays /\ c.row \in Nat /\ d.sub[b][s] \in SubArrayRecords
    BY ZenonT(30) DEF CommandRecords, Devices
  <2>2. n.sub[b][s] = IF here THEN OpenRow(d.sub[b][s], c.row) ELSE d.sub[b][s]
    BY <2>1 DEF Activate, Devices
  <2>3. s \in n.open[b] <=> s \in d.open[b] \/ here
    BY <2>1 DEF Activate, Devices
  <2>4. n.events = d.events
    BY DEF Activate, Devices
  <2>5. Closers(n, b, s) = Closers(d, b, s)
    BY <2>4 DEF Closers
  <2> HIDE DEF n
  <2>6. CASE here
    <3>1. d.sub[b][s].state = "CLOSED"
      BY <2>6 DEF IsIssuable, Reads, Writes
    <3>2. Closers(d, b, s) = {}
      BY <3>1, <1>NoCloser
    <3>3. n.sub[b][s].state = "OPEN" /\ n.sub[b][s].row = c.row
      BY <2>1, <2>2, <2>6, <1>SubArrayFields, SMT
    <3>4. Touches(c, b, s) /\ LeftBy(c) = c.row
      BY <2>6 DEF Touches, LeftBy
    <3> QED BY <2>3, <2>5, <2>6, <3>2, <3>3, <3>4 DEF Leads, SoundAt, RowOf, n
  <2>7. CASE ~here
    <3>1. ~Touches(c, b, s)
      BY <2>7 DEF Touches
    <3> QED BY <2>2, <2>3, <2>5, <2>7, <3>1, <1>Untouched, SMT DEF Leads, n
  <2> QED BY <2>6, <2>7

\* A column command closes the row behind it, or leaves it.
<1>ColumnSound.
    ASSUME NEW d \in Devices, NEW n, NEW c \in CommandRecords, c.type \in Reads \cup Writes,
           NEW b \in Banks, NEW s \in SubArrays, SoundAt(d, b, s),
           NEW implicit \in BOOLEAN, implicit <=> c.type \in {"READ_PRECHARGE", "WRITE_PRECHARGE"},
           NEW plain, plain.state = d.sub[b][s].state, plain.row = d.sub[b][s].row,
           NEW done, NEW close \in Nat,
           LET r == d.sub[b][s]
               here == b = c.bank /\ s = c.sub
           IN /\ here => r.state = "OPEN" /\ (r.rd = 0 \/ r.wr = 0)
              /\ n.sub[b][s] = IF here THEN IF implicit THEN CloseAfter(r, close) ELSE plain ELSE r
              /\ s \in n.open[b] <=> s \in d.open[b] /\ ~(here /\ implicit)
              /\ n.events = d.events \cup Responses(c, done, implicit, close)
    PROVE  Leads(d, n, c, b, s)
  <2> USE <1>ColumnSound
  <2> DEFINE r == d.sub[b][s]
             here == b = c.bank /\ s = c.sub
             e == Event("implicit", c.bank, c.sub, c.id, close)
             x == Event("done", c.bank, c.sub, c.id, done)
  <2>1. c.type # "ACTIVATE" /\ c.type # "PRECHARGE" /\ c.type # "PRECHARGE_ALL" /\ r \in SubArrayRecords
    BY DEF Reads, Writes, Devices
  <2>2. /\ x.what = "done" /\ e.what = "implicit" /\ e.bank = c.bank /\ e.sub = c.sub /\ e.left = close
    BY DEF Event
  <2>3. n.events = d.events \cup {x} \cup (IF implicit THEN {e} ELSE {})
    BY DEF Responses
  <2> HIDE DEF e, x
  <2>4. Closers(n, b, s) = Closers(d, b, s) \cup (IF here /\ implicit THEN {e} ELSE {})
    BY <2>2, <2>3, ZenonT(30) DEF Closers
  <2>5. Touches(c, b, s) <=> here /\ implicit
    BY <2>1 DEF Touches
  <2>6. LeftBy(c) = NoRow
    BY <2>1 DEF LeftBy
  <2>7. CASE here /\ implicit
    <3>1. Closers(d, b, s) = {}
      BY <2>7, <1>NoCloser
    <3>2. Closers(n, b, s) = {e} /\ s \notin n.open[b] /\ n.sub[b][s] = CloseAfter(r, close)
      BY <2>4, <2>7, <3>1
    <3>3. /\ n.sub[b][s].state = "OPEN" /\ n.sub[b][s].pre >= close + tRP
          /\ n.sub[b][s].rd >= close + tRP /\ n.sub[b][s].wr >= close + tRP
      <4>1. LET m == CloseAfter(r, close)
            IN m.state = r.state /\ m.pre >= close + tRP /\ m.rd >= close + tRP /\ m.wr >= close + tRP
        BY <2>1, <1>SubArrayFields, ZenonT(30)
      <4> QED BY <2>7, <3>2, <4>1
    <3>4. SoundAt(n, b, s) /\ RowOf(n, b, s) = NoRow
      BY <2>2, <3>2, <3>3, <1>AboutToClose, SMTT(30)
    <3> QED BY <2>5, <2>6, <2>7, <3>4 DEF Leads
  <2>8. CASE here /\ ~implicit
    <3>1. Closers(d, b, s) = {}
      BY <2>8, <1>NoCloser
    <3> QED BY <2>4, <2>5, <2>8, <3>1 DEF Leads, SoundAt, RowOf
  <2>9. CASE ~here
    <3>1. Closers(n, b, s) = Closers(d, b, s) /\ n.sub[b][s] = r /\ (s \in n.open[b] <=> s \in d.open[b])
      BY <2>4, <2>9
    <3>2. SoundAt(n, b, s) /\ RowOf(n, b, s) = RowOf(d, b, s)
      BY <3>1, ZenonT(30) DEF SoundAt, RowOf
    <3> QED BY <2>5, <2>9, <3>2 DEF Leads
  <2> QED BY <2>7, <2>8, <2>9

\* A read that may go leaves its row open, or is about to close it.
<1>ReadSound.
    ASSUME NEW d \in Devices, NEW c \in CommandRecords, c.type \in Reads, IsIssuable(d, c),
           NEW b \in Banks, NEW s \in SubArrays, SoundAt(d, b, s)
    PROVE  Leads(d, Read(d, c), c, b, s)
  <2> USE <1>ReadSound
  <2> DEFINE n == Read(d, c)
             r == d.sub[b][s]
             here == b = c.bank /\ s = c.sub
             implicit == c.type = "READ_PRECHARGE"
  <2>1. c.bank \in Banks /\ c.sub \in SubArrays /\ r \in SubArrayRecords /\ tRTP \in Nat
    BY Constants, ZenonT(30) DEF CommandRecords, Devices
  <2>2. implicit \in BOOLEAN /\ (implicit <=> c.type \in {"READ_PRECHARGE", "WRITE_PRECHARGE"})
    BY DEF Reads
  <2>3. here => r.state = "OPEN" /\ r.rd = 0
    BY DEF IsIssuable, Reads, Writes
  <2>4. n.sub[b][s] = IF here THEN IF implicit THEN CloseAfter(r, tRTP) ELSE ReadRow(r) ELSE r
    BY <2>1 DEF Read, Devices
  <2>5. s \in n.open[b] <=> s \in d.open[b] /\ ~(here /\ implicit)
    BY <2>1 DEF Read, Devices
  <2>6. n.events = d.events \cup Responses(c, tCAS + tBURST, implicit, tRTP)
    BY DEF Read, Devices
  <2>7. ReadRow(r).state = r.state /\ ReadRow(r).row = r.row
    BY <2>1, <1>SubArrayFields
  <2> HIDE DEF n, implicit
  <2> QED BY <2>1, <2>2, <2>3, <2>4, <2>5, <2>6, <2>7, <1>ColumnSound, ZenonT(30) DEF n

\* A write that may go leaves its row open, or is about to close it.
<1>WriteSound.
    ASSUME NEW d \in Devices, NEW c \in CommandRecords, c.type \in Writes, IsIssuable(d, c),
           NEW b \in Banks, NEW s \in SubArrays, SoundAt(d, b, s)
    PROVE  Leads(d, Write(d, c), c, b, s)
  <2> USE <1>WriteSound
  <2> DEFINE n == Write(d, c)
             r == d.sub[b][s]
             here == b = c.bank /\ s = c.sub
             implicit == c.type = "WRITE_PRECHARGE"
  <2>1. c.bank \in Banks /\ c.sub \in SubArrays /\ r \in SubArrayRecords /\ Recovery \in Nat
    BY Times, Constants, SMT DEF CommandRecords, Devices
  <2>2. implicit \in BOOLEAN /\ (implicit <=> c.type \in {"READ_PRECHARGE", "WRITE_PRECHARGE"})
    BY DEF Writes
  <2>3. here => r.state = "OPEN" /\ r.wr = 0
    BY DEF IsIssuable, Reads, Writes
  <2>4. n.sub[b][s] = IF here THEN IF implicit THEN CloseAfter(r, Recovery) ELSE WriteRow(r) ELSE r
    BY <2>1 DEF Write, Devices
  <2>5. s \in n.open[b] <=> s \in d.open[b] /\ ~(here /\ implicit)
    BY <2>1 DEF Write, Devices
  <2>6. n.events = d.events \cup Responses(c, tCWD + Burst + tWP, implicit, Recovery)
    BY DEF Write, Devices
  <2>7. WriteRow(r).state = r.state /\ WriteRow(r).row = r.row
    BY <2>1, <1>SubArrayFields
  <2> HIDE DEF n, implicit
  <2> QED BY <2>1, <2>2, <2>3, <2>4, <2>5, <2>6, <2>7, <1>ColumnSound, ZenonT(30) DEF n

\* A precharge that may go starts to close the rows it is for, and no other.
<1>PrechargeSound.
    ASSUME NEW d \in Devices, NEW c \in CommandRecords, c.type \in Precharges, IsIssuable(d, c),
           NEW b \in Banks, NEW s \in SubArrays, SoundAt(d, b, s)
    PROVE  Leads(d, Precharge(d, c), c, b, s)
  <2> USE <1>PrechargeSound
  <2> DEFINE n == Precharge(d, c)
             r == d.sub[b][s]
             closing == IF c.type = "PRECHARGE" THEN {c.sub} ELSE d.open[c.bank]
             here == b = c.bank /\ s \in closing
             e == Event("closed", b, s, 0, tRP)
  <2>1. c.bank \in Banks /\ c.sub \in SubArrays /\ r \in SubArrayRecords /\ d.open[c.bank] \subseteq SubArrays
    BY SMT DEF CommandRecords, Devices
  <2>2. n.sub[b][s] = IF here THEN Occupy(r, "PRECHARGING", tRP) ELSE r
    BY <2>1 DEF Precharge, Devices
  <2>3. s \in n.open[b] <=> s \in d.open[b] /\ ~here
    BY <2>1 DEF Precharge, Devices
  <2>4. n.events = d.events \cup {Event("closed", c.bank, u, 0, tRP) : u \in closing}
    BY DEF Precharge, Devices
  <2>5. \A u : LET x == Event("closed", c.bank, u, 0, tRP)
               IN x.what = "closed" /\ x.bank = c.bank /\ x.sub = u
    BY DEF Event
  <2>6. e.what = "closed"
    BY DEF Event
  <2>7. LeftBy(c) = NoRow
    BY DEF LeftBy, Precharges
  <2> HIDE DEF n, e
  <2>8. CASE here
    <3>1. Closers(d, b, s) = {}
      <4>1. CASE c.type = "PRECHARGE"
        <5>1. r.pre = 0 /\ r.state \in {"OPEN", "CLOSED"}
          BY <2>8, <4>1 DEF IsIssuable, Reads, Writes
        <5> QED BY <5>1, <1>NoCloser
      <4>2. CASE c.type # "PRECHARGE"
        BY <2>8, <4>2, <1>NoCloser
      <4> QED BY <4>1, <4>2
    <3>2. Closers(n, b, s) = {e}
      <4> HIDE DEF closing
      <4>1. ASSUME NEW x \in Closers(n, b, s) PROVE x = e
        <5>1. x \notin d.events
          BY <3>1 DEF Closers
        <5>2. PICK u \in closing : x = Event("closed", c.bank, u, 0, tRP)
          BY <2>4, <5>1 DEF Closers
        <5>3. u = s
          BY <2>5, <5>2 DEF Closers
        <5> QED BY <2>8, <5>2, <5>3 DEF e
      <4>2. e \in Closers(n, b, s)
        BY <2>4, <2>5, <2>6, <2>8 DEF Closers, e
      <4> QED BY <4>1, <4>2
    <3>3. n.sub[b][s].state = "PRECHARGING"
      BY <2>1, <2>2, <2>8, <1>SubArrayFields, SMTT(30)
    <3>4. SoundAt(n, b, s) /\ RowOf(n, b, s) = NoRow
      BY <2>3, <2>6, <2>8, <3>2, <3>3, <1>AboutToClose, SMT
    <3>5. Touches(c, b, s)
      BY <2>8 DEF Touches, Precharges
    <3> QED BY <2>7, <3>4, <3>5 DEF Leads, n
  <2>9. CASE ~here
    <3>1. Closers(n, b, s) = Closers(d, b, s)
      <4> HIDE DEF closing
      <4> QED BY <2>4, <2>5, <2>9, SMTT(30) DEF Closers
    <3>2. SoundAt(n, b, s) /\ RowOf(n, b, s) = RowOf(d, b, s)
      BY <2>2, <2>3, <2>9, <3>1, ZenonT(30) DEF SoundAt, RowOf
    <3>3. Touches(c, b, s) => RowOf(d, b, s) = NoRow
      BY <2>9 DEF Touches, RowOf, Precharges
    <3> QED BY <2>7, <3>2, <3>3 DEF Leads, n
  <2> QED BY <2>8, <2>9

\* A REFRESH that may go finds the rows of its group closed, and leaves them so.
<1>RefreshSound.
    ASSUME NEW d \in Devices, NEW c \in CommandRecords, c.type = "REFRESH", IsIssuable(d, c),
           NEW b \in Banks, NEW s \in SubArrays, SoundAt(d, b, s)
    PROVE  Leads(d, Refresh(d, c), c, b, s)
  <2> USE <1>RefreshSound
  <2> DEFINE n == Refresh(d, c)
             r == d.sub[b][s]
             here == b \in Group(c.bank) /\ s = 0
             e == Event("closed", b, 0, 0, tRFC)
  <2>1. c.bank \in Banks /\ r \in SubArrayRecords
    BY ZenonT(30) DEF CommandRecords, Devices
  <2>2. n.sub[b][s] = IF here THEN Occupy(r, "REFRESHING", tRFC) ELSE r
    BY <2>1 DEF Refresh, RefreshFirst, Devices
  <2>3. s \in n.open[b] <=> s \in d.open[b]
    BY <2>1 DEF Refresh, Devices
  <2>4. n.events = d.events \cup {Event("closed", a, 0, 0, tRFC) : a \in Group(c.bank)}
    BY DEF Refresh, Devices
  <2>5. \A a : LET x == Event("closed", a, 0, 0, tRFC)
               IN x.what = "closed" /\ x.bank = a /\ x.sub = 0
    BY DEF Event
  <2>6. ~Touches(c, b, s)
    BY DEF Touches
  <2> HIDE DEF n
  <2>7. CASE here
    <3>1. r.state = "CLOSED"
      BY <2>7 DEF IsIssuable, Reads, Writes
    <3>2. Closers(d, b, s) = {} /\ s \notin d.open[b]
      BY <3>1, <1>NoCloser DEF SoundAt
    <3>3. Closers(n, b, s) = {e}
      <4>1. ASSUME NEW x \in Closers(n, b, s) PROVE x = e
        <5>1. x \notin d.events
          BY <3>2 DEF Closers
        <5>2. PICK a \in Group(c.bank) : x = Event("closed", a, 0, 0, tRFC)
          BY <2>4, <5>1 DEF Closers
        <5>3. a = b
          BY <2>5, <5>2 DEF Closers
        <5> QED BY <5>2, <5>3
      <4>2. e \in Closers(n, b, s)
        <5>1. e \in n.events
          BY <2>4, <2>7
        <5> QED BY <2>5, <2>7, <5>1 DEF Closers
      <4> QED BY <4>1, <4>2
    <3>4. n.sub[b][s].state = "REFRESHING"
      BY <2>1, <2>2, <2>7, <1>SubArrayFields, SMT
    <3>5. SoundAt(n, b, s) /\ RowOf(n, b, s) = NoRow
      BY <2>3, <2>5, <3>2, <3>3, <3>4, <1>AboutToClose, SMT
    <3>6. RowOf(d, b, s) = NoRow
      BY <3>2 DEF RowOf
    <3> QED BY <2>6, <3>5, <3>6 DEF Leads, n
  <2>8. CASE ~here
    <3>1. Closers(n, b, s) = Closers(d, b, s)
      BY <2>4, <2>5, <2>8, SMTT(30) DEF Closers
    <3>2. SoundAt(n, b, s) /\ RowOf(n, b, s) = RowOf(d, b, s)
      BY <2>2, <2>3, <2>8, <3>1 DEF SoundAt, RowOf
    <3> QED BY <2>6, <3>2 DEF Leads, n
  <2> QED BY <2>7, <2>8

\* A command that may be issued leaves the rank sound, and the rows as the controller counts on.
<1>IssueSound.
    ASSUME NEW d \in Devices, Sound(d), NEW c \in CommandRecords, IsIssuable(d, c)
    PROVE  /\ Sound(IssueCommand(d, c))
           /\ \A b \in Banks : \A s \in SubArrays :
                RowOf(IssueCommand(d, c), b, s) = IF Touches(c, b, s) THEN LeftBy(c) ELSE RowOf(d, b, s)
  <2> USE <1>IssueSound
  <2>1. ASSUME NEW b \in Banks, NEW s \in SubArrays
        PROVE  Leads(d, IssueCommand(d, c), c, b, s)
    <3>1. SoundAt(d, b, s)
      BY DEF Sound
    <3>2. c.type \in CommandTypes
      BY DEF CommandRecords
    <3>3. CASE c.type = "ACTIVATE"
      BY <3>1, <3>3, <1>ActivateSound DEF IssueCommand, Reads, Writes, Precharges
    <3>4. CASE c.type \in Reads
      BY <3>1, <3>4, <1>ReadSound DEF IssueCommand, Reads, Writes, Precharges
    <3>5. CASE c.type \in Writes
      BY <3>1, <3>5, <1>WriteSound DEF IssueCommand, Reads, Writes, Precharges
    <3>6. CASE c.type \in Precharges
      BY <3>1, <3>6, <1>PrechargeSound DEF IssueCommand, Reads, Writes, Precharges
    <3>7. CASE c.type = "REFRESH"
      BY <3>1, <3>7, <1>RefreshSound DEF IssueCommand, Reads, Writes, Precharges
    <3> QED BY <3>2, <3>3, <3>4, <3>5, <3>6, <3>7 DEF CommandTypes
  <2> QED BY <2>1 DEF Leads, Sound

\* An EventResponse leaves the rank sound and its rows as they are.
<1>CompleteSound.
    ASSUME NEW d \in Devices, Sound(d), NEW e \in d.events
    PROVE  /\ Sound(RequestComplete(d, e))
           /\ \A b \in Banks : \A s \in SubArrays : RowOf(RequestComplete(d, e), b, s) = RowOf(d, b, s)
  <2> USE <1>CompleteSound
  <2> DEFINE n == RequestComplete(d, e)
             x == Event("closed", e.bank, e.sub, 0, tRP)
  <2>1. e \in Events /\ e.what \in {"done", "implicit", "closed"} /\ e.bank \in Banks /\ e.sub \in SubArrays
    BY DEF Devices, Events
  <2>2. x.what = "closed" /\ x.bank = e.bank /\ x.sub = e.sub
    BY DEF Event
  <2>3. ASSUME NEW b \in Banks, NEW s \in SubArrays
        PROVE  SoundAt(n, b, s) /\ RowOf(n, b, s) = RowOf(d, b, s)
    <3> DEFINE here == b = e.bank /\ s = e.sub
               r == d.sub[b][s]
    <3>1. SoundAt(d, b, s) /\ r \in SubArrayRecords
      BY DEF Sound, Devices
    <3>2. n.open = d.open
      BY <2>1 DEF RequestComplete, Devices
    <3>3. CASE e.what = "done"
      <4>1. n.sub = d.sub /\ n.events = d.events \ {e}
        BY <3>3 DEF RequestComplete, Devices
      <4>2. Closers(n, b, s) = Closers(d, b, s)
        BY <3>3, <4>1 DEF Closers
      <4> HIDE DEF n
      <4> QED BY <3>1, <3>2, <4>1, <4>2 DEF SoundAt, RowOf
    <3>4. ASSUME e.what # "done", here PROVE Closers(d, b, s) = {e} /\ s \notin d.open[b]
      <4>1. e \in Closers(d, b, s)
        BY <3>4 DEF Closers
      <4> QED BY <3>1, <4>1 DEF SoundAt
    <3>5. CASE e.what = "implicit"
      <4>1. n.sub[b][s] = IF here THEN StartClosing(r) ELSE r
        BY <2>1, <3>5 DEF RequestComplete, Devices
      <4>2. n.events = (d.events \ {e}) \cup {x}
        BY <3>5, ZenonT(30) DEF RequestComplete, Devices
      <4> HIDE DEF n, x
      <4>3. CASE here
        <5>1. Closers(n, b, s) = {x}
          BY <2>2, <3>4, <3>5, <4>2, <4>3 DEF Closers
        <5>2. n.sub[b][s].state = "PRECHARGING"
          BY <3>1, <4>1, <4>3, <1>SubArrayFields, SMTT(30)
        <5>3. SoundAt(n, b, s) /\ RowOf(n, b, s) = NoRow
          BY <2>2, <3>2, <3>4, <3>5, <4>3, <5>1, <5>2, <1>AboutToClose, SMTT(30)
        <5> QED BY <3>4, <3>5, <4>3, <5>3 DEF RowOf
      <4>4. CASE ~here
        <5>1. Closers(n, b, s) = Closers(d, b, s)
          BY <2>2, <4>2, <4>4 DEF Closers
        <5> QED BY <3>1, <3>2, <4>1, <4>4, <5>1, ZenonT(30) DEF SoundAt, RowOf
      <4> QED BY <4>3, <4>4
    <3>6. CASE e.what = "closed"
      <4>1. n.sub[b][s] = IF here THEN CloseRow(r) ELSE r
        BY <2>1, <3>6 DEF RequestComplete, Devices
      <4>2. n.events = d.events \ {e}
        BY <3>6 DEF RequestComplete, Devices
      <4> HIDE DEF n
      <4>3. CASE here
        <5>1. Closers(n, b, s) = {}
          BY <3>4, <3>6, <4>2, <4>3, ZenonT(30) DEF Closers
        <5> QED BY <3>2, <3>4, <3>6, <4>3, <5>1 DEF SoundAt, RowOf
      <4>4. CASE ~here
        <5>1. Closers(n, b, s) = Closers(d, b, s)
          BY <4>2, <4>4 DEF Closers
        <5> QED BY <3>1, <3>2, <4>1, <4>4, <5>1, SMT DEF SoundAt, RowOf
      <4> QED BY <4>3, <4>4, SMT
    <3> QED BY <2>1, <3>3, <3>5, <3>6
  <2> QED BY <2>3 DEF Sound

\* So does a cycle that passes once no response is due.
<1>TickSound.
    ASSUME NEW d \in Devices, Sound(d), \A e \in d.events : e.left # 0
    PROVE  /\ Sound(Tick(d))
           /\ \A b \in Banks : \A s \in SubArrays : RowOf(Tick(d), b, s) = RowOf(d, b, s)
  <2> USE <1>TickSound
  <2> DEFINE n == Tick(d)
  <2>1. ASSUME NEW b \in Banks, NEW s \in SubArrays
        PROVE  SoundAt(n, b, s) /\ RowOf(n, b, s) = RowOf(d, b, s)
    <3> DEFINE r == d.sub[b][s]
    <3>1. SoundAt(d, b, s) /\ r \in SubArrayRecords
      BY ZenonT(30) DEF Sound, Devices
    <3>2. n.sub[b][s] = TickSub(r) /\ n.open = d.open /\ n.events = {TickEvent(e) : e \in d.events}
      BY DEF Tick
    <3> HIDE DEF n
    <3>3. /\ n.sub[b][s].state = r.state /\ n.sub[b][s].row = r.row
          /\ n.sub[b][s].pre = Sooner(r.pre) /\ n.sub[b][s].rd = Sooner(r.rd) /\ n.sub[b][s].wr = Sooner(r.wr)
      BY <3>1, <3>2, <1>SubArrayFields, SMTT(30)
    <3>4. ASSUME NEW e \in d.events
          PROVE  LET x == TickEvent(e)
                 IN /\ x.what = e.what /\ x.bank = e.bank /\ x.sub = e.sub /\ x.left = e.left - 1
                    /\ e.left \in Nat \ {0}
      <4>1. e \in Events /\ e.left # 0
        BY DEF Devices
      <4>2. e.left \in Nat \ {0} /\ Sooner(e.left) = e.left - 1
        BY <4>1 DEF Events, Sooner
      <4>3. LET x == TickEvent(e)
            IN x.what = e.what /\ x.bank = e.bank /\ x.sub = e.sub /\ x.left = Sooner(e.left)
        BY <4>1 DEF TickEvent, Events
      <4> QED BY <4>2, <4>3
    <3>5. ASSUME NEW x \in Closers(n, b, s)
          PROVE  \E e \in Closers(d, b, s) : x = TickEvent(e)
      <4>1. PICK e \in d.events : x = TickEvent(e)
        BY <3>2 DEF Closers
      <4>2. e \in Closers(d, b, s)
        BY <3>4, <4>1 DEF Closers
      <4> QED BY <4>1, <4>2
    <3>6. s \in n.open[b] => n.sub[b][s].state = "OPEN" /\ Closers(n, b, s) = {}
      BY <3>1, <3>2, <3>3, <3>5 DEF SoundAt
    <3>7. ASSUME NEW x \in Closers(n, b, s)
          PROVE  /\ x.what = "closed" => n.sub[b][s].state \in {"PRECHARGING", "REFRESHING"}
                 /\ x.what = "implicit" =>
                      /\ n.sub[b][s].state = "OPEN" /\ n.sub[b][s].pre >= x.left + tRP
                      /\ n.sub[b][s].rd >= x.left + tRP /\ n.sub[b][s].wr >= x.left + tRP
                 /\ Closers(n, b, s) = {x}
      <4>1. PICK e \in Closers(d, b, s) : x = TickEvent(e)
        BY <3>5
      <4>2. e \in d.events /\ Closers(d, b, s) = {e}
        BY <3>1 DEF Closers, SoundAt
      <4>3. Closers(n, b, s) = {x}
        BY <3>5, <4>1, <4>2
      <4>4. x.what = e.what /\ x.left = e.left - 1 /\ e.left \in Nat \ {0}
        BY <3>4, <4>1, <4>2
      <4>5. /\ e.what = "closed" => r.state \in {"PRECHARGING", "REFRESHING"}
            /\ e.what = "implicit" => /\ r.state = "OPEN" /\ r.pre >= e.left + tRP
                                      /\ r.rd >= e.left + tRP /\ r.wr >= e.left + tRP
        BY <3>1, <4>1 DEF SoundAt
      <4>6. \A t \in Nat : t >= e.left + tRP => Sooner(t) >= x.left + tRP
        BY <4>4, Constants, SMTT(30) DEF Sooner
      <4>7. r.pre \in Nat /\ r.rd \in Nat /\ r.wr \in Nat
        BY <3>1 DEF SubArrayRecords
      <4>8. e.what = "implicit" => /\ Sooner(r.pre) >= x.left + tRP
                                   /\ Sooner(r.rd) >= x.left + tRP /\ Sooner(r.wr) >= x.left + tRP
        BY <4>5, <4>6, <4>7
      <4> QED BY <3>3, <4>3, <4>4, <4>5, <4>8
    <3>8. SoundAt(n, b, s)
      BY <3>6, <3>7, ZenonT(30) DEF SoundAt
    <3> QED BY <3>2, <3>3, <3>8 DEF RowOf
  <2> QED BY <2>1 DEF Sound

\* A rank that has issued nothing has no row open.
<1>InitSound.
    Sound(InitDevice) /\ \A b \in Banks : \A s \in SubArrays : RowOf(InitDevice, b, s) = NoRow
  BY SMTT(30) DEF InitDevice, Sound, SoundAt, Closers, RowOf

<1> QED BY <1>IssueSound, <1>CompleteSound, <1>TickSound, <1>InitSound

=============================================================================
