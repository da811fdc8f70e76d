-------------------------------- MODULE Rank --------------------------------
(***************************************************************************)
(* One rank of DRAM banks as NVMain's controller drives it: StandardRank,  *)
(* DDR3Bank and SubArray.  A device is a record, a command changes it, and *)
(* every time it holds is the number of cycles left until then, so that it *)
(* does not grow with the clock: zero is "now or earlier".                 *)
(*                                                                         *)
(* UsePrecharge is on, bursts are single and tAL is zero, as in every      *)
(* configuration the simulator ships.  The banks' own nextRead and         *)
(* nextWrite are never later than their rank's and are left out; so is     *)
(* powering down, which the controller never asks for, and pausing writes. *)
(***************************************************************************)
EXTENDS Integers, Sequences

CONSTANTS BANKS, SubArrayNum, BanksPerRefresh,
          tRCD, tRAS, tRP, tCAS, tCWD, tBURST, tCCD, tRTP, tWR, tWTR, tRTRS, tPPD,
          tRRDR, tRAW, RAW, tRFC,
          tWP,      \* what WriteCellData adds to a write: the time to program the cells
          Requests, \* the NVMainRequest objects, used again once completed
          NoRow     \* p->ROWS, a row that is none

ASSUME RankAssumption ==
  /\ {BANKS, SubArrayNum, BanksPerRefresh, RAW} \subseteq Nat \ {0}
  /\ BANKS % BanksPerRefresh = 0
  /\ {tRCD, tRAS, tBURST, tCCD, tWR, tWTR, tRTRS, tPPD, tRRDR, tRAW, tWP} \subseteq Nat
  \* a response never comes in the cycle after its command, where it could find a
  \* transaction wakeup of that cycle inserted before it
  /\ {tRP, tRTP, tCAS, tCWD, tRFC} \subseteq Nat \ {0, 1}
  /\ tCAS + tBURST + tRTRS >= tCWD /\ tBURST + tRTP >= tCCD
  /\ Requests \subseteq Nat \ {0} /\ Requests # {} /\ NoRow \notin Nat

Banks == 0..BANKS - 1
SubArrays == 0..SubArrayNum - 1
Group(b) == {c \in Banks : c \div BanksPerRefresh = b \div BanksPerRefresh}

Reads == {"READ", "READ_PRECHARGE"}
Writes == {"WRITE", "WRITE_PRECHARGE"}
Precharges == {"PRECHARGE", "PRECHARGE_ALL"}
CommandTypes == Reads \cup Writes \cup Precharges \cup {"ACTIVATE", "REFRESH"}

Later(t, u) == IF t > u THEN t ELSE u
Burst == Later(tBURST, tCCD)

\* A rank that has issued nothing: its last activations are taken to be at cycle 0.
InitDevice ==
  [sub |-> [b \in Banks |-> [s \in SubArrays |->
              [state |-> "CLOSED", row |-> 0, act |-> 0, pre |-> 0, rd |-> 0, wr |-> 0]]],
   open |-> [b \in Banks |-> {}],           \* activeSubArrayQueue
   act |-> 1, rd |-> 1, wr |-> 1, pre |-> 1,     \* tCMD
   raw |-> [i \in 1..RAW |-> tRAW],         \* lastActivate, the oldest first
   events |-> {}]                           \* EventResponses on their way

Event(what, b, s, id, left) == [what |-> what, bank |-> b, sub |-> s, id |-> id, left |-> left]

-----------------------------------------------------------------------------
\* When a command may be issued

\* The cycles NextIssuable says are left for command c, a lower bound: a subarray answers
\* for the plain commands only.
NextIssuable(d, c) ==
  LET s == d.sub[c.bank][c.sub] IN
  CASE c.type = "ACTIVATE" -> Later(Later(d.act, Head(d.raw)), s.act)
    [] c.type = "REFRESH" -> Later(d.act, Head(d.raw))
    [] c.type = "READ" -> Later(d.rd, s.rd)
    [] c.type = "READ_PRECHARGE" -> d.rd
    [] c.type = "WRITE" -> Later(d.wr, s.wr)
    [] c.type = "WRITE_PRECHARGE" -> d.wr
    [] c.type = "PRECHARGE" -> Later(d.pre, s.pre)
    [] c.type = "PRECHARGE_ALL" -> d.pre

\* The rank, the bank and the subarray agree that c may go now.
IsIssuable(d, c) ==
  LET s == d.sub[c.bank][c.sub] IN
  CASE c.type = "ACTIVATE" ->
         d.act = 0 /\ Head(d.raw) = 0 /\ s.act = 0 /\ s.state = "CLOSED"
    [] c.type = "REFRESH" ->
         /\ d.act = 0 /\ Head(d.raw) = 0
         /\ \A b \in Group(c.bank) : d.sub[b][0].act = 0 /\ d.sub[b][0].state = "CLOSED"
    [] c.type \in Reads ->
         /\ d.rd = 0 /\ s.rd = 0
         /\ d.open[c.bank] # {} /\ s.state = "OPEN" /\ s.row = c.row
    [] c.type \in Writes ->
         /\ d.wr = 0 /\ s.wr = 0
         /\ d.open[c.bank] # {} /\ s.state = "OPEN" /\ s.row = c.row
    [] c.type = "PRECHARGE" ->
         d.pre = 0 /\ s.pre = 0 /\ s.state \in {"OPEN", "CLOSED"}
    [] c.type = "PRECHARGE_ALL" ->
         /\ d.pre = 0
         /\ \A u \in d.open[c.bank] :
              d.sub[c.bank][u].pre = 0 /\ d.sub[c.bank][u].state \in {"OPEN", "CLOSED"}

-----------------------------------------------------------------------------
\* What a command does

\* The subarray's side of the commands.  Activating opens a row ...
OpenRow(s, row) ==
  [s EXCEPT !.state = "OPEN", !.row = row, !.pre = Later(@, Later(tRCD, tRAS)),
            !.rd = Later(@, tRCD), !.wr = Later(@, tRCD)]

\* ... reading and writing keep it open ...
ReadRow(s) ==
  [s EXCEPT !.pre = Later(@, tBURST + tRTP - tCCD), !.rd = Later(@, Burst),
            !.wr = Later(@, tCAS + tBURST + tRTRS - tCWD)]

Recovery == tCWD + tBURST + tWP + tWR

WriteRow(s) ==
  [s EXCEPT !.pre = Later(@, Recovery), !.rd = Later(@, tCWD + tBURST + tWTR + tWP),
            !.wr = Later(@, Burst + tWP)]

\* ... unless the row closes by itself `after' cycles later ...
CloseAfter(s, after) ==
  LET next == Later(s.act, after + tRP)
  IN [s EXCEPT !.act = next, !.pre = Later(@, next), !.rd = Later(@, next), !.wr = Later(@, next)]

\* ... and a precharge or a refresh keeps the subarray busy until it is closed.
Occupy(s, doing, time) == [s EXCEPT !.state = doing, !.act = Later(@, time)]
StartClosing(s) == [s EXCEPT !.state = "PRECHARGING"]

\* The end of a precharge only: a refresh would not end.
CloseRowPrecharged(s) == IF s.state = "REFRESHING" THEN s ELSE [s EXCEPT !.state = "CLOSED", !.row = 0]

CloseRow(s) == [s EXCEPT !.state = "CLOSED", !.row = 0]

Activate(d, c) ==
  [d EXCEPT
     !.sub[c.bank][c.sub] = OpenRow(@, c.row),
     !.open[c.bank] = @ \cup {c.sub},
     !.act = Later(@, tRRDR),
     !.raw = Append(Tail(@), tRAW)]

\* What a read or a write adds to the EventResponses; one that closes its row also starts
\* the precharge by itself.
Responses(c, done, implicit, close) ==
  {Event("done", c.bank, c.sub, c.id, done)}
    \cup (IF implicit THEN {Event("implicit", c.bank, c.sub, c.id, close)} ELSE {})

Read(d, c) ==
  LET implicit == c.type = "READ_PRECHARGE" IN
  [d EXCEPT
     !.sub[c.bank][c.sub] = IF implicit THEN CloseAfter(@, tRTP) ELSE ReadRow(@),
     !.open[c.bank] = IF implicit THEN @ \ {c.sub} ELSE @,
     !.rd = Later(@, Burst),
     !.wr = Later(@, tCAS + tBURST + tRTRS - tCWD),
     !.events = @ \cup Responses(c, tCAS + tBURST, implicit, tRTP)]

Write(d, c) ==
  LET implicit == c.type = "WRITE_PRECHARGE" IN
  [d EXCEPT
     !.sub[c.bank][c.sub] = IF implicit THEN CloseAfter(@, Recovery) ELSE WriteRow(@),
     !.open[c.bank] = IF implicit THEN @ \ {c.sub} ELSE @,
     !.rd = Later(@, tCWD + tBURST + tWTR),
     !.wr = Later(@, Burst),
     !.events = @ \cup Responses(c, tCWD + Burst + tWP, implicit, Recovery)]

\* PRECHARGE closes its subarray, PRECHARGE_ALL every active one of the bank.
Precharge(d, c) ==
  LET closing == IF c.type = "PRECHARGE" THEN {c.sub} ELSE d.open[c.bank] IN
  [d EXCEPT
     !.sub[c.bank] = [u \in SubArrays |->
        IF u \in closing THEN Occupy(@[u], "PRECHARGING", tRP) ELSE @[u]],
     !.open[c.bank] = @ \ closing,
     !.pre = Later(@, tPPD),
     !.events = @ \cup {Event("closed", c.bank, u, 0, tRP) : u \in closing}]

\* The first subarray of every bank of the group is refreshed.
RefreshFirst(subs) == [subs EXCEPT ![0] = Occupy(@, "REFRESHING", tRFC)]

Refresh(d, c) ==
  [d EXCEPT
     !.sub = [b \in Banks |->
        IF b \in Group(c.bank) THEN RefreshFirst(@[b]) ELSE @[b]],
     !.act = Later(@, tRRDR),
     !.raw = Append(Tail(@), tRAW),
     !.events = @ \cup {Event("closed", b, 0, 0, tRFC) : b \in Group(c.bank)}]

IssueCommand(d, c) ==
  CASE c.type = "ACTIVATE" -> Activate(d, c)
    [] c.type \in Reads -> Read(d, c)
    [] c.type \in Writes -> Write(d, c)
    [] c.type \in Precharges -> Precharge(d, c)
    [] c.type = "REFRESH" -> Refresh(d, c)

\* An EventResponse e reaches the subarray: an implicit precharge starts, a precharge or a
\* refresh ends, or the request goes up to the controller.
RequestComplete(d, e) ==
  CASE e.what = "done" -> [d EXCEPT !.events = @ \ {e}]
    [] e.what = "implicit" ->
         [d EXCEPT !.sub[e.bank][e.sub] = StartClosing(@),
                   !.events = (@ \ {e}) \cup {Event("closed", e.bank, e.sub, 0, tRP)}]
    [] e.what = "closed" ->
         [d EXCEPT !.sub[e.bank][e.sub] = CloseRow(@),
                   !.events = @ \ {e}]

Sooner(t) == IF t = 0 THEN 0 ELSE t - 1

\* A subarray, an event and the device one cycle later.
TickSub(s) == [s EXCEPT !.act = Sooner(@), !.pre = Sooner(@), !.rd = Sooner(@), !.wr = Sooner(@)]
TickEvent(e) == [e EXCEPT !.left = Sooner(@)]

Tick(d) ==
  [sub |-> [b \in Banks |-> [s \in SubArrays |-> TickSub(d.sub[b][s])]],
   open |-> d.open,
   act |-> Sooner(d.act), rd |-> Sooner(d.rd), wr |-> Sooner(d.wr), pre |-> Sooner(d.pre),
   raw |-> [i \in 1..RAW |-> Sooner(d.raw[i])],
   events |-> {TickEvent(e) : e \in d.events}]
=============================================================================
