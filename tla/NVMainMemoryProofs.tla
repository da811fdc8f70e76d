------------------------- MODULE NVMainMemoryProofs -------------------------
(***************************************************************************)
(* For every number of packets and instances, every capacity of NVMain's   *)
(* queue and every latency: each packet that was accepted gets its one     *)
(* response, a packet that was refused is asked for again, what waits is   *)
(* woken up, and NVMain's clock does not run ahead of gem5's.  First comes *)
(* the inductive invariant, then that each step of the object keeps it.    *)
(***************************************************************************)
EXTENDS NVMainMemory, TLAPS

\* Zenon proves a leaf that names no other prover.
USE Zenon

-----------------------------------------------------------------------------
\* Cardinalities

\* The size of the empty set.
LEMMA EmptyCardinality == Cardinality({}) = 0
<1> DEFINE P(g) == g = [T \in SUBSET {} |-> IF T = {} THEN 0 ELSE 1 + g[T \ {CHOOSE x : x \in T}]]
           CS == CHOOSE g : P(g)
<1>1. Cardinality({}) = CS[{}]
  BY SMT DEF Cardinality
<1>2. P([T \in SUBSET {} |-> 0])
  BY SMT
<1>3. P(CS)
  BY <1>2
<1> QED BY <1>1, <1>3

\* The size of a set of one element.
LEMMA SingletonCardinality ==
  ASSUME NEW e
  PROVE  Cardinality({e}) = 1
<1> DEFINE P(g) == g = [T \in SUBSET {e} |-> IF T = {} THEN 0 ELSE 1 + g[T \ {CHOOSE x : x \in T}]]
           CS == CHOOSE g : P(g)
<1>1. \A T \in SUBSET {e} : T = {} \/ (T = {e} /\ T \ {CHOOSE x : x \in T} = {})
  OBVIOUS
<1>2. Cardinality({e}) = CS[{e}]
  BY SMT DEF Cardinality
<1>3. P([T \in SUBSET {e} |-> IF T = {} THEN 0 ELSE 1])
  BY <1>1, SMT
<1>4. P(CS)
  BY <1>3
<1> HIDE DEF CS
<1>5. \A T \in SUBSET {e} : CS[T] = IF T = {} THEN 0 ELSE 1 + CS[T \ {CHOOSE x : x \in T}]
  BY <1>4
<1>6. CS[{}] = 0
  BY <1>5
<1>7. CS[{e}] = 1 + CS[{}]
  <2>1. {e} \in SUBSET {e} /\ {e} # {} /\ {e} \ {CHOOSE x : x \in {e}} = {}
    BY <1>1
  <2> QED BY <1>5, <2>1
<1> QED BY <1>2, <1>6, <1>7, SMT

-----------------------------------------------------------------------------
\* Sequences

\* The second half of a concatenation follows the first.
LEMMA Concat ==
  ASSUME NEW S, NEW s \in Seq(S), NEW t \in Seq(S)
  PROVE  /\ s \o t \in Seq(S) /\ Len(s \o t) = Len(s) + Len(t)
         /\ \A i \in 1..Len(s) : (s \o t)[i] = s[i]
         /\ \A i \in 1..Len(t) : (s \o t)[Len(s) + i] = t[i]
BY SMT

\* Nothing before a sequence leaves it as it is.
LEMMA ConcatNothing ==
  ASSUME NEW S, NEW s \in Seq(S)
  PROVE  <<>> \o s = s
BY SMT

-----------------------------------------------------------------------------
\* The inductive invariant

Flags == {"read", "write"} \X Ports

\* The calls that may be on the stack: a look at a flag, the end of a RequestComplete, and
\* that of the one for a write's copy.
Frames == Flags \cup ({"finish", "copy"} \X Packets)

Types == TypeOK /\ stack \in Seq(Frames)

\* What Cycle has left is within the time that passed, unless a dump counted it before.
Clocks ==
  /\ hop <= left /\ (mode = "no" => hop = 0 /\ left = 0) /\ (mode = "dump" => dumps > 0)
  /\ dumps = 0 => /\ (cycle + left) * clock <= curTick
                  /\ mode = "no" => cycle * clock <= lastWakeup

\* Except within tick, which schedules the wakeup at its end, an event has its wakeup.
Wakeups ==
  /\ wake # None => wake >= curTick
  /\ mode # "tick" /\ (\E p \in Packets : event[p] # None) => wake # None

\* A request has its entry in the map until its RequestComplete returns; a read's packet is
\* in the meantime accepted.
Requests ==
  /\ \A p \in queued : event[p] # None
  /\ \A p \in Packets : event[p] # None => p \in requestMap
  /\ \A p \in Packets : pkt[p] \in {"new", "refused"} => p \notin requestMap
  /\ \A p \in Packets : Kind[p] = "read" => (pkt[p] = "accepted" <=> p \in requestMap)

\* RequestComplete is outermost, and its request has no more events.
FinishLast ==
  \A p \in Packets : \A j \in 1..Len(stack) :
    stack[j] = <<"finish", p>> => j = Len(stack) /\ p \in requestMap /\ event[p] = None

\* A copy that is yet to be completed is that of a write that was accepted.
CopyAccepted ==
  \A p \in Packets : \A j \in 1..Len(stack) :
    stack[j] = <<"copy", p>> => pkt[p] = "accepted" /\ Kind[p] # "read"

\* It is completed once,
CopyOnce ==
  \A p \in Packets : \A j, k \in 1..Len(stack) :
    stack[j] = <<"copy", p>> /\ stack[k] = <<"copy", p>> => j = k

\* and while a write is accepted it is still to be completed.
CopyRuns ==
  \A p \in Packets : pkt[p] = "accepted" /\ Kind[p] # "read" =>
    \E j \in 1..Len(stack) : stack[j] = <<"copy", p>>

Calls == FinishLast /\ CopyAccepted /\ CopyOnce /\ CopyRuns

FlagOf(p) == IF Kind[p] = "read" THEN "read" ELSE "write"

\* An instance has at most one packet that was refused, and its flag is set for it and for
\* nothing else.
FlagsExact ==
  /\ \A i \in Ports : \A f \in {"read", "write"} : retry[i][f] =>
       \E p \in Packets : pkt[p] = "refused" /\ Port[p] = i /\ FlagOf(p) = f
  /\ \A p \in Packets : pkt[p] = "refused" => retry[Port[p]][FlagOf(p)]
  /\ \A p, q \in Packets : pkt[p] = "refused" /\ pkt[q] = "refused" /\ Port[p] = Port[q] => p = q

\* Either a request is under way, or the flag is still to be looked at.
FlagsSeen ==
  \A p \in Packets : pkt[p] = "refused" =>
    \/ \E q \in Packets : event[q] # None
    \/ \E j \in 1..Len(stack) : stack[j] = <<FlagOf(p), Port[p]>>

Refusals == FlagsExact /\ FlagsSeen

\* The response queue of an instance holds the packets that were replied to, each once, and
\* respondEvent is scheduled, or the peer is to ask again, only for a packet in it.
Responses ==
  /\ \A i \in Ports : \A j \in 1..Len(responseQueue[i]) :
       pkt[responseQueue[i][j]] = "replied" /\ Port[responseQueue[i][j]] = i
  /\ \A i \in Ports : \A j, k \in 1..Len(responseQueue[i]) :
       responseQueue[i][j] = responseQueue[i][k] => j = k
  /\ \A p \in Packets : pkt[p] = "replied" =>
       /\ Kind[p] # "writeback"
       /\ \E j \in 1..Len(responseQueue[Port[p]]) : responseQueue[Port[p]][j] = p
  /\ \A i \in Ports : /\ respond[i] # None \/ retryResp[i] <=> Len(responseQueue[i]) > 0
                      /\ respond[i] # None /\ retryResp[i] => Len(responseQueue[i]) > 1

IInv == Types /\ Clocks /\ Wakeups /\ Requests /\ Calls /\ Refusals /\ Responses

-----------------------------------------------------------------------------
\* The stack

\* RequestComplete's loop looks at both flags of every instance.
LEMMA RetriesFlags ==
  /\ Retries \in Seq(Flags) /\ Len(Retries) = 2 * Instances
  /\ \A x \in Flags : \E j \in 1..2 * Instances : Retries[j] = x
<1>0. Instances \in Nat \ {0}
  BY MemoryAssumption
<1>1. ASSUME NEW j \in 1..2 * Instances PROVE (j + 1) \div 2 \in Ports
  BY <1>0, <1>1, SMTT(30) DEF Ports
<1>2. Retries \in [1..2 * Instances -> Flags]
  BY <1>1 DEF Retries, Flags
<1>3. 2 * Instances \in Nat
  BY <1>0, SMT
<1>4. Retries \in Seq(Flags) /\ Len(Retries) = 2 * Instances
  BY <1>2, <1>3, SMT
<1>5. ASSUME NEW i \in Ports
      PROVE  \E j \in 1..2 * Instances : Retries[j] = <<"read", i>>
  <2>1. i \in Int /\ 1 <= i /\ i <= Instances
    BY <1>0, SMT DEF Ports
  <2>2. 2 * i - 1 \in 1..2 * Instances /\ (2 * i - 1) % 2 = 1 /\ ((2 * i - 1) + 1) \div 2 = i
    BY <1>0, <2>1, SMTT(30)
  <2> QED BY <2>2 DEF Retries
<1>6. ASSUME NEW i \in Ports
      PROVE  \E j \in 1..2 * Instances : Retries[j] = <<"write", i>>
  <2>1. i \in Int /\ 1 <= i /\ i <= Instances
    BY <1>0, SMT DEF Ports
  <2>2. 2 * i \in 1..2 * Instances /\ (2 * i) % 2 # 1 /\ ((2 * i) + 1) \div 2 = i
    BY <1>0, <2>1, SMTT(30)
  <2> QED BY <2>2 DEF Retries
<1>7. \A x \in Flags : \E j \in 1..2 * Instances : Retries[j] = x
  BY <1>5, <1>6, SMT DEF Flags
<1> QED BY <1>4, <1>7

\* A call that returns leaves the ones below it.
LEMMA TailFrames ==
  ASSUME NEW s \in Seq(Frames), s # <<>>
  PROVE  /\ Tail(s) \in Seq(Frames) /\ Len(Tail(s)) = Len(s) - 1 /\ Len(s) \in Nat
         /\ \A j \in 1..Len(Tail(s)) : j + 1 \in 1..Len(s) /\ Tail(s)[j] = s[j + 1]
         /\ 1 \in 1..Len(s) /\ Head(s) = s[1]
         /\ \A j \in 1..Len(s) : j # 1 => j - 1 \in 1..Len(Tail(s)) /\ Tail(s)[j - 1] = s[j]
BY SMTT(30)

\* RequestComplete puts its loop over the flags and its end x on the stack,
LEMMA PushFrame ==
  ASSUME NEW x \in Frames
  PROVE  LET n == 2 * Instances + 1
             c == Append(Retries, x)
         IN  /\ c \in Seq(Frames) /\ n \in Nat /\ Len(c) = n /\ n \in 1..n /\ c[n] = x
             /\ \A j \in 1..n : c[j] \in Flags \/ j = n
             /\ \A y \in Flags : \E j \in 1..n : c[j] = y
<1> DEFINE n == 2 * Instances + 1
           c == Append(Retries, x)
<1>0. n \in Nat /\ n > 0 /\ 2 * Instances \in Nat /\ n - 1 = 2 * Instances
  BY MemoryAssumption, SMT
<1>1. Retries \in Seq(Frames) /\ Len(Retries) = n - 1
  <2>1. Retries \in [1..2 * Instances -> Flags] /\ Flags \subseteq Frames
    BY RetriesFlags, SMT DEF Frames
  <2>2. Retries \in [1..2 * Instances -> Frames]
    BY <2>1
  <2> QED BY <1>0, <2>2, RetriesFlags, SMTT(30)
<1>2. \A j \in 1..n - 1 : Retries[j] \in Flags
  BY <1>0, RetriesFlags, SMT
<1>3. \A y \in Flags : \E j \in 1..n - 1 : Retries[j] = y
  BY <1>0, RetriesFlags
<1> HIDE DEF n
<1>4. c \in Seq(Frames) /\ Len(c) = n /\ c[n] = x /\ \A j \in 1..n - 1 : c[j] = Retries[j]
  BY <1>0, <1>1, SMT
<1> HIDE DEF c
<1>5. \A j \in 1..n : c[j] \in Flags \/ j = n
  BY <1>0, <1>2, <1>4, SMT
<1>6. \A y \in Flags : \E j \in 1..n : c[j] = y
  BY <1>0, <1>3, <1>4, SMT
<1>7. n \in 1..n
  BY <1>0, SMT
<1> QED BY <1>0, <1>4, <1>5, <1>6, <1>7 DEF n, c

\* on top of the calls r that led to it.
LEMMA PushFrames ==
  ASSUME NEW r \in Seq(Frames), NEW x \in Frames
  PROVE  LET n == 2 * Instances + 1
             s == Append(Retries, x) \o r
         IN  /\ s \in Seq(Frames) /\ n \in Nat /\ Len(r) \in Nat /\ Len(s) = n + Len(r)
             /\ n \in 1..Len(s) /\ s[n] = x
             /\ \A j \in 1..Len(r) : n + j \in 1..Len(s) /\ s[n + j] = r[j]
             /\ \A j \in 1..Len(s) : \/ s[j] \in Flags
                                     \/ j = n
                                     \/ j - n \in 1..Len(r) /\ s[j] = r[j - n]
             /\ \A y \in Flags : \E j \in 1..Len(s) : s[j] = y
<1> DEFINE n == 2 * Instances + 1
           c == Append(Retries, x)
           s == c \o r
<1>1. /\ c \in Seq(Frames) /\ n \in Nat /\ Len(c) = n /\ n \in 1..n /\ c[n] = x
      /\ \A j \in 1..n : c[j] \in Flags \/ j = n
      /\ \A y \in Flags : \E j \in 1..n : c[j] = y
  BY PushFrame
<1> HIDE DEF n, c
<1>2. Len(r) \in Nat
  BY SMT
<1>3. s \in Seq(Frames) /\ Len(s) = n + Len(r)
  BY <1>1, Concat
<1>4. /\ \A j \in 1..n : s[j] = c[j]
      /\ \A j \in 1..Len(r) : s[n + j] = r[j]
  BY <1>1, <1>2, Concat, SMTT(30)
<1> HIDE DEF s
<1>5. ASSUME NEW j \in 1..Len(s)
      PROVE  s[j] \in Flags \/ j = n \/ (j - n \in 1..Len(r) /\ s[j] = r[j - n])
  <2>1. CASE j \in 1..n
    BY <1>1, <1>4, <2>1
  <2>2. CASE j - n \in 1..Len(r)
    BY <1>1, <1>2, <1>4, <2>2, SMT
  <2> QED BY <1>1, <1>2, <1>3, <2>1, <2>2, SMT
<1>6. ASSUME NEW y \in Flags PROVE \E j \in 1..Len(s) : s[j] = y
  <2>1. PICK j \in 1..n : c[j] = y
    BY <1>1
  <2>2. j \in 1..Len(s) /\ s[j] = y
    BY <1>1, <1>2, <1>3, <1>4, <2>1, SMT
  <2> QED BY <2>2
<1>7. n \in 1..Len(s) /\ s[n] = x /\ \A j \in 1..Len(r) : n + j \in 1..Len(s)
  BY <1>1, <1>2, <1>3, <1>4, SMT
<1> QED BY <1>1, <1>2, <1>3, <1>4, <1>5, <1>6, <1>7 DEF n, s, c

-----------------------------------------------------------------------------
\* gem5's time and NVMain's clock

\* A tick or a dump counts no more cycles than have passed.
LEMMA ElapsedFits ==
  ASSUME TypeOK
  PROVE  /\ Elapsed \in Nat
         /\ cycle * clock <= lastWakeup => (cycle + Elapsed) * clock <= curTick
<1> DEFINE d == curTick - lastWakeup
           e == d \div clock
<1>0. /\ clock \in Nat \ {0} /\ cycle \in Nat /\ d \in Nat
      /\ lastWakeup \in Nat /\ curTick \in Nat /\ lastWakeup + d = curTick
  BY MemoryAssumption, SMT DEF TypeOK
<1> HIDE DEF d
<1>1. e \in Nat /\ e * clock <= d
  BY <1>0, SMTT(30)
<1> HIDE DEF e
<1>2. (cycle + e) * clock = cycle * clock + e * clock /\ cycle * clock \in Nat /\ e * clock \in Nat
  BY <1>0, <1>1, SMTT(30)
<1>3. cycle * clock <= lastWakeup => (cycle + e) * clock <= curTick
  BY <1>0, <1>1, <1>2, SMT
<1>4. Elapsed = e
  BY DEF Elapsed, d, e
<1> QED BY <1>1, <1>3, <1>4

\* Steps of gem5 and of the clocks leave the packets alone.
LEMMA PacketsKept ==
  ASSUME Requests, Calls, Refusals, Responses,
         UNCHANGED <<stack, pkt, requests, retry, responses>>
  PROVE  Requests' /\ Calls' /\ Refusals' /\ Responses'
<1>0. /\ stack' = stack /\ pkt' = pkt /\ retry' = retry
      /\ event' = event /\ queued' = queued /\ requestMap' = requestMap
      /\ respond' = respond /\ retryResp' = retryResp /\ responseQueue' = responseQueue
  BY DEF requests, responses
<1>1. Requests'
  BY <1>0 DEF Requests
<1>2. Calls'
  <2>1. FinishLast'
    BY <1>0, SMT DEF Calls, FinishLast
  <2>2. CopyAccepted'
    BY <1>0 DEF Calls, CopyAccepted
  <2>3. CopyOnce'
    BY <1>0 DEF Calls, CopyOnce
  <2>4. CopyRuns'
    BY <1>0 DEF Calls, CopyRuns
  <2> QED BY <2>1, <2>2, <2>3, <2>4 DEF Calls
<1>3. Refusals'
  <2>1. FlagsExact'
    BY <1>0, SMT DEF Refusals, FlagsExact
  <2>2. FlagsSeen'
    BY <1>0 DEF Refusals, FlagsSeen
  <2> QED BY <2>1, <2>2 DEF Refusals
<1>4. Responses'
  BY <1>0, SMT DEF Responses
<1> QED BY <1>1, <1>2, <1>3, <1>4

\* gem5 does not run past a scheduled event.
LEMMA AdvanceIInv == IInv /\ Advance => IInv'
<1> SUFFICES ASSUME IInv, Advance PROVE IInv'
  OBVIOUS
<1>0. /\ curTick \in Nat /\ cycle \in Nat /\ left \in Nat /\ clock \in Nat /\ MaxTick \in Nat
      /\ lastWakeup \in Nat /\ wake \in Nat \cup {None} /\ None \notin Nat
  BY MemoryAssumption, SMT DEF IInv, Types, TypeOK
<1>1. Types'
  <2>1. curTick' \in 0..MaxTick /\ lastWakeup' \in 0..curTick'
    BY <1>0, SMT DEF IInv, Types, TypeOK, Advance
  <2> QED BY <2>1 DEF IInv, Types, TypeOK, Advance, nvmain, requests, responses
<1>2. Clocks'
  <2>1. (cycle + left) * clock \in Nat
    BY <1>0, SMTT(30)
  <2>2. dumps = 0 => (cycle + left) * clock <= curTick + 1
    BY <1>0, <2>1, SMT DEF IInv, Clocks
  <2> QED BY <2>2 DEF IInv, Clocks, Advance, nvmain
<1>3. Wakeups'
  BY <1>0, SMT DEF IInv, Wakeups, Advance, nvmain, requests
<1>4. Requests' /\ Calls' /\ Refusals' /\ Responses'
  BY PacketsKept DEF IInv, Advance
<1> QED BY <1>1, <1>2, <1>3, <1>4 DEF IInv

\* tick hands NVMain the whole cycles since the last wakeup.
LEMMA TickIInv == IInv /\ Tick => IInv'
<1> SUFFICES ASSUME IInv, Tick PROVE IInv'
  BY SMT
<1>0. Elapsed \in Nat /\ (cycle * clock <= lastWakeup => (cycle + Elapsed) * clock <= curTick)
  BY ElapsedFits DEF IInv, Types
<1>1. Types'
  BY <1>0 DEF IInv, Types, TypeOK, Tick, time, requests, responses
<1>2. Clocks'
  BY <1>0, SMT DEF IInv, Clocks, Tick, Idle, time
<1>3. Wakeups'
  BY DEF Wakeups, Tick
<1>4. Requests' /\ Calls' /\ Refusals' /\ Responses'
  BY PacketsKept DEF IInv, Tick
<1> QED BY <1>1, <1>2, <1>3, <1>4, SMT DEF IInv

\* A statistics dump leaves the requests, the flags and the responses alone.
LEMMA DumpStatsIInv == IInv /\ DumpStats => IInv'
<1> SUFFICES ASSUME IInv, DumpStats PROVE IInv'
  BY SMT
<1>0. Elapsed \in Nat /\ MaxDumps \in Nat /\ dumps \in Nat
  BY ElapsedFits, MemoryAssumption, SMT DEF IInv, Types, TypeOK
<1>1. Types'
  BY <1>0, SMT DEF IInv, Types, TypeOK, DumpStats, time, requests, responses
<1>2. Clocks'
  BY <1>0, SMT DEF IInv, Clocks, DumpStats, Idle, time
<1>3. Wakeups'
  BY DEF IInv, Wakeups, DumpStats, Idle, time, requests
<1>4. Requests' /\ Calls' /\ Refusals' /\ Responses'
  BY PacketsKept, ZenonT(30) DEF IInv, DumpStats
<1> QED BY <1>1, <1>2, <1>3, <1>4, SMT DEF IInv

\* The cycles up to an event that was handled are taken from those Cycle has left.
LEMMA HandlerReturnsIInv == IInv /\ HandlerReturns => IInv'
<1> SUFFICES ASSUME IInv, HandlerReturns PROVE IInv'
  BY SMT
<1>0. /\ cycle \in Nat /\ left \in Nat /\ hop \in Nat /\ hop <= left /\ mode # "no"
      /\ cycle' = cycle + hop /\ left' = left - hop /\ hop' = 0
  BY SMT DEF IInv, Types, TypeOK, Clocks, HandlerReturns
<1>1. cycle' \in Nat /\ left' \in Nat /\ hop' \in Nat /\ cycle' + left' = cycle + left
  BY <1>0, SMT
<1>2. Types'
  BY <1>1 DEF IInv, Types, TypeOK, HandlerReturns, time, requests, responses
<1>3. Clocks'
  BY <1>0, <1>1, SMT DEF IInv, Clocks, HandlerReturns, time
<1>4. Wakeups'
  BY DEF IInv, Wakeups, HandlerReturns, time, requests
<1>5. Requests' /\ Calls' /\ Refusals' /\ Responses'
  BY PacketsKept, ZenonT(30) DEF IInv, HandlerReturns
<1> QED BY <1>2, <1>3, <1>4, <1>5, SMT DEF IInv

\* When Cycle returns, tick is scheduled for the next event NVMain has.
LEMMA CycleEndIInv == IInv /\ CycleEnd => IInv'
<1> SUFFICES ASSUME IInv, CycleEnd PROVE IInv'
  BY SMT
<1>0. /\ cycle \in Nat /\ left \in Nat /\ curTick \in Nat /\ clock \in Nat /\ None \notin Nat
      /\ mode \in {"tick", "dump"} /\ cycle' = cycle + left /\ left' = 0 /\ mode' = "no"
      /\ event' = event /\ master \in Ports
  BY MemoryAssumption, SMT DEF IInv, Types, TypeOK, CycleEnd, requests, master, Ports
<1>1. ASSUME NEW p \in Packets, event[p] # None
      PROVE  event[p] \in Nat /\ event[p] - cycle' \in Nat
  <2>1. event[p] \in Nat /\ Between(event[p]) > left
    BY <1>1 DEF IInv, Types, TypeOK, CycleEnd
  <2> QED BY <1>0, <2>1, SMT DEF Between
<1>2. \/ UNCHANGED <<wake, nextEventCycle>> /\ (mode = "tick" => \A p \in Packets : event[p] = None)
      \/ /\ wake' \in Nat /\ wake' >= curTick
         /\ \E t \in Nat : nextEventCycle' = [nextEventCycle EXCEPT ![master] = t]
  <2>1. CASE mode = "tick" /\ \E p \in Packets : event[p] # None
    <3>1. PICK p \in Packets : /\ event[p] # None
                               /\ wake' = curTick + clock * (event[p] - cycle')
                               /\ nextEventCycle' = [nextEventCycle EXCEPT ![master] = event[p]]
      BY <2>1 DEF CycleEnd, IsNextEvent
    <3>2. event[p] \in Nat /\ event[p] - cycle' \in Nat
      BY <1>1, <3>1
    <3>3. clock * (event[p] - cycle') \in Nat
      BY <1>0, <3>2, SMTT(30)
    <3>4. wake' \in Nat /\ wake' >= curTick
      BY <1>0, <3>1, <3>3, SMT
    <3> QED BY <3>1, <3>2, <3>4
  <2>2. CASE ~(mode = "tick" /\ \E p \in Packets : event[p] # None)
    BY <2>2 DEF CycleEnd
  <2> QED BY <2>1, <2>2
<1>3. Types'
  <2>1. wake' \in Nat \cup {None} /\ nextEventCycle' \in [Ports -> Nat]
    BY <1>0, <1>2, ZenonT(30) DEF IInv, Types, TypeOK
  <2>2. cycle' \in Nat /\ left' \in Nat /\ lastWakeup' \in 0..curTick
    BY <1>0, SMT DEF IInv, Types, TypeOK, CycleEnd
  <2> QED BY <1>0, <2>1, <2>2 DEF IInv, Types, TypeOK, CycleEnd, requests, responses
<1>4. Clocks'
  <2>1. hop' = 0 /\ dumps' = dumps /\ curTick' = curTick /\ cycle' + left' = cycle + left
    BY <1>0, SMT DEF CycleEnd
  <2>2. ASSUME dumps = 0 PROVE (cycle + left) * clock <= curTick /\ mode = "tick"
    BY <1>0, <2>2, SMT DEF IInv, Clocks
  <2>3. dumps = 0 => lastWakeup' = curTick
    BY <2>2 DEF CycleEnd
  <2> QED BY <1>0, <2>1, <2>2, <2>3, SMT DEF Clocks
<1>5. Wakeups'
  <2>1. wake' # None => wake' >= curTick'
    BY <1>2 DEF IInv, Wakeups, CycleEnd
  <2>2. (\E p \in Packets : event'[p] # None) => wake' # None
    BY <1>0, <1>2 DEF IInv, Wakeups
  <2> QED BY <2>1, <2>2 DEF Wakeups
<1>6. Requests' /\ Calls' /\ Refusals' /\ Responses'
  BY PacketsKept DEF IInv, CycleEnd
<1> QED BY <1>3, <1>4, <1>5, <1>6, SMT DEF IInv

\* The frames differ in what they are for.
LEMMA FramesDiffer ==
  /\ \A p \in Packets : FlagOf(p) \in {"read", "write"} /\ Port[p] \in Ports
  /\ \A p \in Packets : <<FlagOf(p), Port[p]>> \in Flags
  /\ \A p \in Packets : <<"finish", p>> \in Frames /\ <<"copy", p>> \in Frames
  /\ \A x \in Flags : \A p \in Packets : x # <<"finish", p>> /\ x # <<"copy", p>>
  /\ \A p, q \in Packets : /\ <<"finish", p>> # <<"copy", q>>
                           /\ <<"finish", p>> = <<"finish", q>> => p = q
                           /\ <<"copy", p>> = <<"copy", q>> => p = q
<1>1. \A p \in Packets : FlagOf(p) \in {"read", "write"} /\ Port[p] \in Ports
  BY MemoryAssumption DEF FlagOf, Ports
<1>2. \A p \in Packets : <<FlagOf(p), Port[p]>> \in Flags
  BY <1>1 DEF Flags
<1>3. \A p \in Packets : <<"finish", p>> \in Frames /\ <<"copy", p>> \in Frames
  BY DEF Frames
<1>4. \A x \in Flags : \A p \in Packets : x # <<"finish", p>> /\ x # <<"copy", p>>
  BY SMT DEF Flags
<1>5. \A p, q \in Packets : /\ <<"finish", p>> # <<"copy", q>>
                            /\ <<"finish", p>> = <<"finish", q>> => p = q
                            /\ <<"copy", p>> = <<"copy", q>> => p = q
  OBVIOUS
<1> QED BY <1>1, <1>2, <1>3, <1>4, <1>5

\* The responses are in order as long as no packet is answered and no queue changes.
LEMMA ResponsesKept ==
  ASSUME Responses, UNCHANGED responses,
         \A p \in Packets : pkt'[p] = "replied" <=> pkt[p] = "replied",
         responseQueue \in [Ports -> Seq(Packets)]
  PROVE  Responses'
<1>0. respond' = respond /\ retryResp' = retryResp /\ responseQueue' = responseQueue
  BY DEF responses
<1>1. \A i \in Ports : \A j \in 1..Len(responseQueue[i]) : responseQueue[i][j] \in Packets
  BY SMT
<1> QED BY <1>0, <1>1, SMT DEF Responses

\* A completion starts RequestComplete with the flags of every port to look at.
LEMMA HandleIInv ==
  ASSUME IInv, NEW p \in Packets, Handle(p)
  PROVE  IInv'
<1>0. /\ cycle \in Nat /\ left \in Nat /\ None \notin Nat /\ stack = <<>>
      /\ event \in [Packets -> Nat \cup {None}] /\ event[p] \in Nat /\ event[p] # None
      /\ p \in requestMap
  BY MemoryAssumption DEF IInv, Types, TypeOK, Requests, Handle, IsNextEvent
<1>1. hop' \in Nat /\ hop' <= left
  BY <1>0, SMT DEF Handle, Between
<1>2. CASE p \in queued
  <2>1. PICK t \in 1..Latency : event' = [event EXCEPT ![p] = cycle + hop' + t]
    BY <1>2 DEF Handle
  <2>2. cycle + hop' + t \in Nat
    <3>1. Latency \in Nat
      BY MemoryAssumption
    <3>2. t \in Nat
      BY <3>1, SMT
    <3>3. \A a, b, c \in Nat : a + b + c \in Nat
      BY SMT
    <3> QED BY <1>0, <1>1, <3>2, <3>3
  <2>3. /\ event' \in [Packets -> Nat \cup {None}] /\ event'[p] # None
        /\ \A q \in Packets : event'[q] # None <=> event[q] # None
    BY <1>0, <2>1, <2>2
  <2>4. stack' = <<>> /\ queued' \subseteq queued
    BY <1>0, <1>2 DEF Handle
  <2>5. Types'
    <3>1. queued' \subseteq Packets
      BY <2>4 DEF IInv, Types, TypeOK
    <3> QED BY <1>1, <2>3, <2>4, <3>1 DEF IInv, Types, TypeOK, Handle, time, responses
  <2>6. Clocks'
    BY <1>1 DEF IInv, Clocks, Handle, time
  <2>7. Wakeups'
    BY <1>0 DEF IInv, Wakeups, Handle, time
  <2>8. Requests'
    BY <2>3, <2>4, ZenonT(30) DEF IInv, Types, TypeOK, Requests, Handle
  <2>9. Calls'
    BY <1>0, <2>4, SMT DEF IInv, Calls, FinishLast, CopyAccepted, CopyOnce, CopyRuns, Handle
  <2>10. Refusals'
    <3>1. FlagsExact'
      BY SMTT(30) DEF IInv, Refusals, FlagsExact, Handle
    <3>2. FlagsSeen'
      BY <2>3 DEF FlagsSeen
    <3> QED BY <3>1, <3>2, ZenonT(30) DEF Refusals
  <2>11. Responses'
    BY ResponsesKept DEF IInv, Types, TypeOK, Handle
  <2> QED BY <2>5, <2>6, <2>7, <2>8, <2>9, <2>10, <2>11, ZenonT(30) DEF IInv
<1>3. CASE p \notin queued
  <2>1. event' = [event EXCEPT ![p] = None] /\ queued' = queued
    BY <1>3 DEF Handle
  <2>2. /\ event' \in [Packets -> Nat \cup {None}] /\ event'[p] = None
        /\ \A q \in Packets : q # p => event'[q] = event[q]
    BY <1>0, <2>1
  <2>3. /\ stack' \in Seq(Frames)
        /\ \A j \in 1..Len(stack') : \/ stack'[j] \in Flags
                                     \/ j = Len(stack') /\ stack'[j] = <<"finish", p>>
        /\ \A y \in Flags : \E j \in 1..Len(stack') : stack'[j] = y
    <3> DEFINE x == <<"finish", p>>
               c == Append(Retries, x)
               n == 2 * Instances + 1
    <3>1. x \in Frames
      BY FramesDiffer
    <3>2. stack' = c
      BY <1>3 DEF Handle
    <3> HIDE DEF x
    <3>3. /\ c \in Seq(Frames) /\ n \in Nat /\ Len(c) = n /\ c[n] = x
          /\ \A j \in 1..n : c[j] \in Flags \/ j = n
          /\ \A y \in Flags : \E j \in 1..n : c[j] = y
      BY <3>1, PushFrame
    <3> HIDE DEF c, n
    <3> QED BY <3>2, <3>3 DEF x
  <2>4. Types'
    BY <1>1, <2>1, <2>2, <2>3 DEF IInv, Types, TypeOK, Handle, time, responses
  <2>5. Clocks'
    BY <1>1 DEF IInv, Clocks, Handle, time
  <2>6. Wakeups'
    BY <1>0 DEF IInv, Wakeups, Handle, time
  <2>7. Requests'
    <3>1. \A q \in queued : q # p /\ q \in Packets
      BY <1>3 DEF IInv, Types, TypeOK
    <3> QED BY <2>1, <2>2, <3>1 DEF IInv, Requests, Handle
  <2>8. Calls'
    <3>1. FinishLast'
      BY <1>0, <2>2, <2>3, FramesDiffer, ZenonT(30) DEF FinishLast, Handle
    <3>2. CopyAccepted' /\ CopyOnce'
      BY <2>3, FramesDiffer DEF CopyAccepted, CopyOnce
    <3>3. CopyRuns'
      BY <1>0, SMT DEF IInv, Calls, CopyRuns, Handle
    <3> QED BY <3>1, <3>2, <3>3 DEF Calls
  <2>9. Refusals'
    <3>1. FlagsExact'
      BY SMT DEF IInv, Refusals, FlagsExact, Handle
    <3>2. FlagsSeen'
      BY <2>3, FramesDiffer DEF FlagsSeen
    <3> QED BY <3>1, <3>2, ZenonT(30) DEF Refusals
  <2>10. Responses'
    BY ResponsesKept DEF IInv, Types, TypeOK, Handle
  <2> QED BY <2>4, <2>5, <2>6, <2>7, <2>8, <2>9, <2>10 DEF IInv
<1> QED BY <1>2, <1>3

-----------------------------------------------------------------------------
\* Calls that return

\* RetryUnset, RetryLater, Finish and FinishCopy take the innermost call off the stack, and end
\* nothing but that call.
Pops ==
  /\ stack # <<>> /\ stack' = Tail(stack) /\ event' = event
  /\ \A p \in Packets : Kind[p] # "read" =>
       (pkt'[p] = "accepted" <=> pkt[p] = "accepted" /\ Head(stack) # <<"copy", p>>)
  /\ \A p \in requestMap : Head(stack) # <<"finish", p>> => p \in requestMap'

\* A call that returns leaves the calls under it as they were.
LEMMA PopKeeps ==
  ASSUME IInv, Pops
  PROVE  stack' \in Seq(Frames) /\ Calls'
<1>0. stack \in Seq(Frames)
  BY DEF IInv, Types
<1>1. /\ stack' \in Seq(Frames) /\ Len(stack') = Len(stack) - 1 /\ Len(stack) \in Nat
      /\ \A j \in 1..Len(stack') : j + 1 \in 1..Len(stack) /\ stack'[j] = stack[j + 1]
      /\ 1 \in 1..Len(stack) /\ Head(stack) = stack[1]
      /\ \A j \in 1..Len(stack) : j # 1 => j - 1 \in 1..Len(stack') /\ stack'[j - 1] = stack[j]
  BY <1>0, TailFrames DEF Pops
<1>2. FinishLast'
  <2> SUFFICES ASSUME NEW p \in Packets, NEW j \in 1..Len(stack'), stack'[j] = <<"finish", p>>
               PROVE  j = Len(stack') /\ p \in requestMap' /\ event[p] = None
    BY DEF FinishLast, Pops
  <2>1. j + 1 \in 1..Len(stack) /\ stack[j + 1] = <<"finish", p>>
    BY <1>1
  <2>2. j + 1 = Len(stack) /\ p \in requestMap /\ event[p] = None
    BY <2>1 DEF IInv, Calls, FinishLast
  <2>3. stack[1] # <<"finish", p>>
    <3>1. 1 # Len(stack)
      BY <1>1, SMTT(30)
    <3>2. stack[1] = <<"finish", p>> => 1 = Len(stack)
      BY <1>1 DEF IInv, Calls, FinishLast
    <3> QED BY <3>1, <3>2
  <2>4. p \in requestMap'
    BY <1>1, <2>2, <2>3 DEF Pops
  <2>5. j = Len(stack')
    BY <1>1, <2>2, SMT
  <2> QED BY <2>2, <2>4, <2>5
<1>3. CopyAccepted'
  <2> SUFFICES ASSUME NEW p \in Packets, NEW j \in 1..Len(stack'), stack'[j] = <<"copy", p>>
               PROVE  pkt'[p] = "accepted" /\ Kind[p] # "read"
    BY DEF CopyAccepted
  <2>1. j + 1 \in 1..Len(stack) /\ stack[j + 1] = <<"copy", p>>
    BY <1>1
  <2>2. pkt[p] = "accepted" /\ Kind[p] # "read"
    BY <2>1 DEF IInv, Calls, CopyAccepted
  <2>3. stack[1] # <<"copy", p>>
    <3> SUFFICES ASSUME stack[1] = <<"copy", p>> PROVE FALSE
      OBVIOUS
    <3>1. 1 = j + 1
      BY <1>1, <2>1 DEF IInv, Calls, CopyOnce
    <3> QED BY <1>1, <3>1, SMT
  <2> QED BY <1>1, <2>2, <2>3 DEF Pops
<1>4. CopyOnce'
  <2> SUFFICES ASSUME NEW p \in Packets, NEW j \in 1..Len(stack'), NEW k \in 1..Len(stack'),
                      stack'[j] = <<"copy", p>>, stack'[k] = <<"copy", p>>
               PROVE  j = k
    BY DEF CopyOnce
  <2>1. /\ j + 1 \in 1..Len(stack) /\ stack[j + 1] = <<"copy", p>>
        /\ k + 1 \in 1..Len(stack) /\ stack[k + 1] = <<"copy", p>>
    BY <1>1
  <2>2. j + 1 = k + 1
    BY <2>1 DEF IInv, Calls, CopyOnce
  <2> QED BY <1>1, <2>2, SMT
<1>5. CopyRuns'
  <2> SUFFICES ASSUME NEW p \in Packets, pkt'[p] = "accepted", Kind[p] # "read"
               PROVE  \E j \in 1..Len(stack') : stack'[j] = <<"copy", p>>
    BY DEF CopyRuns
  <2>1. pkt[p] = "accepted" /\ stack[1] # <<"copy", p>>
    BY <1>1 DEF Pops
  <2>2. PICK j \in 1..Len(stack) : stack[j] = <<"copy", p>>
    BY <2>1 DEF IInv, Calls, CopyRuns
  <2>3. j # 1
    BY <2>1, <2>2
  <2>4. j - 1 \in 1..Len(stack') /\ stack'[j - 1] = <<"copy", p>>
    BY <1>1, <2>2, <2>3
  <2> QED BY <2>4
<1> QED BY <1>1, <1>2, <1>3, <1>4, <1>5 DEF Calls

\* The flags that were still to be looked at are, except the one that just was.
LEMMA PopFlags ==
  ASSUME IInv, Pops,
         \A p \in Packets : pkt'[p] = "refused" =>
           pkt[p] = "refused" /\ Head(stack) # <<FlagOf(p), Port[p]>>
  PROVE  FlagsSeen'
<1>0. stack \in Seq(Frames)
  BY DEF IInv, Types
<1>1. /\ Head(stack) = stack[1]
      /\ \A j \in 1..Len(stack) : j # 1 => j - 1 \in 1..Len(stack') /\ stack'[j - 1] = stack[j]
  BY <1>0, TailFrames DEF Pops
<1> SUFFICES ASSUME NEW p \in Packets, pkt'[p] = "refused", \A q \in Packets : event[q] = None
             PROVE  \E j \in 1..Len(stack') : stack'[j] = <<FlagOf(p), Port[p]>>
  BY DEF FlagsSeen, Pops
<1>2. PICK j \in 1..Len(stack) : stack[j] = <<FlagOf(p), Port[p]>>
  BY DEF IInv, Refusals, FlagsSeen
<1>3. j # 1
  BY <1>1, <1>2
<1>4. j - 1 \in 1..Len(stack') /\ stack'[j - 1] = <<FlagOf(p), Port[p]>>
  BY <1>1, <1>2, <1>3
<1> QED BY <1>4

\* RequestComplete passes a port whose flag is not set.
LEMMA RetryUnsetIInv ==
  ASSUME IInv, NEW f \in {"read", "write"}, NEW i \in Ports, RetryUnset(f, i)
  PROVE  IInv'
<1>0. /\ stack # <<>> /\ Head(stack) = <<f, i>> /\ ~ retry[i][f] /\ stack' = Tail(stack)
      /\ time' = time /\ wake' = wake /\ nvmain' = nvmain /\ pkt' = pkt /\ retry' = retry
      /\ event' = event /\ queued' = queued /\ requestMap' = requestMap
      /\ UNCHANGED responses /\ nextEventCycle' = nextEventCycle
  BY DEF RetryUnset, requests
<1>1. Pops
  <2>1. \A p \in Packets : <<f, i>> # <<"copy", p>>
    OBVIOUS
  <2> QED BY <1>0, <2>1 DEF Pops
<1>2. stack' \in Seq(Frames) /\ Calls'
  BY <1>1, PopKeeps
<1>3. Types'
  BY <1>0, <1>2 DEF IInv, Types, TypeOK, time, nvmain, responses
<1>4. Clocks' /\ Wakeups'
  BY <1>0 DEF IInv, Clocks, Wakeups, time, nvmain
<1>5. Requests'
  BY <1>0, ZenonT(30) DEF IInv, Requests
<1>6. FlagsExact'
  BY <1>0, SMT DEF IInv, Refusals, FlagsExact
<1>7. FlagsSeen'
  <2>1. ASSUME NEW p \in Packets, pkt[p] = "refused" PROVE <<f, i>> # <<FlagOf(p), Port[p]>>
    BY <1>0, <2>1, SMT DEF IInv, Refusals, FlagsExact
  <2> QED BY <1>0, <1>1, <2>1, PopFlags, ZenonT(30)
<1>8. Responses'
  BY <1>0, ResponsesKept DEF IInv, Types, TypeOK
<1> QED BY <1>2, <1>3, <1>4, <1>5, <1>6, <1>7, <1>8, ZenonT(30) DEF IInv, Refusals

\* If the peer will send later, its flag is down and its packet is no longer refused.
LEMMA RetryLaterIInv ==
  ASSUME IInv, NEW f \in {"read", "write"}, NEW i \in Ports, RetryLater(f, i)
  PROVE  IInv'
<1>0. /\ stack # <<>> /\ Head(stack) = <<f, i>> /\ retry[i][f] /\ stack' = Tail(stack)
      /\ time' = time /\ wake' = wake /\ nvmain' = nvmain
      /\ retry' = [retry EXCEPT ![i][f] = FALSE]
      /\ event' = event /\ queued' = queued /\ requestMap' = requestMap
      /\ UNCHANGED responses /\ nextEventCycle' = nextEventCycle
  BY DEF RetryLater, requests
<1>1. pkt' = [p \in Packets |-> IF pkt[p] = "refused" /\ Port[p] = i THEN "new" ELSE pkt[p]]
  BY DEF RetryLater
<1>2. \A p \in Packets : \/ pkt'[p] = pkt[p] /\ (pkt[p] = "refused" => Port[p] # i)
                         \/ pkt'[p] = "new" /\ pkt[p] = "refused" /\ Port[p] = i
  BY <1>1
<1>3. Pops
  <2>1. \A p \in Packets : <<f, i>> # <<"copy", p>>
    BY SMT
  <2> QED BY <1>0, <1>2, <2>1 DEF Pops
<1>4. stack' \in Seq(Frames) /\ Calls'
  BY <1>3, PopKeeps, SMT
<1>5. Types'
  <2>1. pkt' \in [Packets -> {"new", "refused", "accepted", "replied", "done"}]
    BY <1>1 DEF IInv, Types, TypeOK
  <2>2. retry' \in [Ports -> [read : BOOLEAN, write : BOOLEAN]]
    BY <1>0, ZenonT(30) DEF IInv, Types, TypeOK
  <2> QED BY <1>0, <1>4, <2>1, <2>2 DEF IInv, Types, TypeOK, time, nvmain, responses
<1>6. Clocks' /\ Wakeups'
  BY <1>0 DEF IInv, Clocks, Wakeups, time, nvmain
<1>7. Requests'
  BY <1>0, <1>2 DEF IInv, Requests
<1>8. FlagsExact'
  <2>1. PICK r \in Packets : pkt[r] = "refused" /\ Port[r] = i /\ FlagOf(r) = f
    BY <1>0, SMT DEF IInv, Refusals, FlagsExact
  <2>2. \A k \in Ports, g \in {"read", "write"} :
          retry'[k][g] <=> retry[k][g] /\ ~(k = i /\ g = f)
    BY <1>0 DEF IInv, Types, TypeOK
  <2>3. ASSUME NEW k \in Ports, NEW g \in {"read", "write"}, retry'[k][g]
        PROVE  \E p \in Packets : pkt'[p] = "refused" /\ Port[p] = k /\ FlagOf(p) = g
    <3>1. retry[k][g] /\ ~(k = i /\ g = f)
      BY <2>2, <2>3
    <3>2. PICK p \in Packets : pkt[p] = "refused" /\ Port[p] = k /\ FlagOf(p) = g
      BY <3>1, SMT DEF IInv, Refusals, FlagsExact
    <3>3. k # i
      BY <2>1, <3>1, <3>2, ZenonT(30) DEF IInv, Refusals, FlagsExact
    <3> QED BY <1>2, <3>2, <3>3
  <2>4. ASSUME NEW p \in Packets, pkt'[p] = "refused" PROVE retry'[Port[p]][FlagOf(p)]
    <3>1. pkt[p] = "refused" /\ Port[p] # i
      BY <1>2, <2>4
    <3>2. Port[p] \in Ports /\ FlagOf(p) \in {"read", "write"}
      BY FramesDiffer
    <3>3. retry[Port[p]][FlagOf(p)]
      BY <3>1 DEF IInv, Refusals, FlagsExact
    <3> QED BY <2>2, <3>1, <3>2, <3>3
  <2>5. ASSUME NEW p \in Packets, NEW q \in Packets,
               pkt'[p] = "refused", pkt'[q] = "refused", Port[p] = Port[q]
        PROVE  p = q
    BY <1>2, <2>5, SMT DEF IInv, Refusals, FlagsExact
  <2> QED BY <2>3, <2>4, <2>5, ZenonT(30) DEF FlagsExact
<1>9. FlagsSeen'
  <2>1. ASSUME NEW p \in Packets, pkt'[p] = "refused"
        PROVE  pkt[p] = "refused" /\ <<f, i>> # <<FlagOf(p), Port[p]>>
    BY <1>2, <2>1
  <2> QED BY <1>0, <1>3, <2>1, PopFlags
<1>10. Responses'
  BY <1>0, <1>2, ResponsesKept DEF IInv, Types, TypeOK
<1> QED BY <1>4, <1>5, <1>6, <1>7, <1>8, <1>9, <1>10, SMT DEF IInv, Refusals

-----------------------------------------------------------------------------
\* Responses

\* ScheduleResponse puts a packet in the queue that is not there, and sees to respondEvent.
LEMMA RespondKeeps ==
  ASSUME IInv, NEW p \in Packets, pkt[p] # "replied", Kind[p] # "writeback", Respond(p)
  PROVE  /\ responseQueue' \in [Ports -> Seq(Packets)] /\ respond' \in [Ports -> Nat \cup {None}]
         /\ retryResp' = retryResp
         /\ pkt' \in [Packets -> {"new", "refused", "accepted", "replied", "done"}]
         /\ pkt'[p] = "replied" /\ \A q \in Packets : q # p => pkt'[q] = pkt[q]
         /\ Responses'
<1> DEFINE i == Port[p]
           n == Len(responseQueue[i])
<1>0. /\ i \in Ports /\ None \notin Nat /\ curTick + clock \in Nat /\ n \in Nat
      /\ responseQueue \in [Ports -> Seq(Packets)] /\ respond \in [Ports -> Nat \cup {None}]
  <2>1. curTick \in Nat /\ clock \in Nat
    BY MemoryAssumption, SMT DEF IInv, Types, TypeOK
  <2>2. responseQueue \in [Ports -> Seq(Packets)] /\ respond \in [Ports -> Nat \cup {None}]
    BY DEF IInv, Types, TypeOK
  <2>3. i \in Ports /\ None \notin Nat
    BY MemoryAssumption, FramesDiffer
  <2> QED BY <2>1, <2>2, <2>3, SMT
<1> HIDE DEF i
<1>1. /\ responseQueue' = [responseQueue EXCEPT ![i] = Append(@, p)]
      /\ respond' = [respond EXCEPT ![i] = IF @ = None THEN curTick + clock ELSE @]
      /\ pkt' = [pkt EXCEPT ![p] = "replied"]
      /\ retryResp' = retryResp
  BY DEF Respond, i
<1>2. responseQueue' \in [Ports -> Seq(Packets)] /\ respond' \in [Ports -> Nat \cup {None}]
  BY <1>0, <1>1, SMT
<1>3. /\ pkt' \in [Packets -> {"new", "refused", "accepted", "replied", "done"}]
      /\ pkt'[p] = "replied" /\ \A q \in Packets : q # p => pkt'[q] = pkt[q]
  BY <1>1 DEF IInv, Types, TypeOK
<1>4. /\ \A k \in Ports : k # i => responseQueue'[k] = responseQueue[k] /\ respond'[k] = respond[k]
      /\ responseQueue'[i] = Append(responseQueue[i], p) /\ respond'[i] # None
  BY <1>0, <1>1
<1>5. /\ Len(responseQueue'[i]) = n + 1 /\ responseQueue'[i][n + 1] = p
      /\ \A j \in 1..n : responseQueue'[i][j] = responseQueue[i][j]
  BY <1>0, <1>4, SMTT(30)
<1>6. \A k \in Ports : \A j \in 1..Len(responseQueue[k]) :
        /\ responseQueue[k][j] \in Packets /\ responseQueue[k][j] # p
        /\ pkt'[responseQueue[k][j]] = "replied" /\ Port[responseQueue[k][j]] = k
  <2>1. \A k \in Ports : \A j \in 1..Len(responseQueue[k]) : responseQueue[k][j] \in Packets
    BY <1>0, SMTT(30)
  <2> QED BY <1>3, <2>1, SMT DEF IInv, Responses
<1>7. ASSUME NEW k \in Ports, NEW j \in 1..Len(responseQueue'[k])
      PROVE  pkt'[responseQueue'[k][j]] = "replied" /\ Port[responseQueue'[k][j]] = k
  <2>1. CASE k # i
    BY <1>4, <1>6, <2>1, SMTT(30)
  <2>2. CASE k = i /\ j \in 1..n
    BY <1>5, <1>6, <2>2, SMTT(30)
  <2>3. CASE k = i /\ j = n + 1
    BY <1>3, <1>5, <2>3 DEF i
  <2> QED BY <1>0, <1>5, <2>1, <2>2, <2>3, SMTT(30)
<1>8. ASSUME NEW k \in Ports, NEW j \in 1..Len(responseQueue'[k]),
             NEW l \in 1..Len(responseQueue'[k]), responseQueue'[k][j] = responseQueue'[k][l]
      PROVE  j = l
  <2>1. CASE k # i
    BY <1>4, <1>8, <2>1, SMTT(30) DEF IInv, Responses
  <2>2. CASE k = i
    <3>1. (j \in 1..n \/ j = n + 1) /\ (l \in 1..n \/ l = n + 1)
      BY <1>0, <1>5, <2>2, SMTT(30)
    <3>2. CASE j \in 1..n /\ l \in 1..n
      <4>1. responseQueue[i][j] = responseQueue[i][l]
        BY <1>5, <1>8, <2>2, <3>2, ZenonT(30)
      <4> QED BY <1>0, <3>2, <4>1 DEF IInv, Responses
    <3>3. CASE j \in 1..n /\ l = n + 1
      BY <1>5, <1>6, <1>8, <2>2, <3>3, SMTT(30)
    <3>4. CASE j = n + 1 /\ l \in 1..n
      BY <1>5, <1>6, <1>8, <2>2, <3>4, SMTT(30)
    <3> QED BY <3>1, <3>2, <3>3, <3>4, ZenonT(30)
  <2> QED BY <2>1, <2>2, ZenonT(30)
<1>9. ASSUME NEW q \in Packets, pkt'[q] = "replied"
      PROVE  /\ Kind[q] # "writeback"
             /\ \E j \in 1..Len(responseQueue'[Port[q]]) : responseQueue'[Port[q]][j] = q
  <2>1. CASE q = p
    <3>1. n + 1 \in 1..Len(responseQueue'[i]) /\ responseQueue'[i][n + 1] = q
      BY <1>0, <1>5, <2>1, SMTT(30)
    <3> QED BY <2>1, <3>1, ZenonT(30) DEF i
  <2>2. CASE q # p
    <3>1. pkt[q] = "replied" /\ Port[q] \in Ports
      BY <1>3, <1>9, <2>2, FramesDiffer
    <3>2. PICK j \in 1..Len(responseQueue[Port[q]]) : responseQueue[Port[q]][j] = q
      BY <3>1 DEF IInv, Responses
    <3>3. j \in 1..Len(responseQueue'[Port[q]]) /\ responseQueue'[Port[q]][j] = q
      <4>1. CASE Port[q] # i
        BY <1>4, <3>1, <3>2, <4>1
      <4>2. CASE Port[q] = i
        <5>1. j \in 1..n /\ responseQueue[i][j] = q
          BY <3>2, <4>2, ZenonT(30)
        <5>2. j \in 1..n + 1 /\ responseQueue'[i][j] = q
          BY <1>0, <1>5, <5>1, SMTT(30)
        <5> QED BY <1>5, <4>2, <5>2
      <4> QED BY <4>1, <4>2
    <3> QED BY <3>1, <3>3 DEF IInv, Responses
  <2> QED BY <2>1, <2>2
<1>10. ASSUME NEW k \in Ports
       PROVE  /\ respond'[k] # None \/ retryResp'[k] <=> Len(responseQueue'[k]) > 0
              /\ respond'[k] # None /\ retryResp'[k] => Len(responseQueue'[k]) > 1
  <2>0. /\ respond[k] # None \/ retryResp[k] <=> Len(responseQueue[k]) > 0
        /\ respond[k] # None /\ retryResp[k] => Len(responseQueue[k]) > 1
    BY DEF IInv, Responses
  <2>1. CASE k # i
    BY <1>1, <1>4, <2>0, <2>1
  <2>2. CASE k = i
    <3>1. n + 1 > 0 /\ (retryResp[i] => n + 1 > 1)
      BY <1>0, <2>0, <2>2, SMTT(30)
    <3> QED BY <1>1, <1>4, <1>5, <2>2, <3>1, ZenonT(30)
  <2> QED BY <2>1, <2>2
<1>11. Responses'
  BY <1>7, <1>8, <1>9, <1>10 DEF Responses
<1> QED BY <1>1, <1>2, <1>3, <1>11

\* SendResponses sends the first response or keeps it until the peer asks again.
LEMMA SendFirstKeeps ==
  ASSUME IInv, NEW i \in Ports, NEW scheduled \in Nat \cup {None},
         Len(responseQueue[i]) > 0, scheduled # None => Len(responseQueue[i]) > 1,
         SendFirst(i, scheduled)
  PROVE  /\ responseQueue' \in [Ports -> Seq(Packets)] /\ respond' \in [Ports -> Nat \cup {None}]
         /\ retryResp' \in [Ports -> BOOLEAN]
         /\ pkt' \in [Packets -> {"new", "refused", "accepted", "replied", "done"}]
         /\ \A q \in Packets : pkt'[q] = pkt[q] \/ (pkt[q] = "replied" /\ pkt'[q] = "done")
         /\ Responses'
<1> DEFINE s == responseQueue[i]
           h == Head(s)
<1>0. /\ responseQueue \in [Ports -> Seq(Packets)] /\ respond \in [Ports -> Nat \cup {None}]
      /\ retryResp \in [Ports -> BOOLEAN] /\ s \in Seq(Packets) /\ s # <<>>
      /\ pkt \in [Packets -> {"new", "refused", "accepted", "replied", "done"}]
  BY SMT DEF IInv, Types, TypeOK
<1>1. None \notin Nat /\ curTick + clock \in Nat
  <2>1. curTick \in Nat /\ clock \in Nat
    BY MemoryAssumption, SMT DEF IInv, Types, TypeOK
  <2> QED BY <2>1, MemoryAssumption, SMT
<1>2. /\ h \in Packets /\ Len(s) \in Nat /\ 1 \in 1..Len(s) /\ h = s[1]
      /\ Tail(s) \in Seq(Packets) /\ Len(Tail(s)) = Len(s) - 1
      /\ \A j \in 1..Len(s) - 1 : j + 1 \in 1..Len(s) /\ Tail(s)[j] = s[j + 1]
      /\ \A j \in 1..Len(s) : s[j] \in Packets
  BY <1>0, SMT
<1>3. \A k \in Ports : k # i => /\ respond'[k] = respond[k] /\ retryResp'[k] = retryResp[k]
                                /\ responseQueue'[k] = responseQueue[k]
  BY <1>0 DEF SendFirst
<1>4. \A k \in Ports : /\ respond[k] # None \/ retryResp[k] <=> Len(responseQueue[k]) > 0
                       /\ respond[k] # None /\ retryResp[k] => Len(responseQueue[k]) > 1
  BY ZenonT(30) DEF IInv, Responses
<1>5. pkt[h] = "replied" /\ Port[h] = i
  BY <1>2, SMT DEF IInv, Responses
<1>6. CASE /\ retryResp' = [retryResp EXCEPT ![i] = TRUE]
           /\ respond' = [respond EXCEPT ![i] = scheduled]
           /\ UNCHANGED <<responseQueue, pkt>>
  <2>1. retryResp' \in [Ports -> BOOLEAN] /\ respond' \in [Ports -> Nat \cup {None}]
    BY <1>0, <1>6
  <2>2. retryResp'[i] /\ respond'[i] = scheduled
    BY <1>0, <1>6
  <2>3. \A k \in Ports : /\ respond'[k] # None \/ retryResp'[k] <=> Len(responseQueue[k]) > 0
                         /\ respond'[k] # None /\ retryResp'[k] => Len(responseQueue[k]) > 1
    BY <1>3, <1>4, <2>2, ZenonT(30)
  <2>4. Responses'
    BY <1>6, <2>3, SMTT(30) DEF IInv, Responses
  <2> QED BY <1>0, <1>6, <2>1, <2>4
<1>7. CASE /\ responseQueue' = [responseQueue EXCEPT ![i] = Tail(@)]
           /\ pkt' = [pkt EXCEPT ![Head(responseQueue[i])] = "done"]
           /\ respond' = [respond EXCEPT ![i] = IF scheduled = None /\ Len(responseQueue[i]) > 1
                                                THEN curTick + clock
                                                ELSE scheduled]
           /\ retryResp' = [retryResp EXCEPT ![i] = FALSE]
  <2>1. /\ responseQueue'[i] = Tail(s) /\ retryResp'[i] = FALSE
        /\ respond'[i] # None <=> Len(s) > 1
    BY <1>0, <1>1, <1>7
  <2>2. pkt'[h] = "done" /\ \A q \in Packets : q # h => pkt'[q] = pkt[q]
    BY <1>0, <1>2, <1>7
  <2>3. responseQueue' \in [Ports -> Seq(Packets)] /\ respond' \in [Ports -> Nat \cup {None}]
    BY <1>0, <1>1, <1>2, <1>7, ZenonT(30)
  <2>4. /\ retryResp' \in [Ports -> BOOLEAN]
        /\ pkt' \in [Packets -> {"new", "refused", "accepted", "replied", "done"}]
    BY <1>0, <1>2, <1>7
  <2> HIDE DEF s, h
  <2>5. \A j \in 1..Len(s) : j # 1 => s[j] # h
    BY <1>2, ZenonT(30) DEF IInv, Responses, s
  <2>6. ASSUME NEW k \in Ports, NEW j \in 1..Len(responseQueue'[k])
        PROVE  \E l \in 1..Len(responseQueue[k]) :
                 /\ responseQueue'[k][j] = responseQueue[k][l] /\ responseQueue[k][l] # h
                 /\ l = IF k = i THEN j + 1 ELSE j
    <3>1. CASE k = i
      <4>1. j \in 1..Len(s) - 1
        BY <1>2, <2>1, <3>1, ZenonT(30)
      <4>2. j + 1 \in 1..Len(s) /\ Tail(s)[j] = s[j + 1] /\ j + 1 # 1
        BY <1>2, <4>1, SMTT(30)
      <4> QED BY <2>1, <2>5, <3>1, <4>2 DEF s
    <3>2. CASE k # i
      <4>1. responseQueue'[k] = responseQueue[k]
        BY <1>3, <3>2
      <4>2. Port[responseQueue[k][j]] = k
        BY <4>1, ZenonT(30) DEF IInv, Responses
      <4> QED BY <1>5, <3>2, <4>1, <4>2, ZenonT(30)
    <3> QED BY <3>1, <3>2
  <2>7. ASSUME NEW k \in Ports, NEW j \in 1..Len(responseQueue'[k])
        PROVE  pkt'[responseQueue'[k][j]] = "replied" /\ Port[responseQueue'[k][j]] = k
    <3>1. PICK l \in 1..Len(responseQueue[k]) :
            responseQueue'[k][j] = responseQueue[k][l] /\ responseQueue[k][l] # h
      BY <2>6
    <3>2. responseQueue[k][l] \in Packets
      BY <1>0, SMT
    <3> QED BY <2>2, <3>1, <3>2, SMTT(30) DEF IInv, Responses
  <2>8. ASSUME NEW k \in Ports, NEW j \in 1..Len(responseQueue'[k]),
               NEW l \in 1..Len(responseQueue'[k]), responseQueue'[k][j] = responseQueue'[k][l]
        PROVE  j = l
    <3> DEFINE At(m) == IF k = i THEN m + 1 ELSE m
    <3>1. /\ At(j) \in 1..Len(responseQueue[k]) /\ responseQueue'[k][j] = responseQueue[k][At(j)]
          /\ At(l) \in 1..Len(responseQueue[k]) /\ responseQueue'[k][l] = responseQueue[k][At(l)]
      BY <2>6, SMTT(30)
    <3>2. responseQueue[k][At(j)] = responseQueue[k][At(l)]
      BY <2>8, <3>1
    <3>3. At(j) = At(l)
      <4> HIDE DEF At
      <4> QED BY <3>1, <3>2 DEF IInv, Responses
    <3> QED BY <3>3, SMT
  <2>9. ASSUME NEW q \in Packets, pkt'[q] = "replied"
        PROVE  /\ Kind[q] # "writeback"
               /\ \E j \in 1..Len(responseQueue'[Port[q]]) : responseQueue'[Port[q]][j] = q
    <3>1. pkt[q] = "replied" /\ q # h /\ Port[q] \in Ports
      BY <2>2, <2>9, FramesDiffer
    <3>2. PICK j \in 1..Len(responseQueue[Port[q]]) : responseQueue[Port[q]][j] = q
      BY <3>1 DEF IInv, Responses
    <3>3. CASE Port[q] # i
      BY <1>3, <3>1, <3>2, <3>3, ZenonT(30) DEF IInv, Responses
    <3>4. CASE Port[q] = i
      <4>1. j \in 1..Len(s) /\ s[j] = q /\ j # 1
        BY <1>2, <3>1, <3>2, <3>4, ZenonT(30) DEF s
      <4>2. j - 1 \in 1..Len(s) - 1 /\ Tail(s)[j - 1] = s[(j - 1) + 1] /\ (j - 1) + 1 = j
        BY <1>2, <4>1, SMTT(30)
      <4>3. j - 1 \in 1..Len(responseQueue'[i]) /\ responseQueue'[i][j - 1] = q
        BY <1>2, <2>1, <4>1, <4>2, ZenonT(30)
      <4> QED BY <3>1, <3>4, <4>3 DEF IInv, Responses
    <3> QED BY <3>3, <3>4
  <2>10. \A k \in Ports : /\ respond'[k] # None \/ retryResp'[k] <=> Len(responseQueue'[k]) > 0
                          /\ respond'[k] # None /\ retryResp'[k] => Len(responseQueue'[k]) > 1
    <3>1. Len(responseQueue'[i]) > 0 <=> Len(s) > 1
      BY <1>2, <2>1, SMTT(30)
    <3> QED BY <1>3, <1>4, <2>1, <3>1, ZenonT(30)
  <2>11. Responses'
    BY <2>7, <2>8, <2>9, <2>10, ZenonT(30) DEF Responses
  <2> QED BY <1>5, <2>2, <2>3, <2>4, <2>11, ZenonT(30)
<1> QED BY <1>6, <1>7, ZenonT(30) DEF SendFirst

-----------------------------------------------------------------------------
\* A packet that is answered

\* The clocks and the wakeup hold when neither is touched.
LEMMA TimeKept ==
  ASSUME Clocks, Wakeups, UNCHANGED <<time, wake, nvmain>>, event' = event
  PROVE  Clocks' /\ Wakeups'
BY DEF Clocks, Wakeups, time, nvmain

\* The flags are exact when neither they nor the refused packets change.
LEMMA FlagsKept ==
  ASSUME FlagsExact, retry' = retry,
         \A p \in Packets : pkt'[p] = "refused" <=> pkt[p] = "refused"
  PROVE  FlagsExact'
BY SMT DEF FlagsExact

\* At its end RequestComplete answers the packet and deletes the request.
LEMMA FinishIInv ==
  ASSUME IInv, NEW p \in Packets, Finish(p)
  PROVE  IInv'
<1>0. /\ stack # <<>> /\ Head(stack) = <<"finish", p>> /\ stack' = Tail(stack)
      /\ requestMap' = requestMap \ {p} /\ event' = event /\ queued' = queued /\ retry' = retry
      /\ UNCHANGED <<time, wake, nvmain>> /\ nextEventCycle' = nextEventCycle
  BY DEF Finish
<1>1. p \in requestMap /\ event[p] = None
  <2>1. 1 \in 1..Len(stack) /\ stack[1] = <<"finish", p>>
    BY <1>0, TailFrames DEF IInv, Types
  <2> QED BY <2>1 DEF IInv, Calls, FinishLast
<1>2. Kind[p] = "read" => pkt[p] = "accepted"
  BY <1>1 DEF IInv, Requests
<1>3. /\ responseQueue' \in [Ports -> Seq(Packets)] /\ respond' \in [Ports -> Nat \cup {None}]
      /\ retryResp' \in [Ports -> BOOLEAN]
      /\ pkt' \in [Packets -> {"new", "refused", "accepted", "replied", "done"}]
      /\ \A q \in Packets : q # p => pkt'[q] = pkt[q]
      /\ IF Kind[p] = "read" THEN pkt'[p] = "replied" ELSE pkt'[p] = pkt[p]
      /\ Responses'
  <2>1. CASE Kind[p] = "read"
    <3>1. Respond(p) /\ pkt[p] # "replied" /\ Kind[p] # "writeback"
      BY <1>2, <2>1 DEF Finish
    <3> QED BY <2>1, <3>1, RespondKeeps DEF IInv, Types, TypeOK
  <2>2. CASE Kind[p] # "read"
    <3>1. UNCHANGED responses /\ pkt' = pkt
      BY <2>2 DEF Finish
    <3>2. Responses'
      BY <3>1, ResponsesKept DEF IInv, Types, TypeOK
    <3> QED BY <2>2, <3>1, <3>2 DEF IInv, Types, TypeOK, responses
  <2> QED BY <2>1, <2>2
<1>4. Pops
  BY <1>0, <1>2, <1>3, FramesDiffer DEF Pops
<1>5. stack' \in Seq(Frames) /\ Calls'
  BY <1>4, PopKeeps
<1>6. Types'
  <2>1. requestMap' \subseteq Packets
    BY <1>0 DEF IInv, Types, TypeOK
  <2> QED BY <1>0, <1>3, <1>5, <2>1, ZenonT(30) DEF IInv, Types, TypeOK, time, nvmain
<1>7. Clocks' /\ Wakeups'
  BY <1>0, TimeKept DEF IInv
<1>8. Requests'
  <2>1. \A q \in Packets : q \in requestMap' <=> q \in requestMap /\ q # p
    BY <1>0
  <2> QED BY <1>0, <1>1, <1>2, <1>3, <2>1, ZenonT(30) DEF IInv, Requests
<1>9. \A q \in Packets : pkt'[q] = "refused" <=> pkt[q] = "refused"
  BY <1>2, <1>3
<1>10. FlagsExact'
  BY <1>0, <1>9, FlagsKept DEF IInv, Refusals
<1>11. FlagsSeen'
  BY <1>0, <1>4, <1>9, PopFlags, FramesDiffer, ZenonT(30)
<1> QED BY <1>3, <1>5, <1>6, <1>7, <1>8, <1>10, <1>11, ZenonT(30) DEF IInv, Refusals

\* A write is answered when recvTimingReq returns, once.
LEMMA FinishCopyIInv ==
  ASSUME IInv, NEW p \in Packets, FinishCopy(p)
  PROVE  IInv'
<1>0. /\ stack # <<>> /\ Head(stack) = <<"copy", p>> /\ stack' = Tail(stack)
      /\ requestMap' = requestMap /\ event' = event /\ queued' = queued /\ retry' = retry
      /\ UNCHANGED <<time, wake, nvmain>> /\ nextEventCycle' = nextEventCycle
  BY DEF FinishCopy, requests
<1>1. pkt[p] = "accepted" /\ Kind[p] # "read"
  <2>1. 1 \in 1..Len(stack) /\ stack[1] = <<"copy", p>>
    BY <1>0, TailFrames DEF IInv, Types
  <2> QED BY <2>1 DEF IInv, Calls, CopyAccepted
<1>2. /\ responseQueue' \in [Ports -> Seq(Packets)] /\ respond' \in [Ports -> Nat \cup {None}]
      /\ retryResp' \in [Ports -> BOOLEAN]
      /\ pkt' \in [Packets -> {"new", "refused", "accepted", "replied", "done"}]
      /\ \A q \in Packets : q # p => pkt'[q] = pkt[q]
      /\ pkt'[p] \in {"replied", "done"}
      /\ Responses'
  <2>1. CASE Kind[p] = "write"
    <3>1. Respond(p) /\ pkt[p] # "replied" /\ Kind[p] # "writeback"
      BY <1>1, <2>1 DEF FinishCopy
    <3> QED BY <3>1, RespondKeeps DEF IInv, Types, TypeOK
  <2>2. CASE Kind[p] # "write"
    <3>1. UNCHANGED responses /\ pkt' = [pkt EXCEPT ![p] = "done"]
      BY <2>2 DEF FinishCopy
    <3>2. /\ pkt' \in [Packets -> {"new", "refused", "accepted", "replied", "done"}]
          /\ \A q \in Packets : q # p => pkt'[q] = pkt[q]
          /\ pkt'[p] = "done"
      BY <3>1 DEF IInv, Types, TypeOK
    <3>3. Responses'
      BY <1>1, <3>1, <3>2, ResponsesKept, ZenonT(30) DEF IInv, Types, TypeOK
    <3> QED BY <3>1, <3>2, <3>3 DEF IInv, Types, TypeOK, responses
  <2> QED BY <2>1, <2>2
<1>3. Pops
  BY <1>0, <1>2, FramesDiffer DEF Pops
<1>4. stack' \in Seq(Frames) /\ Calls'
  BY <1>3, PopKeeps, SMT
<1>5. Types'
  BY <1>0, <1>2, <1>4 DEF IInv, Types, TypeOK, time, nvmain
<1>6. Clocks' /\ Wakeups'
  BY <1>0, TimeKept DEF IInv
<1>7. Requests'
  BY <1>0, <1>1, <1>2 DEF IInv, Requests
<1>8. \A q \in Packets : pkt'[q] = "refused" <=> pkt[q] = "refused"
  BY <1>1, <1>2
<1>9. FlagsExact'
  BY <1>0, <1>8, FlagsKept DEF IInv, Refusals
<1>10. FlagsSeen'
  BY <1>0, <1>3, <1>8, PopFlags, FramesDiffer, ZenonT(30)
<1> QED BY <1>2, <1>4, <1>5, <1>6, <1>7, <1>9, <1>10, ZenonT(30) DEF IInv, Refusals

\* Responses do not touch the requests.
LEMMA RequestsKept ==
  ASSUME Requests, Calls, Refusals, UNCHANGED <<stack, requests, retry>>,
         \A p \in Packets : /\ pkt'[p] = "accepted" <=> pkt[p] = "accepted"
                            /\ pkt'[p] = "refused" <=> pkt[p] = "refused"
                            /\ pkt'[p] = "new" => pkt[p] = "new"
  PROVE  Requests' /\ Calls' /\ Refusals'
<1>0. /\ stack' = stack /\ event' = event /\ queued' = queued /\ requestMap' = requestMap
      /\ retry' = retry
  BY DEF requests
<1>1. Requests'
  BY <1>0 DEF Requests
<1>2. FinishLast' /\ CopyOnce'
  BY <1>0 DEF Calls, FinishLast, CopyOnce
<1>3. CopyAccepted'
  BY <1>0 DEF Calls, CopyAccepted
<1>4. CopyRuns'
  BY <1>0 DEF Calls, CopyRuns
<1>5. FlagsExact'
  BY <1>0, FlagsKept DEF Refusals
<1>6. FlagsSeen'
  BY <1>0 DEF Refusals, FlagsSeen
<1> QED BY <1>1, <1>2, <1>3, <1>4, <1>5, <1>6, ZenonT(30) DEF Calls, Refusals

\* A packet that is neither a read nor a write is answered at once.
LEMMA SendOtherIInv ==
  ASSUME IInv, NEW p \in Packets, SendOther(p)
  PROVE  IInv'
<1>0. /\ pkt[p] = "new" /\ Kind[p] = "other" /\ Respond(p)
      /\ UNCHANGED <<time, wake, nvmain>> /\ UNCHANGED <<stack, requests, retry>>
      /\ nextEventCycle' = nextEventCycle
  BY DEF SendOther, MaySend
<1>1. /\ responseQueue' \in [Ports -> Seq(Packets)] /\ respond' \in [Ports -> Nat \cup {None}]
      /\ retryResp' = retryResp
      /\ pkt' \in [Packets -> {"new", "refused", "accepted", "replied", "done"}]
      /\ pkt'[p] = "replied" /\ \A q \in Packets : q # p => pkt'[q] = pkt[q]
      /\ Responses'
  BY <1>0, RespondKeeps
<1>2. Types'
  BY <1>0, <1>1 DEF IInv, Types, TypeOK, time, nvmain, requests
<1>3. Clocks' /\ Wakeups'
  BY <1>0, TimeKept DEF IInv, requests
<1>4. Requests' /\ Calls' /\ Refusals'
  BY <1>0, <1>1, RequestsKept DEF IInv
<1> QED BY <1>1, <1>2, <1>3, <1>4, ZenonT(30) DEF IInv

\* respondEvent sends the first response, or waits for the peer's retry.
LEMMA RespondEventIInv ==
  ASSUME IInv, NEW i \in Ports, RespondEvent(i)
  PROVE  IInv'
<1>0. /\ UNCHANGED <<time, wake, nvmain>> /\ UNCHANGED <<stack, requests, retry>>
      /\ nextEventCycle' = nextEventCycle /\ respond[i] = curTick
  BY DEF RespondEvent
<1>1. respond[i] # None /\ Len(responseQueue[i]) > 0
  <2>1. curTick \in Nat /\ None \notin Nat
    BY MemoryAssumption, SMTT(30) DEF IInv, Types, TypeOK
  <2> QED BY <1>0, <2>1, ZenonT(30) DEF IInv, Responses
<1>2. /\ responseQueue' \in [Ports -> Seq(Packets)] /\ respond' \in [Ports -> Nat \cup {None}]
      /\ retryResp' \in [Ports -> BOOLEAN]
      /\ pkt' \in [Packets -> {"new", "refused", "accepted", "replied", "done"}]
      /\ \A q \in Packets : pkt'[q] = pkt[q] \/ (pkt[q] = "replied" /\ pkt'[q] = "done")
      /\ Responses'
  <2>1. CASE retryResp[i]
    <3>1. /\ respond' = [respond EXCEPT ![i] = None]
          /\ pkt' = pkt /\ retryResp' = retryResp /\ responseQueue' = responseQueue
      BY <2>1 DEF RespondEvent
    <3>2. /\ respond' \in [Ports -> Nat \cup {None}] /\ respond'[i] = None
          /\ \A k \in Ports : k # i => respond'[k] = respond[k]
      BY <3>1, ZenonT(30) DEF IInv, Types, TypeOK
    <3>3. Responses'
      BY <1>1, <2>1, <3>1, <3>2, SMTT(30) DEF IInv, Responses
    <3> QED BY <3>1, <3>2, <3>3 DEF IInv, Types, TypeOK
  <2>2. CASE ~ retryResp[i]
    <3>1. SendFirst(i, None)
      BY <2>2 DEF RespondEvent
    <3> QED BY <1>1, <3>1, SendFirstKeeps
  <2> QED BY <2>1, <2>2
<1>3. Types'
  BY <1>0, <1>2 DEF IInv, Types, TypeOK, time, nvmain, requests
<1>4. Clocks' /\ Wakeups'
  BY <1>0, TimeKept DEF IInv, requests
<1>5. Requests' /\ Calls' /\ Refusals'
  BY <1>0, <1>2, RequestsKept, ZenonT(30) DEF IInv
<1> QED BY <1>2, <1>3, <1>4, <1>5 DEF IInv

\* The peer's retry sends the response that waited.
LEMMA RecvRetryIInv ==
  ASSUME IInv, NEW i \in Ports, RecvRetry(i)
  PROVE  IInv'
<1>0. /\ UNCHANGED <<time, wake, nvmain>> /\ UNCHANGED <<stack, requests, retry>>
      /\ nextEventCycle' = nextEventCycle /\ retryResp[i] /\ SendFirst(i, respond[i])
  BY ZenonT(30) DEF RecvRetry
<1>1. /\ respond[i] \in Nat \cup {None} /\ Len(responseQueue[i]) > 0
      /\ respond[i] # None => Len(responseQueue[i]) > 1
  BY <1>0, SMTT(30) DEF IInv, Types, TypeOK, Responses
<1>2. /\ responseQueue' \in [Ports -> Seq(Packets)] /\ respond' \in [Ports -> Nat \cup {None}]
      /\ retryResp' \in [Ports -> BOOLEAN]
      /\ pkt' \in [Packets -> {"new", "refused", "accepted", "replied", "done"}]
      /\ \A q \in Packets : pkt'[q] = pkt[q] \/ (pkt[q] = "replied" /\ pkt'[q] = "done")
      /\ Responses'
  BY <1>0, <1>1, SendFirstKeeps
<1>3. Types'
  BY <1>0, <1>2 DEF IInv, Types, TypeOK, time, nvmain, requests
<1>4. Clocks' /\ Wakeups'
  BY <1>0, TimeKept DEF IInv, requests
<1>5. Requests' /\ Calls' /\ Refusals'
  BY <1>0, <1>2, RequestsKept DEF IInv
<1> QED BY <1>2, <1>3, <1>4, <1>5, SMT DEF IInv

-----------------------------------------------------------------------------
\* recvTimingReq

\* What recvTimingReq may rely on, whether gem5 calls it or sendRetryReq: the packet p is the
\* only one its instance may have refused, its flags are taken back, and the calls below are
\* as Calls and FlagsSeen say.
Below(p, flags, rest) ==
  /\ pkt[p] \in {"new", "refused"}
  /\ \A q \in Packets : pkt[q] = "refused" /\ Port[q] = Port[p] => q = p
  /\ flags \in [Ports -> [read : BOOLEAN, write : BOOLEAN]]
  /\ \A i \in Ports, f \in {"read", "write"} : flags[i][f] <=> retry[i][f] /\ i # Port[p]
  /\ rest \in Seq(Frames)
  /\ \A q \in Packets : \A j \in 1..Len(rest) : rest[j] = <<"finish", q>> =>
       j = Len(rest) /\ q \in requestMap /\ event[q] = None
  /\ \A q \in Packets : \A j \in 1..Len(rest) : rest[j] = <<"copy", q>> =>
       pkt[q] = "accepted" /\ Kind[q] # "read"
  /\ \A q \in Packets : \A j, k \in 1..Len(rest) :
       rest[j] = <<"copy", q>> /\ rest[k] = <<"copy", q>> => j = k
  /\ \A q \in Packets : pkt[q] = "accepted" /\ Kind[q] # "read" =>
       \E j \in 1..Len(rest) : rest[j] = <<"copy", q>>

\* The flags of the other instances stay right, and p's is that of what becomes of it.
LEMMA FlagsReset ==
  ASSUME IInv, NEW p \in Packets, NEW flags, NEW rest, Below(p, flags, rest),
         \A q \in Packets : q # p => pkt'[q] = pkt[q],
         \A i \in Ports, f \in {"read", "write"} :
           retry'[i][f] <=> flags[i][f] \/ (pkt'[p] = "refused" /\ i = Port[p] /\ f = FlagOf(p))
  PROVE  FlagsExact'
<1>0. \A i \in Ports, f \in {"read", "write"} :
        retry'[i][f] <=> \/ retry[i][f] /\ i # Port[p]
                         \/ pkt'[p] = "refused" /\ i = Port[p] /\ f = FlagOf(p)
  BY SMT DEF Below
<1>1. \A q \in Packets : q # p /\ pkt'[q] = "refused" => pkt[q] = "refused" /\ Port[q] # Port[p]
  BY SMT DEF Below
<1>2. ASSUME NEW i \in Ports, NEW f \in {"read", "write"}, retry'[i][f]
      PROVE  \E q \in Packets : pkt'[q] = "refused" /\ Port[q] = i /\ FlagOf(q) = f
  <2>1. CASE retry[i][f] /\ i # Port[p]
    <3>1. PICK q \in Packets : pkt[q] = "refused" /\ Port[q] = i /\ FlagOf(q) = f
      BY <2>1, SMT DEF IInv, Refusals, FlagsExact
    <3>2. pkt'[q] = "refused"
      BY <2>1, <3>1
    <3> QED BY <3>1, <3>2
  <2>2. CASE pkt'[p] = "refused" /\ i = Port[p] /\ f = FlagOf(p)
    BY <2>2
  <2> QED BY <1>0, <1>2, <2>1, <2>2, ZenonT(30)
<1>3. ASSUME NEW q \in Packets, pkt'[q] = "refused" PROVE retry'[Port[q]][FlagOf(q)]
  <2>0. Port[q] \in Ports /\ FlagOf(q) \in {"read", "write"}
    BY FramesDiffer, ZenonT(30)
  <2>1. CASE q = p
    BY <1>0, <1>3, <2>0, <2>1, SMT
  <2>2. CASE q # p
    <3>1. pkt[q] = "refused" /\ Port[q] # Port[p]
      BY <1>1, <1>3, <2>2
    <3>2. retry[Port[q]][FlagOf(q)]
      BY <3>1 DEF IInv, Refusals, FlagsExact
    <3> QED BY <1>0, <2>0, <3>1, <3>2, ZenonT(30)
  <2> QED BY <2>1, <2>2
<1>4. ASSUME NEW q \in Packets, NEW r \in Packets,
             pkt'[q] = "refused", pkt'[r] = "refused", Port[q] = Port[r]
      PROVE  q = r
  BY <1>1, <1>4, ZenonT(30) DEF IInv, Refusals, FlagsExact
<1> QED BY <1>2, <1>3, <1>4, ZenonT(30) DEF FlagsExact

\* NVMain's queue is full only while a request is in it.
FullIsNotEmpty == Cardinality(queued) >= Capacity => queued # {}

\* A refused packet sets its flag, and a request whose completion will look at it is pending.
LEMMA RefuseIInv ==
  ASSUME IInv, FullIsNotEmpty,
         NEW p \in Packets, NEW flags, NEW rest, Below(p, flags, rest),
         Refuse(p, flags, rest), UNCHANGED <<time, nvmain>>
  PROVE  IInv'
<1>0. /\ retry' = [flags EXCEPT ![Port[p]][FlagOf(p)] = TRUE]
      /\ stack' = rest /\ pkt' = [pkt EXCEPT ![p] = "refused"] /\ wake' = wake
      /\ event' = event /\ queued' = queued /\ requestMap' = requestMap
      /\ UNCHANGED responses /\ nextEventCycle' = nextEventCycle
      /\ Cardinality(queued) >= Capacity
  BY DEF Refuse, FlagOf, requests
<1>1. /\ pkt' \in [Packets -> {"new", "refused", "accepted", "replied", "done"}]
      /\ pkt'[p] = "refused" /\ \A q \in Packets : q # p => pkt'[q] = pkt[q]
  BY <1>0 DEF IInv, Types, TypeOK
<1>2. pkt[p] \in {"new", "refused"} /\ p \notin requestMap /\ stack' \in Seq(Frames)
  BY <1>0 DEF Below, IInv, Requests
<1>3. Port[p] \in Ports /\ FlagOf(p) \in {"read", "write"}
  BY FramesDiffer
<1>4. /\ retry' \in [Ports -> [read : BOOLEAN, write : BOOLEAN]]
      /\ \A i \in Ports, f \in {"read", "write"} :
           retry'[i][f] <=> flags[i][f] \/ (i = Port[p] /\ f = FlagOf(p))
  <2>1. flags \in [Ports -> [read : BOOLEAN, write : BOOLEAN]]
    BY DEF Below
  <2> QED BY <1>0, <1>3, <2>1
<1>5. Types'
  BY <1>0, <1>1, <1>2, <1>4, ZenonT(30) DEF IInv, Types, TypeOK, time, nvmain, responses
<1>6. Clocks' /\ Wakeups'
  BY <1>0, TimeKept DEF IInv
<1>7. Requests'
  BY <1>0, <1>1, <1>2, ZenonT(30) DEF IInv, Requests
<1>8. FinishLast' /\ CopyOnce'
  BY <1>0, SMTT(30) DEF Below, FinishLast, CopyOnce
<1>9. CopyAccepted'
  BY <1>0, <1>1, <1>2, SMT DEF Below, CopyAccepted
<1>10. CopyRuns'
  BY <1>0, <1>1, ZenonT(30) DEF Below, CopyRuns
<1>11. FlagsExact'
  BY <1>1, <1>4, FlagsReset, SMT
<1>12. FlagsSeen'
  <2>1. queued # {}
    BY <1>0 DEF FullIsNotEmpty
  <2>2. \E q \in Packets : event[q] # None
    BY <2>1 DEF IInv, Types, TypeOK, Requests
  <2> QED BY <1>0, <2>2 DEF FlagsSeen
<1>13. Responses'
  BY <1>0, <1>1, <1>2, ResponsesKept, ZenonT(30) DEF IInv, Types, TypeOK
<1> QED BY <1>5, <1>6, <1>7, <1>8, <1>9, <1>10, <1>11, <1>12, <1>13
    DEF IInv, Calls, Refusals

\* The stack after a packet was accepted: a write's copy is completed first.
LEMMA AcceptCalls ==
  ASSUME IInv, NEW p \in Packets, NEW flags, NEW rest, Below(p, flags, rest),
         Accept(p, flags, rest)
  PROVE  stack' \in Seq(Frames) /\ Calls'
<1>0. /\ pkt'[p] = "accepted" /\ \A q \in Packets : q # p => pkt'[q] = pkt[q]
      /\ \A q \in Packets : q # p => event'[q] = event[q]
      /\ \A q \in requestMap : q \in requestMap'
      /\ pkt[p] # "accepted" /\ p \notin requestMap
  BY SMTT(30) DEF Accept, Below, IInv, Types, TypeOK, Requests
<1>1. /\ rest \in Seq(Frames) /\ Len(rest) \in Nat
      /\ \A q \in Packets : \A j \in 1..Len(rest) : rest[j] = <<"finish", q>> =>
           j = Len(rest) /\ q # p /\ q \in requestMap' /\ event'[q] = None
      /\ \A q \in Packets : \A j \in 1..Len(rest) : rest[j] = <<"copy", q>> =>
           q # p /\ pkt'[q] = "accepted" /\ Kind[q] # "read"
      /\ \A q \in Packets : \A j, k \in 1..Len(rest) :
           rest[j] = <<"copy", q>> /\ rest[k] = <<"copy", q>> => j = k
      /\ \A q \in Packets : q # p /\ pkt'[q] = "accepted" /\ Kind[q] # "read" =>
           \E j \in 1..Len(rest) : rest[j] = <<"copy", q>>
  <2>1. rest \in Seq(Frames) /\ Len(rest) \in Nat
    BY SMT DEF Below
  <2>2. ASSUME NEW q \in Packets, NEW j \in 1..Len(rest), rest[j] = <<"finish", q>>
        PROVE  j = Len(rest) /\ q # p /\ q \in requestMap' /\ event'[q] = None
    <3>1. j = Len(rest) /\ q \in requestMap /\ event[q] = None
      BY <2>2 DEF Below
    <3> QED BY <1>0, <3>1
  <2>3. ASSUME NEW q \in Packets, NEW j \in 1..Len(rest), rest[j] = <<"copy", q>>
        PROVE  q # p /\ pkt'[q] = "accepted" /\ Kind[q] # "read"
    <3>1. pkt[q] = "accepted" /\ Kind[q] # "read"
      BY <2>3 DEF Below
    <3> QED BY <1>0, <3>1
  <2>4. \A q \in Packets : \A j, k \in 1..Len(rest) :
          rest[j] = <<"copy", q>> /\ rest[k] = <<"copy", q>> => j = k
    BY DEF Below
  <2>5. ASSUME NEW q \in Packets, q # p, pkt'[q] = "accepted", Kind[q] # "read"
        PROVE  \E j \in 1..Len(rest) : rest[j] = <<"copy", q>>
    <3>1. pkt[q] = "accepted"
      BY <1>0, <2>5
    <3> QED BY <2>5, <3>1 DEF Below
  <2> QED BY <2>1, <2>2, <2>3, <2>4, <2>5, ZenonT(30)
<1>2. CASE Kind[p] = "read"
  <2>1. stack' = rest
    <3>1. stack' = <<>> \o rest
      BY <1>2 DEF Accept
    <3> QED BY <1>1, <3>1, ConcatNothing
  <2>2. FinishLast'
    BY <1>1, <2>1 DEF FinishLast
  <2>3. CopyAccepted'
    BY <1>1, <2>1 DEF CopyAccepted
  <2>4. CopyOnce'
    BY <1>1, <2>1 DEF CopyOnce
  <2>5. CopyRuns'
    BY <1>1, <1>2, <2>1, ZenonT(30) DEF CopyRuns
  <2> QED BY <1>1, <2>1, <2>2, <2>3, <2>4, <2>5, ZenonT(30) DEF Calls
<1>3. CASE Kind[p] # "read"
  <2> DEFINE n == 2 * Instances + 1
             x == <<"copy", p>>
  <2>1. stack' = Append(Retries, x) \o rest
    BY <1>3 DEF Accept
  <2>2. x \in Frames
    BY FramesDiffer
  <2> HIDE DEF x
  <2>3. /\ stack' \in Seq(Frames) /\ n \in Nat /\ Len(stack') = n + Len(rest)
        /\ n \in 1..Len(stack') /\ stack'[n] = x
        /\ \A j \in 1..Len(rest) : n + j \in 1..Len(stack') /\ stack'[n + j] = rest[j]
        /\ \A j \in 1..Len(stack') : \/ stack'[j] \in Flags
                                     \/ j = n
                                     \/ j - n \in 1..Len(rest) /\ stack'[j] = rest[j - n]
    <3> DEFINE s == Append(Retries, x) \o rest
    <3>1. rest \in Seq(Frames)
      BY <1>1
    <3>2. /\ s \in Seq(Frames) /\ n \in Nat /\ Len(rest) \in Nat /\ Len(s) = n + Len(rest)
          /\ n \in 1..Len(s) /\ s[n] = x
          /\ \A j \in 1..Len(rest) : n + j \in 1..Len(s) /\ s[n + j] = rest[j]
          /\ \A j \in 1..Len(s) : \/ s[j] \in Flags
                                  \/ j = n
                                  \/ j - n \in 1..Len(rest) /\ s[j] = rest[j - n]
          /\ \A y \in Flags : \E j \in 1..Len(s) : s[j] = y
      BY <2>2, <3>1, PushFrames, ZenonT(30)
    <3> HIDE DEF s, n
    <3> QED BY <2>1, <3>2 DEF s
  <2> HIDE DEF n
  <2>4. FinishLast'
    <3> SUFFICES ASSUME NEW q \in Packets, NEW j \in 1..Len(stack'), stack'[j] = <<"finish", q>>
                 PROVE  j = Len(stack') /\ q \in requestMap' /\ event'[q] = None
      BY DEF FinishLast
    <3>1. stack'[j] \notin Flags /\ stack'[j] # x
      BY FramesDiffer DEF x
    <3>2. j - n \in 1..Len(rest) /\ rest[j - n] = <<"finish", q>>
      BY <2>3, <3>1
    <3>3. j - n = Len(rest) /\ q \in requestMap' /\ event'[q] = None
      BY <1>1, <3>2, ZenonT(30)
    <3>4. j \in Int /\ n \in Nat /\ Len(rest) \in Nat /\ Len(stack') = n + Len(rest)
      BY <1>1, <2>3, SMTT(30)
    <3>5. j = Len(stack')
      BY <3>3, <3>4, SMT
    <3> QED BY <3>3, <3>5
  <2>5. ASSUME NEW q \in Packets, NEW j \in 1..Len(stack'), stack'[j] = <<"copy", q>>
        PROVE  \/ j = n /\ q = p
               \/ q # p /\ j - n \in 1..Len(rest) /\ rest[j - n] = <<"copy", q>>
    <3>1. stack'[j] \notin Flags
      BY <2>5, FramesDiffer
    <3>2. CASE j = n
      BY <2>3, <2>5, <3>2, FramesDiffer, ZenonT(30) DEF x
    <3>3. CASE j # n
      <4>1. j - n \in 1..Len(rest) /\ rest[j - n] = <<"copy", q>>
        BY <2>3, <2>5, <3>1, <3>3, ZenonT(30)
      <4> QED BY <1>1, <4>1
    <3> QED BY <3>2, <3>3
  <2>6. CopyAccepted'
    <3> SUFFICES ASSUME NEW q \in Packets, NEW j \in 1..Len(stack'), stack'[j] = <<"copy", q>>
                 PROVE  pkt'[q] = "accepted" /\ Kind[q] # "read"
      BY DEF CopyAccepted
    <3> QED BY <1>0, <1>1, <1>3, <2>5, SMTT(30)
  <2>7. CopyOnce'
    <3> SUFFICES ASSUME NEW q \in Packets, NEW j \in 1..Len(stack'), NEW k \in 1..Len(stack'),
                        stack'[j] = <<"copy", q>>, stack'[k] = <<"copy", q>>
                 PROVE  j = k
      BY DEF CopyOnce
    <3>1. CASE q = p
      BY <2>5, <3>1, ZenonT(30)
    <3>2. CASE q # p
      <4>1. /\ j - n \in 1..Len(rest) /\ rest[j - n] = <<"copy", q>>
            /\ k - n \in 1..Len(rest) /\ rest[k - n] = <<"copy", q>>
        BY <2>5, <3>2
      <4>2. j - n = k - n
        BY <1>1, <4>1
      <4> QED BY <2>3, <4>2, SMTT(30)
    <3> QED BY <3>1, <3>2
  <2>8. CopyRuns'
    <3> SUFFICES ASSUME NEW q \in Packets, pkt'[q] = "accepted", Kind[q] # "read"
                 PROVE  \E j \in 1..Len(stack') : stack'[j] = <<"copy", q>>
      BY DEF CopyRuns
    <3>1. CASE q = p
      BY <2>3, <3>1 DEF x
    <3>2. CASE q # p
      <4>1. PICK j \in 1..Len(rest) : rest[j] = <<"copy", q>>
        BY <1>1, <3>2
      <4>2. n + j \in 1..Len(stack') /\ stack'[n + j] = <<"copy", q>>
        BY <2>3, <4>1
      <4> QED BY <4>2
    <3> QED BY <3>1, <3>2
  <2> QED BY <2>3, <2>4, <2>6, <2>7, <2>8, ZenonT(30) DEF Calls
<1> QED BY <1>2, <1>3, ZenonT(30)

\* An accepted packet becomes a request NVMain will complete.
LEMMA AcceptIInv ==
  ASSUME IInv, NEW p \in Packets, NEW flags, NEW rest, Below(p, flags, rest),
         Accept(p, flags, rest), UNCHANGED <<time, nvmain>>
  PROVE  IInv'
<1>0. /\ event' = [event EXCEPT ![p] = Instant]
      /\ queued' = queued \cup {p} /\ requestMap' = requestMap \cup {p}
      /\ pkt' = [pkt EXCEPT ![p] = "accepted"] /\ retry' = flags /\ UNCHANGED responses
  BY DEF Accept
<1>1. /\ None \notin Nat /\ curTick \in Nat /\ clock \in Nat /\ cycle \in Nat /\ hop \in Nat
      /\ Instant \in Nat /\ Port[p] \in Ports
  <2>1. /\ None \notin Nat /\ curTick \in Nat /\ clock \in Nat /\ cycle \in Nat /\ hop \in Nat
    BY MemoryAssumption, SMT DEF IInv, Types, TypeOK
  <2> QED BY <2>1, FramesDiffer, SMTT(30) DEF Instant
<1>2. /\ event' \in [Packets -> Nat \cup {None}] /\ event'[p] \in Nat /\ event'[p] # None
      /\ \A q \in Packets : q # p => event'[q] = event[q]
  BY <1>0, <1>1 DEF IInv, Types, TypeOK
<1>3. /\ pkt' \in [Packets -> {"new", "refused", "accepted", "replied", "done"}]
      /\ pkt'[p] = "accepted" /\ \A q \in Packets : q # p => pkt'[q] = pkt[q]
  BY <1>0 DEF IInv, Types, TypeOK
<1>4. pkt[p] \in {"new", "refused"} /\ flags \in [Ports -> [read : BOOLEAN, write : BOOLEAN]]
  BY DEF Below
<1>5. /\ wake' \in Nat \cup {None} /\ wake' # None /\ wake' >= curTick
      /\ nextEventCycle' \in [Ports -> Nat]
  <2>1. PICK q \in Packets : IsNextEvent(q, event') /\ Reschedule(Port[p], event'[q])
    BY DEF Accept
  <2> DEFINE t == event'[q]
             d == IF t > cycle THEN t - cycle ELSE 1
  <2>2. t \in Nat
    BY <1>2, <2>1 DEF IsNextEvent
  <2> HIDE DEF t
  <2>3. d \in Nat
    BY <1>1, <2>2, SMT
  <2>4. Reschedule(Port[p], t)
    BY <2>1 DEF t
  <2> HIDE DEF d
  <2>5. clock * d \in Nat
    BY <1>1, <2>3, SMTT(30)
  <2>6. curTick + clock * d \in Nat /\ curTick + clock * d >= curTick
    BY <1>1, <2>5, SMT
  <2>7. CASE wake = None \/ t < nextEventCycle[Port[p]]
    <3>1. /\ wake' = curTick + clock * d
          /\ nextEventCycle' = [nextEventCycle EXCEPT ![Port[p]] = t]
      BY <2>4, <2>7 DEF Reschedule, d
    <3>2. nextEventCycle' \in [Ports -> Nat]
      BY <2>2, <3>1 DEF IInv, Types, TypeOK
    <3> QED BY <1>1, <2>6, <3>1, <3>2, ZenonT(30)
  <2>8. CASE ~(wake = None \/ t < nextEventCycle[Port[p]])
    <3>1. wake' = wake /\ nextEventCycle' = nextEventCycle
      BY <2>4, <2>8 DEF Reschedule
    <3> QED BY <2>8, <3>1 DEF IInv, Types, TypeOK, Wakeups
  <2> QED BY <2>7, <2>8
<1>6. stack' \in Seq(Frames) /\ Calls'
  BY AcceptCalls
<1>7. Types'
  <2>1. queued' \subseteq Packets /\ requestMap' \subseteq Packets
    BY <1>0 DEF IInv, Types, TypeOK
  <2> QED BY <1>0, <1>2, <1>3, <1>4, <1>5, <1>6, <2>1, ZenonT(30)
          DEF IInv, Types, TypeOK, time, nvmain, responses
<1>8. Clocks'
  BY DEF IInv, Clocks, time, nvmain
<1>9. Wakeups'
  BY <1>5 DEF Wakeups, time
<1>10. Requests'
  <2>1. \A q \in Packets : q \in requestMap' <=> q \in requestMap \/ q = p
    BY <1>0
  <2>2. \A q \in queued' : q \in Packets /\ event'[q] # None
    BY <1>0, <1>2 DEF IInv, Types, TypeOK, Requests
  <2> QED BY <1>2, <1>3, <1>4, <2>1, <2>2, ZenonT(30) DEF IInv, Requests
<1>11. FlagsExact'
  <2>1. pkt'[p] # "refused"
    BY <1>3
  <2> QED BY <1>0, <1>3, <2>1, FlagsReset, ZenonT(30)
<1>12. FlagsSeen'
  BY <1>2 DEF FlagsSeen
<1>13. Responses'
  BY <1>0, <1>3, <1>4, ResponsesKept, ZenonT(30) DEF IInv, Types, TypeOK
<1> QED BY <1>6, <1>7, <1>8, <1>9, <1>10, <1>11, <1>12, <1>13, ZenonT(30) DEF IInv, Refusals

\* recvTimingReq accepts or refuses a packet the peer sends.
LEMMA SendIInv ==
  ASSUME IInv, FullIsNotEmpty, NEW p \in Packets, Send(p)
  PROVE  IInv'
<1>0. /\ stack = <<>> /\ pkt[p] = "new"
      /\ \A q \in Packets : Port[q] = Port[p] => pkt[q] # "refused"
  BY ZenonT(30) DEF Send, MaySend, Idle
<1>1. ASSUME NEW f \in {"read", "write"} PROVE ~ retry[Port[p]][f]
  BY <1>0, FramesDiffer, SMTT(30) DEF IInv, Refusals, FlagsExact
<1>2. Below(p, retry, <<>>)
  <2>1. \A i \in Ports, f \in {"read", "write"} : retry[i][f] <=> retry[i][f] /\ i # Port[p]
    BY <1>1, ZenonT(30)
  <2>2. \A q \in Packets : pkt[q] = "accepted" => Kind[q] = "read"
    BY <1>0, SMT DEF IInv, Calls, CopyRuns
  <2> QED BY <1>0, <2>1, <2>2, SMTT(30) DEF Below, IInv, Types, TypeOK
<1> QED BY <1>2, AcceptIInv, RefuseIInv DEF Send, RecvTimingReq

\* A peer that sends from within sendRetryReq nests recvTimingReq in RequestComplete.
LEMMA RetryNowIInv ==
  ASSUME IInv, FullIsNotEmpty, NEW f \in {"read", "write"}, NEW i \in Ports, RetryNow(f, i)
  PROVE  IInv'
<1> DEFINE flags == [retry EXCEPT ![i][f] = FALSE]
           rest == Tail(stack)
<1>0. PICK p \in Packets : pkt[p] = "refused" /\ Port[p] = i /\ RecvTimingReq(p, flags, rest)
  BY DEF RetryNow
<1>1. stack # <<>> /\ Head(stack) = <<f, i>> /\ retry[i][f] /\ stack \in Seq(Frames)
  BY DEF RetryNow, IInv, Types
<1>2. \A q \in Packets : pkt[q] = "refused" /\ Port[q] = i => q = p
  BY <1>0, ZenonT(30) DEF IInv, Refusals, FlagsExact
<1>3. /\ flags \in [Ports -> [read : BOOLEAN, write : BOOLEAN]]
      /\ \A k \in Ports, g \in {"read", "write"} : flags[k][g] <=> retry[k][g] /\ k # i
  <2>1. retry \in [Ports -> [read : BOOLEAN, write : BOOLEAN]]
    BY ZenonT(30) DEF IInv, Types, TypeOK
  <2>2. \A g \in {"read", "write"} : retry[i][g] => g = f
    <3>1. \A g \in {"read", "write"} : retry[i][g] => g = FlagOf(p)
      BY <1>2, SMT DEF IInv, Refusals, FlagsExact
    <3> QED BY <1>1, <3>1, SMTT(30)
  <2>3. flags \in [Ports -> [read : BOOLEAN, write : BOOLEAN]]
    BY <2>1
  <2>4. \A k \in Ports, g \in {"read", "write"} :
          flags[k][g] <=> retry[k][g] /\ ~(k = i /\ g = f)
    BY <2>1
  <2> QED BY <2>2, <2>3, <2>4
<1>4. /\ rest \in Seq(Frames) /\ Len(rest) = Len(stack) - 1 /\ Len(stack) \in Nat
      /\ \A j \in 1..Len(rest) : j + 1 \in 1..Len(stack) /\ rest[j] = stack[j + 1]
      /\ stack[1] = <<f, i>>
      /\ \A j \in 1..Len(stack) : j # 1 => j - 1 \in 1..Len(rest) /\ rest[j - 1] = stack[j]
  BY <1>1, TailFrames, ZenonT(30)
<1> HIDE DEF flags, rest
<1>5. ASSUME NEW q \in Packets, NEW j \in 1..Len(rest), rest[j] = <<"finish", q>>
      PROVE  j = Len(rest) /\ q \in requestMap /\ event[q] = None
  <2>1. j + 1 \in 1..Len(stack) /\ stack[j + 1] = <<"finish", q>>
    BY <1>4, <1>5
  <2>2. j + 1 = Len(stack) /\ q \in requestMap /\ event[q] = None
    BY <2>1 DEF IInv, Calls, FinishLast
  <2> QED BY <1>4, <2>2, SMT
<1>6. ASSUME NEW q \in Packets, NEW j \in 1..Len(rest), rest[j] = <<"copy", q>>
      PROVE  pkt[q] = "accepted" /\ Kind[q] # "read"
  <2>1. j + 1 \in 1..Len(stack) /\ stack[j + 1] = <<"copy", q>>
    BY <1>4, <1>6, ZenonT(30)
  <2> QED BY <2>1 DEF IInv, Calls, CopyAccepted
<1>7. ASSUME NEW q \in Packets, NEW j \in 1..Len(rest), NEW k \in 1..Len(rest),
             rest[j] = <<"copy", q>>, rest[k] = <<"copy", q>>
      PROVE  j = k
  <2>1. /\ j + 1 \in 1..Len(stack) /\ stack[j + 1] = <<"copy", q>>
        /\ k + 1 \in 1..Len(stack) /\ stack[k + 1] = <<"copy", q>>
    BY <1>4, <1>7
  <2>2. j + 1 = k + 1
    BY <2>1 DEF IInv, Calls, CopyOnce
  <2> QED BY <1>4, <2>2, SMT
<1>8. ASSUME NEW q \in Packets, pkt[q] = "accepted", Kind[q] # "read"
      PROVE  \E j \in 1..Len(rest) : rest[j] = <<"copy", q>>
  <2>1. PICK j \in 1..Len(stack) : stack[j] = <<"copy", q>>
    BY <1>8, ZenonT(30) DEF IInv, Calls, CopyRuns
  <2>2. j # 1
    BY <1>4, <2>1, SMT
  <2>3. j - 1 \in 1..Len(rest) /\ rest[j - 1] = <<"copy", q>>
    BY <1>4, <2>1, <2>2
  <2> QED BY <2>3
<1>9. Below(p, flags, rest)
  <2>1. /\ pkt[p] \in {"new", "refused"}
        /\ \A q \in Packets : pkt[q] = "refused" /\ Port[q] = Port[p] => q = p
        /\ flags \in [Ports -> [read : BOOLEAN, write : BOOLEAN]]
        /\ \A k \in Ports, g \in {"read", "write"} : flags[k][g] <=> retry[k][g] /\ k # Port[p]
    BY <1>0, <1>2, <1>3, SMT
  <2>2. /\ rest \in Seq(Frames)
        /\ \A q \in Packets : \A j \in 1..Len(rest) : rest[j] = <<"finish", q>> =>
             j = Len(rest) /\ q \in requestMap /\ event[q] = None
        /\ \A q \in Packets : \A j \in 1..Len(rest) : rest[j] = <<"copy", q>> =>
             pkt[q] = "accepted" /\ Kind[q] # "read"
    BY <1>4, <1>5, <1>6, ZenonT(30)
  <2>3. /\ \A q \in Packets : \A j, k \in 1..Len(rest) :
             rest[j] = <<"copy", q>> /\ rest[k] = <<"copy", q>> => j = k
        /\ \A q \in Packets : pkt[q] = "accepted" /\ Kind[q] # "read" =>
             \E j \in 1..Len(rest) : rest[j] = <<"copy", q>>
    BY <1>7, <1>8
  <2> QED BY <2>1, <2>2, <2>3, ZenonT(30) DEF Below
<1> QED BY <1>0, <1>9, AcceptIInv, RefuseIInv DEF RecvTimingReq

-----------------------------------------------------------------------------
\* The invariant

\* The memory starts with no request, no flag and no response.
LEMMA InitIInv == Init => IInv
<1> SUFFICES ASSUME Init PROVE IInv
  OBVIOUS
<1>0. clock \in Nat /\ MaxTick \in Nat /\ MaxDumps \in Nat /\ None \notin Nat
  BY MemoryAssumption
<1>1. Types
  <2>1. /\ curTick \in 0..MaxTick /\ lastWakeup \in 0..curTick /\ dumps \in 0..MaxDumps
        /\ wake \in Nat
    BY <1>0, SMT DEF Init
  <2>2. stack \in Seq(Frames) /\ responseQueue \in [Ports -> Seq(Packets)]
    BY SMT DEF Init
  <2> QED BY <2>1, <2>2, ZenonT(30) DEF Init, Types, TypeOK
<1>2. Clocks
  <2>1. (0 + 0) * clock = 0 /\ 0 * clock = 0
    BY <1>0, SMTT(30)
  <2> QED BY <2>1, SMT DEF Init, Clocks
<1>3. Wakeups
  BY <1>0, SMT DEF Init, Wakeups
<1>4. Requests
  BY ZenonT(30) DEF Init, Requests
<1>5. Calls
  BY SMTT(30) DEF Init, Calls, FinishLast, CopyAccepted, CopyOnce, CopyRuns
<1>6. Refusals
  BY SMTT(30) DEF Init, Refusals, FlagsExact, FlagsSeen
<1>7. Responses
  BY SMT DEF Init, Responses
<1> QED BY <1>1, <1>2, <1>3, <1>4, <1>5, <1>6, <1>7, ZenonT(30) DEF IInv

\* Every step keeps the invariant.
LEMMA NextIInv == IInv /\ [Next]_vars => IInv'
<1> SUFFICES ASSUME IInv, [Next]_vars PROVE IInv'
  OBVIOUS
<1>0. FullIsNotEmpty
  BY EmptyCardinality, MemoryAssumption, SMT DEF FullIsNotEmpty
<1>1. CASE Advance
  BY <1>1, AdvanceIInv
<1>2. CASE Tick
  BY <1>2, TickIInv
<1>3. CASE DumpStats
  BY <1>3, DumpStatsIInv
<1>4. CASE HandlerReturns
  BY <1>4, HandlerReturnsIInv
<1>5. CASE CycleEnd
  BY <1>5, CycleEndIInv
<1>6. ASSUME NEW p \in Packets, Send(p) \/ SendOther(p) \/ Handle(p) \/ Finish(p) \/ FinishCopy(p)
      PROVE  IInv'
  BY <1>0, <1>6, SendIInv, SendOtherIInv, HandleIInv, FinishIInv, FinishCopyIInv, ZenonT(30)
<1>7. ASSUME NEW i \in Ports, RespondEvent(i) \/ RecvRetry(i) PROVE IInv'
  BY <1>7, RespondEventIInv, RecvRetryIInv
<1>8. ASSUME NEW f \in {"read", "write"}, NEW i \in Ports,
             RetryUnset(f, i) \/ RetryNow(f, i) \/ RetryLater(f, i)
      PROVE  IInv'
  BY <1>0, <1>8, RetryUnsetIInv, RetryNowIInv, RetryLaterIInv, ZenonT(30)
<1>9. CASE UNCHANGED vars
  <2>1. /\ UNCHANGED <<time, wake, nvmain>> /\ UNCHANGED <<stack, pkt, requests, retry, responses>>
        /\ nextEventCycle' = nextEventCycle
    BY <1>9 DEF vars
  <2>2. Types'
    BY <2>1 DEF IInv, Types, TypeOK, time, nvmain, requests, responses
  <2>3. Clocks' /\ Wakeups'
    BY <2>1, TimeKept DEF IInv, requests
  <2>4. Requests' /\ Calls' /\ Refusals' /\ Responses'
    BY <2>1, PacketsKept DEF IInv
  <2> QED BY <2>2, <2>3, <2>4 DEF IInv
<1> QED BY <1>1, <1>2, <1>3, <1>4, <1>5, <1>6, <1>7, <1>8, <1>9, ZenonT(30) DEF Next

\* Every step of gem5, of the memory object and of NVMain keeps the requests, the calls under
\* way, the flags and the response queues in the relation IInv states.
THEOREM Invariant == Spec => []IInv
<1>1. Init => IInv
  BY InitIInv
<1>2. IInv /\ [Next]_vars => IInv'
  BY NextIInv
<1> QED BY <1>1, <1>2, PTL DEF Spec

-----------------------------------------------------------------------------
\* What follows

\* The values stay in range; left does not become negative, as a handler's cycles are
\* never more than what Cycle had left.
THEOREM TypeCorrect == Spec => []TypeOK
<1>1. IInv => TypeOK
  BY DEF IInv, Types
<1> QED BY <1>1, Invariant, PTL

\* A packet that was accepted gets one response, however the calls of recvTimingReq,
\* RequestComplete and sendRetryReq are nested.
THEOREM OneResponseHolds == Spec => []OneResponse
<1>1. IInv => OneResponse
  <2> SUFFICES ASSUME IInv, NEW p \in Packets
               PROVE  /\ pkt[p] = "accepted" /\ Kind[p] = "read" => p \in requestMap
                      /\ pkt[p] = "accepted" /\ Kind[p] # "read" =>
                           \E j \in 1..Len(stack) : stack[j] = <<"copy", p>>
                      /\ Cardinality({j \in 1..Len(responseQueue[Port[p]]) :
                                        responseQueue[Port[p]][j] = p})
                           = IF pkt[p] = "replied" THEN 1 ELSE 0
                      /\ Kind[p] = "writeback" => pkt[p] # "replied"
    BY DEF OneResponse
  <2> DEFINE s == responseQueue[Port[p]]
             S == {j \in 1..Len(s) : s[j] = p}
  <2>1. pkt[p] = "accepted" /\ Kind[p] = "read" => p \in requestMap
    BY DEF IInv, Requests
  <2>2. pkt[p] = "accepted" /\ Kind[p] # "read" =>
          \E j \in 1..Len(stack) : stack[j] = <<"copy", p>>
    BY DEF IInv, Calls, CopyRuns
  <2>3. Kind[p] = "writeback" => pkt[p] # "replied"
    BY DEF IInv, Responses
  <2>4. Port[p] \in Ports
    BY FramesDiffer
  <2>5. CASE pkt[p] = "replied"
    <3>1. PICK j \in 1..Len(s) : s[j] = p
      BY <2>5, ZenonT(30) DEF IInv, Responses
    <3>2. \A k \in 1..Len(s) : s[k] = p => k = j
      BY <2>4, <3>1, SMT DEF IInv, Responses
    <3>3. S = {j}
      BY <3>1, <3>2
    <3>4. Cardinality(S) = 1
      BY <3>3, SingletonCardinality
    <3> QED BY <2>1, <2>2, <2>3, <2>5, <3>4, ZenonT(30)
  <2>6. CASE pkt[p] # "replied"
    <3>1. S = {}
      BY <2>4, <2>6, SMT DEF IInv, Responses
    <3>2. Cardinality(S) = 0
      BY <3>1, EmptyCardinality, ZenonT(30)
    <3> QED BY <2>1, <2>2, <2>3, <2>6, <3>2, ZenonT(30)
  <2> QED BY <2>5, <2>6
<1> QED BY <1>1, Invariant, PTL

\* A packet recvTimingReq refused is asked for again, and its flag is set for nothing else.
THEOREM RetryWillComeHolds == Spec => []RetryWillCome
<1>1. IInv => RetryWillCome
  <2> SUFFICES ASSUME IInv PROVE RetryWillCome
    BY ZenonT(30)
  <2>1. ASSUME NEW i \in Ports, retry[i].read \/ retry[i].write
        PROVE  \E p \in Packets : pkt[p] = "refused" /\ Port[p] = i
    <3>1. retry[i]["read"] \/ retry[i]["write"]
      BY <2>1
    <3> QED BY <3>1, SMT DEF IInv, Refusals, FlagsExact
  <2>2. ASSUME NEW p \in Packets, pkt[p] = "refused" PROVE retry[Port[p]][FlagOf(p)]
    BY <2>2 DEF IInv, Refusals, FlagsExact
  <2>3. ASSUME NEW p \in Packets, pkt[p] = "refused", Idle
        PROVE  \E q \in requestMap : event[q] # None
    <3>1. PICK q \in Packets : event[q] # None
      BY <2>3, SMTT(30) DEF IInv, Refusals, FlagsSeen, Idle
    <3> QED BY <3>1, ZenonT(30) DEF IInv, Requests
  <2> QED BY <2>1, <2>2, <2>3 DEF RetryWillCome, FlagOf
<1> QED BY <1>1, Invariant, PTL

\* A response that waits has respondEvent scheduled, or the peer is to ask for it: neither
\* ScheduleResponse nor SendResponses nor recvRetry loses it.
THEOREM ResponseWillGoHolds == Spec => []ResponseWillGo
<1>1. IInv => ResponseWillGo
  <2> SUFFICES ASSUME IInv, NEW i \in Ports, responseQueue[i] # <<>>
               PROVE  respond[i] # None \/ retryResp[i]
    BY DEF ResponseWillGo
  <2>1. Len(responseQueue[i]) > 0
    BY SMT DEF IInv, Types, TypeOK
  <2> QED BY <2>1 DEF IInv, Responses
<1> QED BY <1>1, Invariant, PTL

\* While NVMain has an event, tick is scheduled, and not in the past.
THEOREM WakeWillComeHolds == Spec => []WakeWillCome
<1>1. IInv => WakeWillCome
  BY ZenonT(30) DEF IInv, Wakeups, WakeWillCome, Idle
<1> QED BY <1>1, Invariant, PTL

\* Without statistics dumps NVMain's clock does not run ahead of gem5's, for every length of
\* a cycle and however often the wakeup is moved.
THEOREM NeverAheadHolds == Spec => []NeverAhead
<1>1. IInv => NeverAhead
  <2> SUFFICES ASSUME IInv, dumps = 0 PROVE cycle * clock <= curTick
    BY ZenonT(30) DEF NeverAhead
  <2>1. cycle \in Nat /\ left \in Nat /\ clock \in Nat /\ curTick \in Nat
    BY MemoryAssumption, SMT DEF IInv, Types, TypeOK
  <2>2. (cycle + left) * clock <= curTick
    BY DEF IInv, Clocks
  <2>3. /\ (cycle + left) * clock = cycle * clock + left * clock
        /\ cycle * clock \in Nat /\ left * clock \in Nat
    BY <2>1, SMTT(30)
  <2> QED BY <2>1, <2>2, <2>3, SMT
<1> QED BY <1>1, Invariant, PTL
=============================================================================
