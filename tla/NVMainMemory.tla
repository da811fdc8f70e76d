---------------------------- MODULE NVMainMemory ----------------------------
(***************************************************************************)
(* The memory object that stands between gem5 and NVMain                   *)
(* (NVmain/Simulators/gem5/nvmain_mem.cc).  gem5 sends it packets and      *)
(* calls tick and SendResponses from its own event queue; NVMain's         *)
(* event queue is stepped by tick and calls RequestComplete, which asks    *)
(* gem5 to send what was refused, and so re-enters recvTimingReq.  These   *)
(* nested calls are frames of stack here.  NVMain itself is the environment: *)
(* a request waits in a queue of Capacity entries, leaves it at one event  *)
(* and completes at a later one.                                           *)
(***************************************************************************)
EXTENDS Integers, Sequences, FiniteSets

CONSTANTS Packets,
          Port,          \* the instance, an index of allInstances, a packet is sent to
          Kind,          \* "read", "write", "writeback" (no response) or "other"
          Instances,     \* how many there are; instance 1 is the master
          Capacity,      \* of NVMain's transaction queue
          Latency,       \* bound on the cycles between a request's events
          clock,         \* gem5 ticks in a cycle
          MaxTick,       \* bound on gem5's time
          MaxDumps,      \* bound on the times gem5 dumps its statistics
          None

ASSUME MemoryAssumption ==
  /\ Instances \in Nat \ {0} /\ Port \in [Packets -> 1..Instances]
  /\ Kind \in [Packets -> {"read", "write", "writeback", "other"}]
  /\ Capacity \in Nat \ {0} /\ Latency \in Nat \ {0}
  /\ clock \in Nat \ {0} /\ MaxTick \in Nat
  /\ MaxDumps \in Nat /\ None \notin Nat

Ports == 1..Instances

master == 1

VARIABLES curTick,          \* gem5's time
          wake,             \* when clockEvent is scheduled
          respond,          \* when each respondEvent is
          lastWakeup,
          cycle,            \* the global event queue's currentCycle
          left, hop,        \* what Cycle has left, and the cycles of its current step
          mode,             \* who called Cycle: "no" one, "tick" or "dump"
          stack,            \* calls that have not returned, innermost first
          pkt,              \* what became of each packet
          event,            \* the global cycle of a request's next event in NVMain
          queued,           \* the requests in NVMain's transaction queue
          requestMap,       \* m_request_map
          retry,            \* retryRead and retryWrite of each instance
          retryResp,
          responseQueue,
          nextEventCycle,   \* of each instance
          dumps             \* how often gem5 dumped its statistics

time == <<curTick, lastWakeup>>
nvmain == <<cycle, left, hop, mode, dumps>>
requests == <<event, queued, requestMap>>
responses == <<respond, retryResp, responseQueue>>
vars == <<time, wake, nvmain, stack, pkt, requests, retry, responses, nextEventCycle>>

Idle == mode = "no" /\ stack = <<>>

Init ==
  /\ curTick = 0 /\ lastWakeup = 0
  /\ wake = clock
  /\ respond = [i \in Ports |-> None]
  /\ cycle = 0 /\ left = 0 /\ hop = 0 /\ mode = "no" /\ dumps = 0
  /\ stack = <<>>
  /\ pkt = [p \in Packets |-> "new"]
  /\ event = [p \in Packets |-> None]
  /\ queued = {} /\ requestMap = {}
  /\ retry = [i \in Ports |-> [read |-> FALSE, write |-> FALSE]]
  /\ retryResp = [i \in Ports |-> FALSE]
  /\ responseQueue = [i \in Ports |-> <<>>]
  /\ nextEventCycle = [i \in Ports |-> 0]

\* gem5 moves to the next tick when nothing is scheduled for this one.
Advance ==
  /\ Idle /\ curTick < MaxTick
  /\ wake # curTick /\ \A i \in Ports : respond[i] # curTick
  /\ curTick' = curTick + 1
  /\ UNCHANGED <<lastWakeup, wake, nvmain, stack, pkt, requests, retry, responses,
                 nextEventCycle>>

-----------------------------------------------------------------------------
\* RequestComplete and SendResponses

\* Changed: only the first instance's flags are looked at.
RetriesOfMaster == <<<<"read", master>>, <<"write", master>>>>

\* RequestComplete's loop over allInstances: the read flag of each, then the write flag.
Retries == [j \in 1..2 * Instances |-> <<IF j % 2 = 1 THEN "read" ELSE "write", (j + 1) \div 2>>]

\* ScheduleResponse, with the packet appended.
Respond(p) ==
  LET i == Port[p]
  IN  /\ responseQueue' = [responseQueue EXCEPT ![i] = Append(@, p)]
      /\ respond' = [respond EXCEPT ![i] = IF @ = None THEN curTick + clock ELSE @]
      /\ pkt' = [pkt EXCEPT ![p] = "replied"]
      /\ UNCHANGED retryResp

\* Changed: the request of a write keeps its packet when the copy is made.
FinishTwice(p) ==
  /\ stack # <<>> /\ Head(stack) = <<"finish", p>>
  /\ stack' = Tail(stack)
  /\ requestMap' = requestMap \ {p}
  /\ Respond(p)
  /\ UNCHANGED <<time, wake, nvmain, event, queued, retry, nextEventCycle>>

\* The end of RequestComplete, for a request whose packet is p or, once a write was
\* answered, none.
Finish(p) ==
  /\ stack # <<>> /\ Head(stack) = <<"finish", p>>
  /\ stack' = Tail(stack)
  /\ requestMap' = requestMap \ {p}
  /\ IF Kind[p] = "read" THEN Respond(p) ELSE UNCHANGED <<responses, pkt>>
  /\ UNCHANGED <<time, wake, nvmain, event, queued, retry, nextEventCycle>>

\* The same for the copy of a write, which is completed as soon as it is enqueued.
FinishCopy(p) ==
  /\ stack # <<>> /\ Head(stack) = <<"copy", p>>
  /\ stack' = Tail(stack)
  /\ IF Kind[p] = "write"
     THEN Respond(p)
     ELSE pkt' = [pkt EXCEPT ![p] = "done"] /\ UNCHANGED responses
  /\ UNCHANGED <<time, wake, nvmain, requests, retry, nextEventCycle>>

\* Changed: the response after the one that was sent is not scheduled.
SendOnly(i, scheduled) ==
  /\ responseQueue' = [responseQueue EXCEPT ![i] = Tail(@)]
  /\ pkt' = [pkt EXCEPT ![Head(responseQueue[i])] = "done"]
  /\ respond' = [respond EXCEPT ![i] = scheduled]
  /\ retryResp' = [retryResp EXCEPT ![i] = FALSE]

\* SendResponses with a response to send: the peer takes it, or will ask for it again.
\* scheduled is when respondEvent fires next.
SendFirst(i, scheduled) ==
  \/ /\ responseQueue' = [responseQueue EXCEPT ![i] = Tail(@)]
     /\ pkt' = [pkt EXCEPT ![Head(responseQueue[i])] = "done"]
     /\ respond' = [respond EXCEPT ![i] = IF scheduled = None /\ Len(responseQueue[i]) > 1
                                          THEN curTick + clock
                                          ELSE scheduled]
     /\ retryResp' = [retryResp EXCEPT ![i] = FALSE]
  \/ /\ retryResp' = [retryResp EXCEPT ![i] = TRUE]
     /\ respond' = [respond EXCEPT ![i] = scheduled]
     /\ UNCHANGED <<responseQueue, pkt>>

RespondEvent(i) ==
  /\ Idle /\ respond[i] = curTick
  /\ IF retryResp[i]
     THEN respond' = [respond EXCEPT ![i] = None] /\ UNCHANGED <<pkt, retryResp, responseQueue>>
     ELSE SendFirst(i, None)
  /\ UNCHANGED <<time, wake, nvmain, stack, requests, retry, nextEventCycle>>

RecvRetry(i) ==
  /\ Idle /\ retryResp[i]
  /\ SendFirst(i, respond[i])
  /\ UNCHANGED <<time, wake, nvmain, stack, requests, retry, nextEventCycle>>

-----------------------------------------------------------------------------
\* recvTimingReq

\* The cycle NVMain's local clock shows: inside a handler it is ahead of currentCycle.
Instant == cycle + hop

\* p has the event the global GetNextEvent finds.
IsNextEvent(p, events) ==
  /\ events[p] # None
  /\ \A q \in Packets : events[q] # None => events[p] <= events[q]

\* Changed: only a wakeup that is scheduled is moved.
RescheduleOnly(i, t) ==
  IF wake # None /\ t < nextEventCycle[i]
  THEN /\ wake' = curTick + clock * (IF t > cycle THEN t - cycle ELSE 1)
       /\ nextEventCycle' = [nextEventCycle EXCEPT ![i] = t]
  ELSE UNCHANGED <<wake, nextEventCycle>>

\* The wakeup after a request: sooner if NVMain now has an event before the one this instance
\* knows of, or if there was no wakeup.
Reschedule(i, t) ==
  IF wake = None \/ t < nextEventCycle[i]
  THEN /\ wake' = curTick + clock * (IF t > cycle THEN t - cycle ELSE 1)
       /\ nextEventCycle' = [nextEventCycle EXCEPT ![i] = t]
  ELSE UNCHANGED <<wake, nextEventCycle>>

\* recvTimingReq of packet p, called by gem5 or by sendRetryReq, with the retry flags set that
\* flags says and the calls that have not returned in rest.
Accept(p, flags, rest) ==
  /\ Kind[p] # "other" /\ Cardinality(queued) < Capacity
  /\ event' = [event EXCEPT ![p] = Instant]
  /\ queued' = queued \cup {p}
  /\ requestMap' = requestMap \cup {p}
  /\ \E q \in Packets : IsNextEvent(q, event') /\ Reschedule(Port[p], event'[q])
  /\ stack' = (IF Kind[p] = "read" THEN <<>> ELSE Append(Retries, <<"copy", p>>)) \o rest
  /\ pkt' = [pkt EXCEPT ![p] = "accepted"]
  /\ retry' = flags
  /\ UNCHANGED responses

Refuse(p, flags, rest) ==
  /\ Kind[p] # "other" /\ Cardinality(queued) >= Capacity
  /\ retry' = [flags EXCEPT ![Port[p]][IF Kind[p] = "read" THEN "read" ELSE "write"] = TRUE]
  /\ stack' = rest
  /\ pkt' = [pkt EXCEPT ![p] = "refused"]
  /\ UNCHANGED <<wake, requests, responses, nextEventCycle>>

RecvTimingReq(p, flags, rest) ==
  /\ Accept(p, flags, rest) \/ Refuse(p, flags, rest)
  /\ UNCHANGED <<time, nvmain>>

\* gem5 sends a packet, unless the port waits for a retry.
MaySend(p) ==
  /\ Idle /\ pkt[p] = "new"
  /\ \A q \in Packets : Port[q] = Port[p] => pkt[q] # "refused"

Send(p) == MaySend(p) /\ RecvTimingReq(p, retry, <<>>)

\* A packet that is neither read nor write is answered at once.
SendOther(p) ==
  /\ MaySend(p) /\ Kind[p] = "other"
  /\ Respond(p)
  /\ UNCHANGED <<time, wake, nvmain, stack, requests, retry, nextEventCycle>>

\* One flag of RequestComplete's loop: unset, or set and taken back.  gem5 sends the packet
\* that was refused from within sendRetryReq, or later.
RetryUnset(f, i) ==
  /\ stack # <<>> /\ Head(stack) = <<f, i>> /\ ~ retry[i][f]
  /\ stack' = Tail(stack)
  /\ UNCHANGED <<time, wake, nvmain, pkt, requests, retry, responses, nextEventCycle>>

RetryNow(f, i) ==
  /\ stack # <<>> /\ Head(stack) = <<f, i>> /\ retry[i][f]
  /\ \E p \in Packets :
       /\ pkt[p] = "refused" /\ Port[p] = i
       /\ RecvTimingReq(p, [retry EXCEPT ![i][f] = FALSE], Tail(stack))

RetryLater(f, i) ==
  /\ stack # <<>> /\ Head(stack) = <<f, i>> /\ retry[i][f]
  /\ stack' = Tail(stack)
  /\ retry' = [retry EXCEPT ![i][f] = FALSE]
  /\ pkt' = [p \in Packets |-> IF pkt[p] = "refused" /\ Port[p] = i THEN "new" ELSE pkt[p]]
  /\ UNCHANGED <<time, wake, nvmain, requests, responses, nextEventCycle>>

-----------------------------------------------------------------------------
\* tick and the statistics dump, which step NVMain's clock

Elapsed == (curTick - lastWakeup) \div clock

Tick ==
  /\ Idle /\ wake = curTick
  /\ wake' = None
  /\ mode' = "tick" /\ left' = Elapsed
  /\ UNCHANGED <<time, cycle, hop, dumps, stack, pkt, requests, retry, responses, nextEventCycle>>

DumpStats ==
  /\ Idle /\ dumps < MaxDumps
  /\ dumps' = dumps + 1
  /\ mode' = "dump" /\ left' = Elapsed
  /\ UNCHANGED <<time, wake, cycle, hop, stack, pkt, requests, retry, responses, nextEventCycle>>

Between(t) == IF t > cycle THEN t - cycle ELSE 0

\* Cycle handles the next event: a request is issued, is put off, or completes.
Handle(p) ==
  /\ mode # "no" /\ stack = <<>> /\ hop = 0
  /\ IsNextEvent(p, event) /\ Between(event[p]) <= left
  /\ hop' = Between(event[p])
  /\ \/ /\ p \in queued
        /\ \E t \in 1..Latency : event' = [event EXCEPT ![p] = cycle + hop' + t]
        /\ queued' \in {queued, queued \ {p}}
        /\ UNCHANGED stack
     \/ /\ p \notin queued
        /\ event' = [event EXCEPT ![p] = None]
        /\ stack' = Append(Retries, <<"finish", p>>)
        /\ UNCHANGED queued
  /\ UNCHANGED <<time, wake, cycle, left, mode, dumps, pkt, requestMap, retry, responses,
                 nextEventCycle>>

\* Changed: the cycle the event is handled in is counted as well.
HandlerReturnsCounted ==
  /\ stack = <<>> /\ hop > 0
  /\ cycle' = cycle + hop /\ left' = left - hop - 1 /\ hop' = 0
  /\ UNCHANGED <<time, wake, mode, dumps, stack, pkt, requests, retry, responses, nextEventCycle>>

HandlerReturns ==
  /\ stack = <<>> /\ hop > 0
  /\ cycle' = cycle + hop /\ left' = left - hop /\ hop' = 0
  /\ UNCHANGED <<time, wake, mode, dumps, stack, pkt, requests, retry, responses, nextEventCycle>>

\* Changed: tick does not take note of the time.
CycleEndForgets ==
  /\ mode # "no" /\ stack = <<>> /\ hop = 0
  /\ \A p \in Packets : event[p] # None => Between(event[p]) > left
  /\ cycle' = cycle + left /\ left' = 0
  /\ mode' = "no"
  /\ \/ \E p \in Packets :
          /\ mode = "tick" /\ IsNextEvent(p, event)
          /\ wake' = curTick + clock * (event[p] - cycle')
          /\ nextEventCycle' = [nextEventCycle EXCEPT ![master] = event[p]]
     \/ (mode = "tick" => \A p \in Packets : event[p] = None) /\ UNCHANGED <<wake, nextEventCycle>>
  /\ UNCHANGED <<time, hop, dumps, stack, pkt, requests, retry, responses>>

\* Cycle has no event left; tick takes note of the time and schedules the next wakeup.
CycleEnd ==
  /\ mode # "no" /\ stack = <<>> /\ hop = 0
  /\ \A p \in Packets : event[p] # None => Between(event[p]) > left
  /\ cycle' = cycle + left /\ left' = 0
  /\ mode' = "no"
  /\ lastWakeup' = IF mode = "tick" THEN curTick ELSE lastWakeup
  /\ IF mode = "tick" /\ \E p \in Packets : event[p] # None
     THEN \E p \in Packets :
            /\ IsNextEvent(p, event)
            /\ wake' = curTick + clock * (event[p] - cycle')
            /\ nextEventCycle' = [nextEventCycle EXCEPT ![master] = event[p]]
     ELSE UNCHANGED <<wake, nextEventCycle>>
  /\ UNCHANGED <<curTick, hop, dumps, stack, pkt, requests, retry, responses>>

Next ==
  \/ Advance \/ Tick \/ DumpStats \/ HandlerReturns \/ CycleEnd
  \/ \E p \in Packets : Send(p) \/ SendOther(p) \/ Handle(p) \/ Finish(p) \/ FinishCopy(p)
  \/ \E i \in Ports : RespondEvent(i) \/ RecvRetry(i)
  \/ \E f \in {"read", "write"}, i \in Ports : RetryUnset(f, i) \/ RetryNow(f, i) \/ RetryLater(f, i)

Spec == Init /\ [][Next]_vars

-----------------------------------------------------------------------------
\* Correctness

TypeOK ==
  /\ curTick \in 0..MaxTick /\ lastWakeup \in 0..curTick
  /\ wake \in Nat \cup {None} /\ respond \in [Ports -> Nat \cup {None}]
  /\ cycle \in Nat /\ left \in Nat /\ hop \in Nat /\ mode \in {"no", "tick", "dump"}
  /\ dumps \in 0..MaxDumps
  /\ pkt \in [Packets -> {"new", "refused", "accepted", "replied", "done"}]
  /\ event \in [Packets -> Nat \cup {None}]
  /\ queued \subseteq Packets /\ requestMap \subseteq Packets
  /\ retry \in [Ports -> [read : BOOLEAN, write : BOOLEAN]]
  /\ retryResp \in [Ports -> BOOLEAN]
  /\ responseQueue \in [Ports -> Seq(Packets)]
  /\ nextEventCycle \in [Ports -> Nat]

\* A packet that was accepted is owed one response: its request is in the map, or a call that
\* completes it runs, and only after that is it in the response queue, once.  A writeback,
\* which wants no response, never is.
OneResponse ==
  \A p \in Packets :
    /\ pkt[p] = "accepted" /\ Kind[p] = "read" => p \in requestMap
    /\ pkt[p] = "accepted" /\ Kind[p] # "read" => \E j \in 1..Len(stack) : stack[j] = <<"copy", p>>
    /\ Cardinality({j \in 1..Len(responseQueue[Port[p]]) : responseQueue[Port[p]][j] = p})
         = IF pkt[p] = "replied" THEN 1 ELSE 0
    /\ Kind[p] = "writeback" => pkt[p] # "replied"

\* A packet that waits for a retry gets it: its flag is set, and a request whose completion
\* will look at the flags is on its way through NVMain.  A flag is set for no other reason,
\* so that no packet is turned away "while waiting for retry".
RetryWillCome ==
  /\ \A i \in Ports : retry[i].read \/ retry[i].write =>
       \E p \in Packets : pkt[p] = "refused" /\ Port[p] = i
  /\ \A p \in Packets : pkt[p] = "refused" =>
       /\ retry[Port[p]][IF Kind[p] = "read" THEN "read" ELSE "write"]
       /\ Idle => \E q \in requestMap : event[q] # None

\* A response that waits is sent: by respondEvent or when the peer asks again.
ResponseWillGo ==
  \A i \in Ports : responseQueue[i] # <<>> => respond[i] # None \/ retryResp[i]

\* While NVMain has an event, gem5 will wake it up.
WakeWillCome == Idle /\ (\E p \in Packets : event[p] # None) => wake # None /\ wake >= curTick

\* The wakeup is rescheduled if NVMain needs it sooner: it comes no later than it takes from
\* now to get to the next event.
WakeInTime ==
  Idle => \A t \in {event[p] : p \in Packets} \ {None} :
            /\ wake # None
            /\ wake <= curTick + clock * (IF t > cycle THEN t - cycle ELSE 1)

\* NVMain's clock never runs ahead of gem5's, however often tick is rescheduled; only a
\* statistics dump makes it count cycles that the next tick counts again.
NeverAhead == dumps = 0 => cycle * clock <= curTick
=============================================================================
