------------------------------ MODULE Migration ------------------------------
(***************************************************************************)
(* Pages that move between a fast channel and slow ones while NVMain       *)
(* serves requests: the CoinMigrator hook, which swaps a page with one of  *)
(* the fast channel, and the Migrator decoder, which remembers where pages *)
(* have gone.  A swap reads both pages into a buffer and writes each to    *)
(* the other's place; it shares the controllers' queues with the requests  *)
(* of the callers, so a write may have to wait for room.                   *)
(*                                                                         *)
(* A page is a channel and the place in it, which stands for row, bank,    *)
(* rank and subarray; the decoder only ever changes the channel.  A        *)
(* controller is a queue of limited length and the banks behind it; of the *)
(* callers' requests only their number matters.  There is no prefetcher.   *)
(***************************************************************************)
EXTENDS Integers

CONSTANTS CHANNELS, PAGES,      \* the channels, and the pages of each
          promotionChannel,     \* the fast one
          QueueSize,            \* the transactions a controller can queue
          MaxInFlight           \* bound: callers' requests in the banks, and in the buffer

ASSUME MigrationAssumption ==
  /\ {CHANNELS, PAGES, QueueSize, MaxInFlight} \subseteq Nat \ {0}
  /\ promotionChannel \in 0..CHANNELS - 1

Channels == 0..CHANNELS - 1
Pages == [channel : Channels, place : 0..PAGES - 1]

\* The two requests of a swap, for the promotee's data and for the demotee's.
Sides == {"promo", "demo"}

VARIABLES migrationMap, migrationState,     \* of the decoder, by page
          migrating, inputPage, outputPage, \* the swap in progress: promotee and demotee
          request,                          \* promoRequest and demoRequest
          buffered,                         \* promoBuffered and demoBuffered: a write had no room
          currentPromotionPage,             \* the next victim
          queued,                           \* callers' requests in each transaction queue
          inBanks, inBuffer,                \* those in the banks, or answered by the buffer
          aborted                           \* "no", or why the simulator has died

decoder == <<migrationMap, migrationState, migrating, inputPage, outputPage>>
callers == <<queued, inBanks, inBuffer>>
vars == <<decoder, request, buffered, currentPromotionPage, callers, aborted>>

\* A request starts with an address of zeros; NVMain translates it when it issues it.
Untranslated == [channel |-> 0, place |-> 0]

\* A request of the migration for the place of a page, in the queue of its channel.
Request(tag, page) == [tag |-> tag, page |-> page, at |-> "queue"]
None == [tag |-> "none", page |-> Untranslated, at |-> "none"]

Init ==
  /\ migrationMap = [p \in Pages |-> p.channel]
  /\ migrationState = [p \in Pages |-> "NONE"]
  /\ migrating = FALSE
  /\ inputPage = Untranslated /\ outputPage = Untranslated
  /\ request = [s \in Sides |-> None]
  /\ buffered = [s \in Sides |-> FALSE]
  /\ currentPromotionPage = 0
  /\ queued = [c \in Channels |-> 0] /\ inBanks = 0 /\ inBuffer = 0
  /\ aborted = "no"

-----------------------------------------------------------------------------
\* The decoder

\* IsMigrated that only knows the pages that have come to the fast channel.
IsMigratedUp(p) == migrationState[p] = "DONE" /\ p.channel # promotionChannel

IsMigrated(p) == migrationState[p] = "DONE"
IsBuffered(p) == migrationState[p] \in {"BUFFERED", "WRITING"}
Translate(p) == IF migrationState[p] = "DONE" THEN migrationMap[p] ELSE p.channel

StartMigration(promotee, demotee) ==
  /\ migrationMap' = [migrationMap EXCEPT ![promotee] = demotee.channel, ![demotee] = promotee.channel]
  /\ migrationState' = [migrationState EXCEPT ![promotee] = "READING", ![demotee] = "READING"]
  /\ migrating' = TRUE
  /\ inputPage' = promotee /\ outputPage' = demotee

\* SetMigrationState that takes one page for the whole swap.
SetMigrationStateEither(states) ==
  /\ migrationState' = states
  /\ migrating' = (migrating /\ states[inputPage] # "DONE" /\ states[outputPage] # "DONE")
  /\ UNCHANGED <<migrationMap, inputPage, outputPage>>

\* SetMigrationState that never ends the swap.
SetMigrationStateOpen(states) ==
  /\ migrationState' = states
  /\ UNCHANGED <<migrationMap, migrating, inputPage, outputPage>>

\* SetMigrationState, for the pages that change.
SetMigrationState(states) ==
  /\ migrationState' = states
  /\ migrating' = (migrating /\ ~(states[inputPage] = "DONE" /\ states[outputPage] = "DONE"))
  /\ UNCHANGED <<migrationMap, inputPage, outputPage>>

-----------------------------------------------------------------------------
\* The controllers

\* The transactions in the queue of channel c, and whether it takes another.
Takes(s, c) == IF request[s].at = "queue" /\ request[s].page.channel = c THEN 1 ELSE 0
Occupied(c) == queued[c] + Takes("promo", c) + Takes("demo", c)
IsIssuable(c) == Occupied(c) < QueueSize

\* The scheduler takes a transaction out of its queue: a caller's, or one of the migration.
Schedule(c) ==
  /\ aborted = "no" /\ queued[c] > 0 /\ inBanks < MaxInFlight
  /\ queued' = [queued EXCEPT ![c] = @ - 1] /\ inBanks' = inBanks + 1
  /\ UNCHANGED <<decoder, request, buffered, currentPromotionPage, inBuffer, aborted>>

ScheduleMigration(s) ==
  /\ aborted = "no" /\ request[s].at = "queue"
  /\ request' = [request EXCEPT ![s].at = "banks"]
  /\ UNCHANGED <<decoder, buffered, currentPromotionPage, callers, aborted>>

-----------------------------------------------------------------------------
\* A caller issues a request

\* The victims are the fast channel's pages in turn.
ChooseVictim == [channel |-> promotionChannel, place |-> currentPromotionPage]

\* A choice that does not go back to the first page.
AfterVictimOn == currentPromotionPage + 1

AfterVictim == (currentPromotionPage + 1) % PAGES

\* Room for both reads is looked for once the caller's request is in its queue.
CheckIssuable(address) == Occupied(address.channel) + 1 < QueueSize /\ IsIssuable(promotionChannel)

\* A migration of the page at `address' starts if both reads can be queued.
Migrate(address) ==
  LET victim == ChooseVictim IN
  /\ currentPromotionPage' = AfterVictim
  /\ \/ /\ IsMigrated(victim)                            \* assert
        /\ aborted' = "victim"
        /\ UNCHANGED <<decoder, request>>
     \/ /\ ~IsMigrated(victim) /\ CheckIssuable(address)
        /\ StartMigration(address, victim)
        /\ request' = [s \in Sides |-> Request("read", IF s = "promo" THEN address ELSE victim)]
        /\ UNCHANGED aborted
     \/ /\ ~IsMigrated(victim) /\ ~CheckIssuable(address)
        /\ UNCHANGED <<decoder, request, aborted>>

\* The post-issue hook: a request for a page of a slow channel, as translated, may start a
\* migration when none is in progress; a coin decides.
TryMigration(address) ==
  \/ /\ ~migrating /\ ~IsMigrated(address) /\ address.channel # promotionChannel
     /\ Migrate(address)
  \/ UNCHANGED <<decoder, request, currentPromotionPage, aborted>>

\* NVMObject_hook::IssueCommand of NVMain, for a request that NVMain::IsIssuable lets in.  The
\* pre-issue hook answers from the buffer, but looks at the address before it is translated;
\* the post-issue hook does nothing then, as a migration is in progress.
IssueCommand(p) ==
  LET c == Translate(p) IN
  /\ aborted = "no" /\ IsIssuable(c)
  /\ \/ /\ IsBuffered(Untranslated) /\ inBuffer < MaxInFlight
        /\ inBuffer' = inBuffer + 1
        /\ UNCHANGED <<queued, inBanks, decoder, request, currentPromotionPage, aborted>>
     \/ /\ ~IsBuffered(Untranslated)
        /\ queued' = [queued EXCEPT ![c] = @ + 1]
        /\ UNCHANGED <<inBanks, inBuffer>>
        /\ TryMigration([p EXCEPT !.channel = c])
  /\ UNCHANGED buffered

-----------------------------------------------------------------------------
\* A request completes: CoinMigrator::RequestComplete, then NVMain hands it on or deletes it

\* The place the data of a side goes to: that of the other page.
Destination(s) == IF s = "promo" THEN outputPage ELSE inputPage

\* A read of the migration.  With both pages in the buffer the requests swap addresses and
\* become writes; one that finds no room is held back.
ReadComplete(s) ==
  LET states == [migrationState EXCEPT ![request[s].page] = "BUFFERED"]
      complete == {states[inputPage], states[outputPage]} \subseteq {"BUFFERED", "WRITING"}
      Issued(d) == complete /\ IsIssuable(Destination(d).channel)
  IN
  /\ SetMigrationState([p \in Pages |->
       IF \E d \in Sides : Issued(d) /\ p = Destination(d) THEN "WRITING" ELSE states[p]])
  /\ request' = [d \in Sides |-> IF Issued(d) THEN Request("write", Destination(d))
                                 ELSE IF complete \/ d = s THEN None ELSE request[d]]
  /\ buffered' = IF complete THEN [d \in Sides |-> ~Issued(d)] ELSE buffered

WriteComplete(s) ==
  /\ SetMigrationState([migrationState EXCEPT ![request[s].page] = "DONE"])
  /\ request' = [request EXCEPT ![s] = None]
  /\ UNCHANGED buffered

MigrationComplete(s) ==
  /\ aborted = "no" /\ request[s].at = "banks"
  /\ \/ request[s].tag = "read" /\ ReadComplete(s)
     \/ request[s].tag = "write" /\ WriteComplete(s)
  /\ UNCHANGED <<currentPromotionPage, callers, aborted>>

\* A hook that never tries a write again.
RetryNever == UNCHANGED <<request, buffered, aborted>>

\* Any other completion tries a write that was held back again.  Issuing the first of two runs
\* this hook for the controller, which leaves it without a parent: the second dereferences it.
Retry ==
  LET s == IF buffered["promo"] THEN "promo" ELSE "demo"
      issued == buffered[s] /\ IsIssuable(Destination(s).channel)
  IN
  /\ request' = IF issued THEN [request EXCEPT ![s] = Request("write", Destination(s))] ELSE request
  /\ buffered' = [buffered EXCEPT ![s] = @ /\ ~issued]
  /\ aborted' = IF buffered["promo"] /\ buffered["demo"] THEN "parent" ELSE aborted

RequestComplete ==
  /\ aborted = "no"
  /\ \/ inBanks > 0 /\ inBanks' = inBanks - 1 /\ UNCHANGED inBuffer
     \/ inBuffer > 0 /\ inBuffer' = inBuffer - 1 /\ UNCHANGED inBanks
  /\ Retry
  /\ UNCHANGED <<decoder, currentPromotionPage, queued>>

-----------------------------------------------------------------------------
Next ==
  \/ \E p \in Pages : IssueCommand(p)
  \/ \E c \in Channels : Schedule(c)
  \/ \E s \in Sides : ScheduleMigration(s) \/ MigrationComplete(s)
  \/ RequestComplete

Spec == Init /\ [][Next]_vars

\* The controllers schedule and complete what they have accepted.
FairSpec ==
  /\ Spec
  /\ \A c \in Channels : WF_vars(Schedule(c))
  /\ \A s \in Sides : WF_vars(ScheduleMigration(s)) /\ WF_vars(MigrationComplete(s))
  /\ WF_vars(RequestComplete)

-----------------------------------------------------------------------------
\* Properties

TypeOK ==
  /\ migrationMap \in [Pages -> Channels]
  /\ migrationState \in [Pages -> {"NONE", "READING", "BUFFERED", "WRITING", "DONE"}]
  /\ migrating \in BOOLEAN /\ inputPage \in Pages /\ outputPage \in Pages
  /\ request \in [Sides -> [tag : {"none", "read", "write"}, page : Pages, at : {"none", "queue", "banks"}]]
  /\ buffered \in [Sides -> BOOLEAN]
  /\ currentPromotionPage \in 0..PAGES - 1
  /\ queued \in [Channels -> Nat] /\ inBanks \in Nat /\ inBuffer \in Nat
  /\ aborted \in {"no", "victim", "parent"}

\* The page a side's data comes from.
Origin(s) == IF s = "promo" THEN inputPage ELSE outputPage

\* The decoder's states are what the migration is doing.  A page is READING exactly while the
\* read of it is under way; once both are read, each page has the write to its place under way,
\* held back, or done; and between swaps no page is left half-way.  So SetMigrationState and
\* StartMigration never fail their assertions, nor TryMigration its own on held writes.
Accounted ==
  /\ \A p \in Pages : migrationState[p] \in {"READING", "BUFFERED", "WRITING"}
                        => migrating /\ p \in {inputPage, outputPage}
  /\ \A s \in Sides :
       /\ migrating /\ migrationState[Origin(s)] = "READING"
            <=> request[s].tag = "read"
       /\ request[s].tag = "read" => request[s].page = Origin(s)
       /\ request[s].tag = "write" =>
            request[s].page = Destination(s) /\ IsBuffered(Destination(s)) /\ ~buffered[s]
       /\ migrationState[Destination(s)] = "WRITING" => request[s].tag = "write"
       /\ buffered[s] => migrationState[Destination(s)] = "BUFFERED"
       /\ migrationState[Destination(s)] = "BUFFERED" =>
            \/ request[s].tag = "write" \/ buffered[s]
            \/ \E d \in Sides : migrationState[Origin(d)] = "READING"

Quiet == inBanks = 0 /\ inBuffer = 0 /\ \A c \in Channels : queued[c] = 0

\* A write that found no room is not forgotten: while one is held back, a caller's request is
\* still to complete, and its completion tries again.
HeldHasRetry == (\E s \in Sides : buffered[s]) /\ aborted = "no" => ~Quiet

\* A page migrates once: what Translate says of it stays as it is, whatever is swapped later
\* (the checks of TryMigration and its assertion on the victim).
MigratesOnce ==
  [][\A p \in Pages : migrationState[p] = "DONE" => Translate(p)' = Translate(p)]_vars

\* If the callers pause again and again, a swap that has started comes to its end, unless the
\* simulator dies.
MigrationEnds == []<>(Quiet \/ aborted # "no") => (migrating ~> ~migrating \/ aborted # "no")

\* CoinMigrator.cpp: "As a result we need to save a pointer to the NVMain class we are issuing
\* requests to": the hook never issues a request through a parent it has lost.
ParentKept == aborted # "parent"
=============================================================================
