--------------------------- MODULE MigrationProofs ---------------------------
(***************************************************************************)
(* Proofs about Migration, for every number of channels and pages and for  *)
(* every length of the queues.                                             *)
(***************************************************************************)
EXTENDS Migration, TLAPS

\* Zenon proves a leaf that names no other prover.
USE Zenon

\* What the properties need besides themselves: a swap is between a slow channel and the fast
\* one, a request is somewhere as long as it has a tag, and no page is written or held back
\* before both have been read.
Strength ==
  /\ migrating => inputPage.channel # promotionChannel /\ outputPage.channel = promotionChannel
  /\ \A s \in Sides : request[s].at = "none" <=> request[s].tag = "none"
  /\ \A s \in Sides : migrating /\ migrationState[Origin(s)] = "READING"
                        => migrationState[Destination(s)] \in {"READING", "BUFFERED"}
  /\ \A s, d \in Sides : buffered[s] => migrationState[Origin(d)] # "READING"

IInv == TypeOK /\ Accounted /\ HeldHasRetry /\ Strength

ActiveStates == {"READING", "BUFFERED", "WRITING"}

\* A remainder is smaller than what is divided by.
LEMMA ModuloRange ==
  ASSUME NEW a \in Nat, NEW b \in Nat \ {0}
  PROVE  a % b \in 0..b - 1
  BY SMT

\* The address of zeros is a page, and a translated address is one too.
LEMMA UntranslatedPage == Untranslated \in Pages
  BY MigrationAssumption, SMT DEF Untranslated, Pages, Channels

\* The invariant holds before the first request.
LEMMA InitIInv == Init => IInv
<1> SUFFICES ASSUME Init PROVE IInv
  OBVIOUS
<1>1. TypeOK
  BY UntranslatedPage, MigrationAssumption
  DEF Init, TypeOK, Pages, Channels, Sides, None, Untranslated
<1>2. Accounted
  BY UntranslatedPage DEF Init, Accounted, Sides, None, Origin, Destination, IsBuffered
<1>3. HeldHasRetry /\ Strength
  BY UntranslatedPage DEF Init, HeldHasRetry, Strength, Sides, None
<1> QED
  BY <1>1, <1>2, <1>3 DEF IInv

\* Between swaps there are no requests and nothing is held back.
LEMMA IdleBetweenSwaps ==
  ASSUME IInv, ~migrating
  PROVE  \A s \in Sides : request[s].tag = "none" /\ request[s].at = "none" /\ ~buffered[s]
<1> USE DEF Sides, Origin, Destination
<1>1. \A p \in Pages : migrationState[p] \notin ActiveStates
  BY DEF IInv, Accounted, ActiveStates
<1>2. inputPage \in Pages /\ outputPage \in Pages
  BY DEF IInv, TypeOK
<1>3. ASSUME NEW s \in Sides PROVE request[s].tag = "none" /\ ~buffered[s]
  <2>1. Destination(s) \in Pages
    BY <1>2
  <2>2. request[s].tag \in {"none", "read", "write"}
    BY DEF IInv, TypeOK
  <2> QED
    BY <1>1, <2>1, <2>2 DEF IInv, Accounted, ActiveStates, IsBuffered
<1> QED
  BY <1>3 DEF IInv, Strength

-----------------------------------------------------------------------------
\* One lemma for every action.  Scheduling and the callers' side only move requests on.

\* A controller schedules a caller's request (the transaction queue of its channel).
LEMMA ScheduleIInv ==
  ASSUME IInv, NEW c \in Channels, Schedule(c)
  PROVE  IInv'
<1> USE DEF IInv, Schedule, decoder
<1>1. TypeOK'
  BY SMT DEF TypeOK
<1>2. Accounted' /\ Strength'
  BY SMT DEF Accounted, Strength, Origin, Destination, IsBuffered
<1>3. HeldHasRetry'
  BY SMT DEF HeldHasRetry, Quiet, TypeOK
<1> QED
  BY <1>1, <1>2, <1>3

\* A controller schedules a request of the migration.
LEMMA ScheduleMigrationIInv ==
  ASSUME IInv, NEW s \in Sides, ScheduleMigration(s)
  PROVE  IInv'
<1> USE DEF IInv, ScheduleMigration, decoder, callers
<1>1. /\ request'[s] = [request[s] EXCEPT !.at = "banks"]
      /\ \A d \in Sides : d # s => request'[d] = request[d]
  BY DEF TypeOK
<1>2. \A d \in Sides : /\ request'[d].tag = request[d].tag /\ request'[d].page = request[d].page
                       /\ request'[d].at = "none" <=> request[d].at = "none"
  BY <1>1, SMT DEF TypeOK
<1>3. TypeOK'
  BY <1>1, SMT DEF TypeOK
<1>4. Accounted' /\ Strength'
  BY <1>2, SMT DEF Accounted, Strength, Origin, Destination, IsBuffered
<1>5. HeldHasRetry'
  BY DEF HeldHasRetry, Quiet
<1> QED
  BY <1>3, <1>4, <1>5

\* A swap starts with two pages that are in none of the active states.
LEMMA StartIInv ==
  ASSUME IInv, ~migrating, NEW address \in Pages, ~IsMigrated(address),
         address.channel # promotionChannel, ~IsMigrated(ChooseVictim),
         StartMigration(address, ChooseVictim), UNCHANGED buffered,
         request' = [s \in Sides |-> Request("read", IF s = "promo" THEN address ELSE ChooseVictim)]
  PROVE  /\ Accounted' /\ Strength'
         /\ migrationMap' \in [Pages -> Channels]
         /\ migrationState' \in [Pages -> {"NONE", "READING", "BUFFERED", "WRITING", "DONE"}]
         /\ migrating' = TRUE /\ inputPage' \in Pages /\ outputPage' \in Pages
         /\ request' \in [Sides -> [tag : {"none", "read", "write"}, page : Pages,
                                    at : {"none", "queue", "banks"}]]
<1> DEFINE victim == ChooseVictim
<1>1. victim \in Pages /\ victim.channel = promotionChannel
  BY MigrationAssumption DEF ChooseVictim, Pages, Channels, IInv, TypeOK
<1>2. address # victim
  BY <1>1
<1>3. \A s \in Sides : ~buffered[s] /\ ~buffered'[s]
  BY IdleBetweenSwaps
<1>4. \A p \in Pages : migrationState[p] \notin ActiveStates
  BY DEF IInv, Accounted, ActiveStates
<1>5. /\ migrationState' \in [Pages -> {"NONE", "READING", "BUFFERED", "WRITING", "DONE"}]
      /\ migrationMap' \in [Pages -> Channels]
  BY <1>1, MigrationAssumption DEF IInv, TypeOK, StartMigration, Pages, Channels
<1>6. /\ migrationState'[address] = "READING" /\ migrationState'[victim] = "READING"
      /\ \A p \in Pages : p \notin {address, victim} => migrationState'[p] \notin ActiveStates
  BY <1>1, <1>2, <1>4 DEF IInv, TypeOK, StartMigration
<1>7. migrating' = TRUE /\ inputPage' = address /\ outputPage' = victim
  BY DEF StartMigration
<1>8. request'["promo"] = Request("read", address) /\ request'["demo"] = Request("read", victim)
  BY DEF Sides
<1> HIDE DEF victim
<1>9. Accounted'
  BY <1>1, <1>3, <1>6, <1>7, <1>8
  DEF Accounted, Sides, Origin, Destination, IsBuffered, Request, ActiveStates
<1>10. Strength'
  BY <1>1, <1>3, <1>6, <1>7, <1>8 DEF Strength, Sides, Origin, Destination, Request
<1>11. request' \in [Sides -> [tag : {"none", "read", "write"}, page : Pages, at : {"none", "queue", "banks"}]]
  BY <1>1 DEF Request, victim
<1> QED
  BY <1>1, <1>5, <1>7, <1>9, <1>10, <1>11

\* NVMain accepts a caller's request, and the hook may start a swap (TryMigration).
LEMMA IssueIInv ==
  ASSUME IInv, NEW p \in Pages, IssueCommand(p)
  PROVE  IInv'
<1> DEFINE c == Translate(p)
           address == [p EXCEPT !.channel = c]
<1>1. c \in Channels /\ address \in Pages
  BY DEF IInv, TypeOK, Translate, Pages
<1>2. \/ queued' = queued /\ inBuffer' = inBuffer + 1
      \/ queued' = [queued EXCEPT ![c] = @ + 1] /\ inBuffer' = inBuffer
  BY DEF IssueCommand
<1>3. inBanks' = inBanks /\ buffered' = buffered
  BY DEF IssueCommand
<1> HIDE DEF c
<1>4. HeldHasRetry'
  BY <1>1, <1>2, <1>3, SMT DEF IInv, TypeOK, HeldHasRetry, Quiet
<1>5. queued' \in [Channels -> Nat] /\ inBanks' \in Nat /\ inBuffer' \in Nat
  BY <1>1, <1>2, <1>3, SMT DEF IInv, TypeOK
<1>6. CASE UNCHANGED <<decoder, request>> /\ currentPromotionPage' \in 0..PAGES - 1
           /\ aborted' \in {"no", "victim", "parent"}
  <2>1. TypeOK'
    BY <1>3, <1>5, <1>6 DEF IInv, TypeOK, decoder
  <2>2. Accounted' /\ Strength'
    BY <1>3, <1>6, SMT DEF IInv, Accounted, Strength, Origin, Destination, IsBuffered, decoder
  <2> QED
    BY <1>4, <2>1, <2>2 DEF IInv
<1>7. CASE TryMigration(address)
  <2>1. CASE UNCHANGED <<decoder, request, currentPromotionPage, aborted>>
    BY <1>6, <2>1 DEF IInv, TypeOK
  <2>2. CASE ~migrating /\ ~IsMigrated(address) /\ address.channel # promotionChannel /\ Migrate(address)
    <3>1. currentPromotionPage' \in 0..PAGES - 1
      <4>1. currentPromotionPage + 1 \in Nat
        BY SMT DEF IInv, TypeOK
      <4> QED
        BY <2>2, <4>1, ModuloRange, MigrationAssumption DEF Migrate, AfterVictim
    <3>2. CASE UNCHANGED <<decoder, request>> /\ aborted' \in {aborted, "victim"}
      BY <1>6, <3>1, <3>2 DEF IInv, TypeOK
    <3>3. CASE /\ ~IsMigrated(ChooseVictim) /\ StartMigration(address, ChooseVictim) /\ aborted' = aborted
               /\ request' = [s \in Sides |-> Request("read", IF s = "promo" THEN address ELSE ChooseVictim)]
      <4> HIDE DEF address
      <4>1. /\ Accounted' /\ Strength'
            /\ migrationMap' \in [Pages -> Channels]
            /\ migrationState' \in [Pages -> {"NONE", "READING", "BUFFERED", "WRITING", "DONE"}]
            /\ migrating' = TRUE /\ inputPage' \in Pages /\ outputPage' \in Pages
            /\ request' \in [Sides -> [tag : {"none", "read", "write"}, page : Pages,
                                       at : {"none", "queue", "banks"}]]
        BY <1>1, <1>3, <2>2, <3>3, StartIInv
      <4>2. TypeOK'
        BY <1>3, <1>5, <3>1, <3>3, <4>1 DEF IInv, TypeOK
      <4> QED
        BY <1>4, <4>1, <4>2 DEF IInv
    <3> QED
      BY <2>2, <3>2, <3>3 DEF Migrate
  <2> QED
    BY <1>7, <2>1, <2>2 DEF TryMigration
<1>8. CASE UNCHANGED <<decoder, request, currentPromotionPage, aborted>>
  BY <1>6, <1>8, SMT DEF IInv, TypeOK
<1> QED
  BY <1>7, <1>8 DEF IssueCommand, c

-----------------------------------------------------------------------------
\* Completions

\* The sides mirror each other, and their pages are in different channels.
LEMMA Mirror ==
  ASSUME IInv, migrating, NEW s \in Sides, NEW d \in Sides, d # s
  PROVE  /\ Origin(d) = Destination(s) /\ Destination(d) = Origin(s)
         /\ Origin(s) \in Pages /\ Destination(s) \in Pages
         /\ Origin(s).channel # Destination(s).channel
         /\ Origin(s) # Destination(s)
         /\ {inputPage, outputPage} = {Origin(s), Destination(s)}
  BY DEF IInv, TypeOK, Strength, Sides, Origin, Destination

\* A swap has two sides.
LEMMA OtherSide ==
  ASSUME NEW s \in Sides
  PROVE  \E d \in Sides : d # s /\ Sides = {s, d}
  BY DEF Sides

\* A write is refused only by a queue that holds a request of a caller.
LEMMA RefusedByCaller ==
  ASSUME IInv, NEW c \in Channels, ~IsIssuable(c), Takes("promo", c) = 0, Takes("demo", c) = 0
  PROVE  queued[c] > 0
  BY MigrationAssumption, SMT DEF IInv, TypeOK, IsIssuable, Occupied

\* While a page is being read nothing is written or held back.
LEMMA NoWriteWhileReading ==
  ASSUME IInv, NEW s \in Sides, request[s].tag = "read"
  PROVE  /\ migrating /\ request[s].page = Origin(s) /\ migrationState[Origin(s)] = "READING"
         /\ migrationState[Destination(s)] \in {"READING", "BUFFERED"}
         /\ \A d \in Sides : ~buffered[d] /\ request[d].tag # "write"
<1>1. migrating /\ request[s].page = Origin(s) /\ migrationState[Origin(s)] = "READING"
  BY DEF IInv, Accounted
<1>2. \A d \in Sides : ~buffered[d]
  BY <1>1 DEF IInv, Strength
<1>3. migrationState[Destination(s)] \in {"READING", "BUFFERED"}
  BY <1>1 DEF IInv, Strength
<1>4. ASSUME NEW d \in Sides, d # s PROVE request[d].tag # "write"
  BY <1>1, <1>4, Mirror DEF IInv, Accounted, IsBuffered
<1> QED
  BY <1>1, <1>2, <1>3, <1>4

\* A read of the swap completes; with both pages in the buffer the writes start or are held back.
LEMMA ReadIInv ==
  ASSUME IInv, NEW s \in Sides, request[s].tag = "read", request[s].at = "banks", ReadComplete(s),
         UNCHANGED <<currentPromotionPage, callers, aborted>>
  PROVE  IInv'
<1> DEFINE states == [migrationState EXCEPT ![request[s].page] = "BUFFERED"]
           complete == {states[inputPage], states[outputPage]} \subseteq {"BUFFERED", "WRITING"}
           Issued(e) == complete /\ IsIssuable(Destination(e).channel)
           new == [p \in Pages |-> IF \E e \in Sides : Issued(e) /\ p = Destination(e)
                                   THEN "WRITING" ELSE states[p]]
<1>1. PICK d \in Sides : d # s /\ Sides = {s, d}
  BY OtherSide
<1>2. /\ migrating /\ request[s].page = Origin(s) /\ migrationState[Origin(s)] = "READING"
      /\ migrationState[Destination(s)] \in {"READING", "BUFFERED"}
      /\ \A e \in Sides : ~buffered[e] /\ request[e].tag # "write"
  BY NoWriteWhileReading
<1>3. /\ Origin(d) = Destination(s) /\ Destination(d) = Origin(s)
      /\ Origin(s) \in Pages /\ Destination(s) \in Pages
      /\ Origin(s).channel # Destination(s).channel /\ Origin(s) # Destination(s)
      /\ {inputPage, outputPage} = {Origin(s), Destination(s)}
  BY <1>1, <1>2, Mirror
<1>4. /\ states \in [Pages -> {"NONE", "READING", "BUFFERED", "WRITING", "DONE"}]
      /\ states[Origin(s)] = "BUFFERED"
      /\ \A p \in Pages : p # Origin(s) => states[p] = migrationState[p]
  BY <1>2, <1>3 DEF IInv, TypeOK
<1>5. complete <=> migrationState[Destination(s)] = "BUFFERED"
  BY <1>2, <1>3, <1>4, SMT
<1>6. /\ migrationState' = new /\ UNCHANGED <<migrationMap, inputPage, outputPage>>
      /\ request' = [e \in Sides |-> IF Issued(e) THEN Request("write", Destination(e))
                                     ELSE IF complete \/ e = s THEN None ELSE request[e]]
      /\ buffered' = IF complete THEN [e \in Sides |-> ~Issued(e)] ELSE buffered
      /\ migrating' = (migrating /\ ~(new[inputPage] = "DONE" /\ new[outputPage] = "DONE"))
  BY DEF ReadComplete, SetMigrationState
<1> HIDE DEF states, complete
<1>7. /\ new \in [Pages -> {"NONE", "READING", "BUFFERED", "WRITING", "DONE"}]
      /\ \A p \in Pages : p \notin {Origin(s), Destination(s)} => new[p] = migrationState[p]
      /\ new[Origin(s)] = IF Issued(d) THEN "WRITING" ELSE "BUFFERED"
      /\ new[Destination(s)] = IF ~complete THEN "READING" ELSE IF Issued(s) THEN "WRITING" ELSE "BUFFERED"
  BY <1>1, <1>2, <1>3, <1>4, <1>5
<1> HIDE DEF new, Issued
<1>8. migrating' = TRUE
  BY <1>2, <1>3, <1>6, <1>7
<1>9. \A e \in Sides : Origin(e)' = Origin(e) /\ Destination(e)' = Destination(e)
  BY <1>6 DEF Origin, Destination
<1>10. /\ \A e \in Sides : Issued(e) => request'[e] = Request("write", Destination(e))
       /\ \A e \in Sides : ~Issued(e) /\ (complete \/ e = s) => request'[e] = None
       /\ \A e \in Sides : ~Issued(e) /\ ~(complete \/ e = s) => request'[e] = request[e]
       /\ \A e \in Sides : buffered'[e] = (complete /\ ~Issued(e))
       /\ \A e \in Sides : Issued(e) => complete
  BY <1>2, <1>6 DEF Issued, IInv, TypeOK
<1>a. /\ \A e \in Sides : Issued(e) => /\ request'[e].tag = "write" /\ request'[e].at = "queue"
                                       /\ request'[e].page = Destination(e)
      /\ \A e \in Sides : ~Issued(e) /\ (complete \/ e = s) =>
           request'[e].tag = "none" /\ request'[e].at = "none"
  <2>1. ASSUME NEW e \in Sides, Issued(e)
        PROVE  /\ request'[e].tag = "write" /\ request'[e].at = "queue"
               /\ request'[e].page = Destination(e)
    <3>1. request'[e] = Request("write", Destination(e))
      BY <1>10, <2>1
    <3> QED
      BY <3>1, SMT DEF Request
  <2>2. ASSUME NEW e \in Sides, ~Issued(e), complete \/ e = s
        PROVE  request'[e].tag = "none" /\ request'[e].at = "none"
    <3>1. request'[e] = None
      BY <1>10, <2>2
    <3> QED
      BY <3>1, SMT DEF None
  <2> QED
    BY <2>1, <2>2
<1>b. /\ \A e \in Sides : Issued(e) => migrationState'[Destination(e)] = "WRITING"
      /\ \A e \in Sides : complete /\ ~Issued(e) => migrationState'[Destination(e)] = "BUFFERED"
      /\ ~complete => migrationState'[Destination(s)] = "READING" /\ migrationState'[Destination(d)] = "BUFFERED"
  <2>1. /\ Issued(s) => migrationState'[Destination(s)] = "WRITING"
        /\ complete /\ ~Issued(s) => migrationState'[Destination(s)] = "BUFFERED"
        /\ ~complete => migrationState'[Destination(s)] = "READING"
    BY <1>6, <1>7, <1>10
  <2>2. /\ Issued(d) => migrationState'[Destination(d)] = "WRITING"
        /\ ~Issued(d) => migrationState'[Destination(d)] = "BUFFERED"
    BY <1>3, <1>6, <1>7
  <2> QED
    BY <1>1, <1>10, <2>1, <2>2
<1>11. TypeOK'
  <2>1. \A e \in Sides : Destination(e) \in Pages
    BY <1>1, <1>3
  <2>2. request' \in [Sides -> [tag : {"none", "read", "write"}, page : Pages, at : {"none", "queue", "banks"}]]
    BY <1>6, <2>1, UntranslatedPage DEF IInv, TypeOK, Request, None
  <2>3. buffered' \in [Sides -> BOOLEAN]
    BY <1>6 DEF IInv, TypeOK, Issued
  <2> QED
    BY <1>6, <1>7, <1>8, <2>2, <2>3 DEF IInv, TypeOK, callers
<1>12. Strength'
  <2>1. \A e \in Sides : request'[e].at = "none" <=> request'[e].tag = "none"
    BY <1>10, <1>a, SMT DEF IInv, Strength
  <2>2. \A e, f \in Sides : buffered'[e] => migrationState'[Origin(f)] # "READING"
    BY <1>1, <1>3, <1>6, <1>7, <1>10, ZenonT(30)
  <2>3. \A e \in Sides : migrationState'[Origin(e)] = "READING"
                           => migrationState'[Destination(e)] \in {"READING", "BUFFERED"}
    BY <1>1, <1>3, <1>6, <1>7, <1>10, SMT
  <2> QED
    BY SMTT(30), <1>2, <1>6, <1>8, <1>9, <2>1, <2>2, <2>3 DEF IInv, Strength
<1>13. Accounted'
  <2>1. \A p \in Pages : migrationState'[p] \in {"READING", "BUFFERED", "WRITING"} => p \in {inputPage', outputPage'}
    BY <1>3, <1>6, <1>7 DEF IInv, Accounted
  <2>2. \A e \in Sides : migrationState'[Origin(e)] = "READING" <=> request'[e].tag = "read"
    <3>1. CASE complete
      <4>1. \A e \in Sides : request'[e].tag # "read" /\ migrationState'[Destination(e)] # "READING"
        BY <1>a, <1>b, <3>1
      <4> QED
        BY <1>1, <1>3, <4>1
    <3>2. CASE ~complete
      <4>1. request'[s].tag = "none" /\ request'[d] = request[d]
        BY <1>1, <1>10, <1>a, <3>2
      <4>2. request[d].tag = "read"
        BY <1>1, <1>2, <1>3, <1>5, <3>2 DEF IInv, Accounted
      <4> QED
        BY <1>1, <1>3, <1>b, <3>2, <4>1, <4>2
    <3> QED
      BY <3>1, <3>2
  <2>3. \A e \in Sides : request'[e].tag = "read" => request'[e].page = Origin(e)
    BY <1>10, <1>a, SMT DEF IInv, Accounted
  <2>4. \A e \in Sides : request'[e].tag = "write" => Issued(e)
    BY <1>2, <1>10, <1>a
  <2>5. \A e \in Sides : request'[e].tag = "write" =>
          request'[e].page = Destination(e) /\ migrationState'[Destination(e)] = "WRITING" /\ ~buffered'[e]
    BY <1>10, <1>a, <1>b, <2>4
  <2>6. \A e \in Sides : migrationState'[Destination(e)] = "WRITING" => request'[e].tag = "write"
    BY <1>1, <1>a, <1>b
  <2>7. \A e \in Sides : buffered'[e] => migrationState'[Destination(e)] = "BUFFERED"
    BY <1>10, <1>b
  <2>8. \A e \in Sides : migrationState'[Destination(e)] = "BUFFERED" =>
          buffered'[e] \/ \E f \in Sides : migrationState'[Origin(f)] = "READING"
    BY <1>1, <1>3, <1>10, <1>b
  <2> QED
    BY <1>8, <1>9, <2>1, <2>2, <2>3, <2>5, <2>6, <2>7, <2>8, SMT DEF Accounted, IsBuffered
<1>14. HeldHasRetry'
  <2> SUFFICES ASSUME NEW e \in Sides, buffered'[e] PROVE ~Quiet
    BY DEF HeldHasRetry, Quiet, callers
  <2>1. complete /\ ~IsIssuable(Destination(e).channel)
    BY <1>10 DEF Issued
  <2>2. \A f \in Sides : request[f].at # "queue"
    <3>1. request[d].tag # "read"
      BY <1>1, <1>3, <1>5, <2>1 DEF IInv, Accounted
    <3>2. request[d].at = "none"
      BY <1>1, <1>2, <3>1 DEF IInv, TypeOK, Strength
    <3> QED
      BY <1>1, <3>2
  <2>3. Destination(e).channel \in Channels
    BY <1>1, <1>3 DEF Pages
  <2>4. queued[Destination(e).channel] > 0
    BY <2>1, <2>2, <2>3, RefusedByCaller DEF Takes, Sides
  <2> QED
    BY <2>3, <2>4, SMT DEF Quiet
<1> QED
  BY <1>11, <1>12, <1>13, <1>14 DEF IInv

\* A write of the swap completes, and its page has migrated.
LEMMA WriteIInv ==
  ASSUME IInv, NEW s \in Sides, request[s].tag = "write", WriteComplete(s),
         UNCHANGED <<currentPromotionPage, callers, aborted>>
  PROVE  IInv'
<1>1. PICK d \in Sides : d # s /\ Sides = {s, d}
  BY OtherSide
<1>2. Destination(s) \in Pages
  BY DEF IInv, TypeOK, Destination
<1>3. /\ request[s].page = Destination(s) /\ migrationState[Destination(s)] \in {"BUFFERED", "WRITING"}
      /\ ~buffered[s] /\ migrating
  BY <1>2 DEF IInv, Accounted, IsBuffered
<1>4. /\ Origin(d) = Destination(s) /\ Destination(d) = Origin(s)
      /\ Origin(s) \in Pages /\ Origin(s) # Destination(s)
      /\ {inputPage, outputPage} = {Origin(s), Destination(s)}
  BY <1>1, <1>3, Mirror
<1>5. migrationState[Origin(s)] # "READING" /\ request[s].tag # "read" /\ request[d].tag # "read"
  BY <1>1, <1>3, <1>4 DEF IInv, Accounted
<1>6. /\ migrationState' \in [Pages -> {"NONE", "READING", "BUFFERED", "WRITING", "DONE"}]
      /\ migrationState'[Destination(s)] = "DONE"
      /\ \A p \in Pages : p # Destination(s) => migrationState'[p] = migrationState[p]
      /\ UNCHANGED <<migrationMap, inputPage, outputPage, buffered>>
  BY <1>2, <1>3 DEF WriteComplete, SetMigrationState, IInv, TypeOK
<1>7. request'[s] = None /\ request'[d] = request[d]
  BY <1>1 DEF WriteComplete, IInv, TypeOK
<1>8. migrating' \in BOOLEAN /\ (migrationState'[Origin(s)] # "DONE" => migrating')
  BY <1>3, <1>4, <1>6 DEF WriteComplete, SetMigrationState
<1>9. \A e \in Sides : Origin(e)' = Origin(e) /\ Destination(e)' = Destination(e)
  BY <1>6 DEF Origin, Destination
<1>10. TypeOK'
  <2>1. request' \in [Sides -> [tag : {"none", "read", "write"}, page : Pages, at : {"none", "queue", "banks"}]]
    BY UntranslatedPage DEF WriteComplete, IInv, TypeOK, None
  <2> QED
    BY <1>6, <1>8, <2>1 DEF IInv, TypeOK, callers
<1>11. Strength'
  <2>1. migrating' => migrating
    BY <1>3
  <2>2. \A e \in Sides : request'[e].at = "none" <=> request'[e].tag = "none"
    BY <1>1, <1>7, SMT DEF IInv, Strength, None
  <2>3. \A e \in Sides : migrationState'[Origin(e)] # "READING"
    BY <1>1, <1>4, <1>5, <1>6
  <2> QED
    BY <1>6, <1>9, <2>1, <2>2, <2>3, SMT DEF IInv, Strength
<1>12. Accounted'
  <2>1. \A p \in Pages : migrationState'[p] \in {"READING", "BUFFERED", "WRITING"} =>
          migrating' /\ p \in {inputPage', outputPage'}
    <3> SUFFICES ASSUME NEW p \in Pages, migrationState'[p] \in {"READING", "BUFFERED", "WRITING"}
                 PROVE  migrating' /\ p \in {inputPage', outputPage'}
      OBVIOUS
    <3>1. p # Destination(s) /\ migrationState'[p] = migrationState[p]
      BY <1>6
    <3>2. p \in {inputPage, outputPage}
      BY <3>1 DEF IInv, Accounted
    <3>3. p = Origin(s)
      BY <1>4, <3>1, <3>2
    <3> QED
      BY <1>6, <1>8, <3>2, <3>3
  <2>2. \A e \in Sides : migrationState'[Origin(e)] # "READING"
    BY <1>1, <1>4, <1>5, <1>6, SMT
  <2>3. \A e \in Sides : request'[e].tag # "read"
    BY <1>1, <1>5, <1>7, SMT DEF None
  <2>4. request'[s].tag = "none" /\ migrationState'[Destination(s)] = "DONE" /\ ~buffered'[s]
    BY <1>3, <1>6, <1>7, SMT DEF None
  <2>5. migrationState'[Destination(d)] = migrationState[Destination(d)] /\ buffered'[d] = buffered[d]
    BY <1>4, <1>6
  <2>6. migrationState[Destination(d)] = "BUFFERED" => request[d].tag = "write" \/ buffered[d]
    BY <1>1, <1>3, <1>4, <1>5 DEF IInv, Accounted
  <2>7. /\ request'[d].tag = "write" => request'[d].page = Destination(d) /\ ~buffered'[d]
               /\ migrationState'[Destination(d)] \in {"BUFFERED", "WRITING"}
        /\ migrationState'[Destination(d)] = "WRITING" => request'[d].tag = "write"
        /\ buffered'[d] => migrationState'[Destination(d)] = "BUFFERED"
    BY <1>7, <2>5 DEF IInv, Accounted, IsBuffered
  <2>8. \A e \in Sides :
          /\ request'[e].tag = "write" => request'[e].page = Destination(e) /\ ~buffered'[e]
               /\ migrationState'[Destination(e)] \in {"BUFFERED", "WRITING"}
          /\ migrationState'[Destination(e)] = "WRITING" => request'[e].tag = "write"
          /\ buffered'[e] => migrationState'[Destination(e)] = "BUFFERED"
          /\ migrationState'[Destination(e)] = "BUFFERED" => request'[e].tag = "write" \/ buffered'[e]
    BY <1>1, <1>7, <2>4, <2>5, <2>6, <2>7
  <2> QED
    BY <1>9, <2>1, <2>2, <2>3, <2>8 DEF Accounted, IsBuffered
<1>13. HeldHasRetry'
  BY <1>6 DEF IInv, HeldHasRetry, Quiet, callers
<1> QED
  BY <1>10, <1>11, <1>12, <1>13 DEF IInv

\* A caller's request completes, and a write that was held back is tried again.
LEMMA CallerIInv ==
  ASSUME IInv, RequestComplete
  PROVE  IInv'
<1> DEFINE s == IF buffered["promo"] THEN "promo" ELSE "demo"
           issued == buffered[s] /\ IsIssuable(Destination(s).channel)
<1>1. s \in Sides /\ s \in {"promo", "demo"} /\ Destination(s) \in Pages
  BY DEF Sides, Destination, IInv, TypeOK
<1>2. PICK d \in Sides : d # s /\ Sides = {s, d}
  BY <1>1, OtherSide
<1>3. /\ request' = IF issued THEN [request EXCEPT ![s] = Request("write", Destination(s))] ELSE request
      /\ buffered' = [buffered EXCEPT ![s] = @ /\ ~issued]
      /\ aborted' = IF buffered["promo"] /\ buffered["demo"] THEN "parent" ELSE aborted
      /\ UNCHANGED <<migrationMap, migrationState, migrating, inputPage, outputPage, currentPromotionPage, queued>>
      /\ inBanks' \in Nat /\ inBuffer' \in Nat /\ aborted = "no"
  BY SMT DEF RequestComplete, Retry, decoder, IInv, TypeOK
<1>4. buffered[d] => buffered["promo"] /\ buffered["demo"]
  BY <1>2 DEF Sides
<1> HIDE DEF s, issued
<1>5. /\ buffered'[s] = (buffered[s] /\ ~issued) /\ buffered'[d] = buffered[d]
      /\ request'[d] = request[d]
      /\ issued => request'[s] = Request("write", Destination(s))
      /\ ~issued => request'[s] = request[s]
  BY <1>1, <1>2, <1>3 DEF IInv, TypeOK
<1>6. issued => buffered[s] /\ migrationState[Destination(s)] = "BUFFERED" /\ request[s].tag = "none"
  <2> SUFFICES ASSUME issued PROVE buffered[s] /\ migrationState[Destination(s)] = "BUFFERED" /\ request[s].tag = "none"
    OBVIOUS
  <2>1. buffered[s] /\ migrationState[Destination(s)] = "BUFFERED"
    BY <1>1 DEF issued, IInv, Accounted
  <2>2. request[s].tag # "write" /\ request[s].tag # "read"
    BY <1>1, <2>1, SMT DEF IInv, Accounted, Strength
  <2> QED
    BY <1>1, <2>1, <2>2 DEF IInv, TypeOK
<1>7. \A e \in Sides : Origin(e)' = Origin(e) /\ Destination(e)' = Destination(e)
  BY <1>3 DEF Origin, Destination
<1>8. TypeOK'
  <2>1. request' \in [Sides -> [tag : {"none", "read", "write"}, page : Pages, at : {"none", "queue", "banks"}]]
    BY <1>1, <1>3 DEF IInv, TypeOK, Request
  <2>2. buffered' \in [Sides -> BOOLEAN]
    BY <1>1, <1>3 DEF IInv, TypeOK, issued
  <2> QED
    BY <1>3, <2>1, <2>2 DEF IInv, TypeOK
<1>9. Strength'
  <2>1. \A e \in Sides : request'[e].at = "none" <=> request'[e].tag = "none"
    BY SMTT(30), <1>2, <1>5 DEF IInv, Strength, Request
  <2>2. \A e \in Sides : buffered'[e] => buffered[e]
    BY <1>2, <1>5
  <2> QED
    BY SMTT(30), <1>3, <1>7, <2>1, <2>2 DEF IInv, Strength
<1>10. Accounted'
  <2>1. \A e \in Sides : request'[e].tag = "read" <=> request[e].tag = "read"
    BY <1>2, <1>5, <1>6, SMT DEF Request
  <2>2. \A e \in Sides : request'[e].tag = "read" => request'[e].page = request[e].page
    BY <1>2, <1>5, SMT DEF Request
  <2>3. \A e \in Sides : /\ request'[e].tag = "write" => /\ request'[e].page = Destination(e) /\ ~buffered'[e]
                                                         /\ IsBuffered(Destination(e))
                         /\ request[e].tag = "write" => request'[e].tag = "write"
                         /\ buffered'[e] => buffered[e]
                         /\ buffered[e] => buffered'[e] \/ request'[e].tag = "write"
    <3>1. CASE issued
      <4>1. request'[s] = Request("write", Destination(s)) /\ ~buffered'[s]
        BY <1>5, <3>1
      <4>2. request'[s].tag = "write" /\ request'[s].page = Destination(s)
        BY <4>1, SMT DEF Request
      <4> QED
        BY <1>2, <1>5, <1>6, <3>1, <4>1, <4>2, SMT DEF IInv, Accounted, IsBuffered
    <3>2. CASE ~issued
      <4>1. request'[s] = request[s] /\ (buffered'[s] <=> buffered[s])
        BY <1>5, <3>2
      <4>2. \A e \in Sides : request'[e] = request[e] /\ (buffered'[e] <=> buffered[e])
        BY <1>2, <1>5, <4>1
      <4> QED
        BY <4>2, ZenonT(30) DEF IInv, Accounted
    <3> QED
      BY <3>1, <3>2
  <2> QED
    BY <1>3, <1>7, <2>1, <2>2, <2>3, SMT DEF IInv, Accounted, IsBuffered
<1>11. HeldHasRetry'
  <2> SUFFICES ASSUME NEW e \in Sides, buffered'[e], aborted' = "no" PROVE \E c \in Channels : queued[c] > 0
    BY <1>3, SMT DEF HeldHasRetry, Quiet
  <2>1. ~buffered[d]
    BY <1>3, <1>4
  <2>2. e = s /\ buffered[s] /\ ~IsIssuable(Destination(s).channel)
    BY <1>2, <1>5, <2>1 DEF issued
  <2>3. request[s].at # "queue"
    <3>1. request[s].tag # "write" /\ request[s].tag # "read"
      BY <1>1, <2>2, SMT DEF IInv, Accounted, Strength
    <3> QED
      BY <1>1, <3>1 DEF IInv, TypeOK, Strength
  <2>4. request[d].at = "queue" => request[d].page.channel # Destination(s).channel
    <3> SUFFICES ASSUME request[d].at = "queue" PROVE request[d].page.channel # Destination(s).channel
      OBVIOUS
    <3>1. migrating
      BY <1>1, <2>2 DEF IInv, Accounted
    <3>2. request[d].tag # "read"
      BY <1>1, <2>2, SMT DEF IInv, Accounted, Strength
    <3>3. request[d].tag = "write"
      BY <3>2 DEF IInv, TypeOK, Strength
    <3>4. request[d].page = Destination(d)
      BY <3>3 DEF IInv, Accounted
    <3> QED
      BY <1>1, <1>2, <3>1, <3>4, Mirror
  <2>5. Destination(s).channel \in Channels
    BY <1>1 DEF Pages
  <2>6. Takes("promo", Destination(s).channel) = 0 /\ Takes("demo", Destination(s).channel) = 0
    BY <1>2, <2>3, <2>4 DEF Takes, Sides
  <2> QED
    BY <2>2, <2>5, <2>6, RefusedByCaller
<1> QED
  BY <1>8, <1>9, <1>10, <1>11 DEF IInv

-----------------------------------------------------------------------------
\* Every step keeps the invariant.
LEMMA NextIInv == IInv /\ [Next]_vars => IInv'
<1> SUFFICES ASSUME IInv, [Next]_vars PROVE IInv'
  OBVIOUS
<1>1. ASSUME NEW p \in Pages, IssueCommand(p) PROVE IInv'
  BY <1>1, IssueIInv
<1>2. ASSUME NEW c \in Channels, Schedule(c) PROVE IInv'
  BY <1>2, ScheduleIInv
<1>3. ASSUME NEW s \in Sides, ScheduleMigration(s) PROVE IInv'
  BY <1>3, ScheduleMigrationIInv, SMT
<1>4. ASSUME NEW s \in Sides, MigrationComplete(s) PROVE IInv'
  BY <1>4, ReadIInv, WriteIInv DEF MigrationComplete
<1>5. CASE RequestComplete
  BY <1>5, CallerIInv
<1>6. CASE UNCHANGED vars
  <2>1. UNCHANGED <<decoder, request, buffered, currentPromotionPage, callers, aborted>>
    BY <1>6 DEF vars
  <2>2. TypeOK' /\ Accounted'
    BY SMTT(30), <2>1 DEF IInv, TypeOK, Accounted, Origin, Destination, IsBuffered, decoder, callers
  <2>3. HeldHasRetry' /\ Strength'
    BY <2>1 DEF IInv, HeldHasRetry, Quiet, Strength, Origin, Destination, decoder, callers
  <2> QED
    BY <2>2, <2>3 DEF IInv
<1> QED
  BY <1>1, <1>2, <1>3, <1>4, <1>5, <1>6 DEF Next

\* The strengthened invariant holds for every number of channels and pages, every promotion
\* channel and every length of the transaction queues.
THEOREM Invariant == Spec => []IInv
  BY InitIInv, NextIInv, PTL DEF Spec

\* The variables keep their types: in particular the next victim is always a page of the fast
\* channel (CoinMigrator::ChooseVictim).
THEOREM TypeCorrect == Spec => []TypeOK
<1>1. IInv => TypeOK
  BY DEF IInv
<1> QED
  BY Invariant, <1>1, PTL

\* The decoder's states are what the migration is doing, so that the assertions of
\* Migrator::StartMigration and SetMigrationState never fail.
THEOREM DecoderAccounted == Spec => []Accounted
<1>1. IInv => Accounted
  BY DEF IInv
<1> QED
  BY Invariant, <1>1, PTL

\* A write that CoinMigrator::RequestComplete holds back always has a completion to come that
\* tries it again.
THEOREM HeldWritesRetried == Spec => []HeldHasRetry
<1>1. IInv => HeldHasRetry
  BY DEF IInv
<1> QED
  BY Invariant, <1>1, PTL

\* Only the pages of a swap change their state, and no action changes what Translate says of a
\* page that has migrated.
LEMMA DoneStays ==
  ASSUME IInv, Next, NEW p \in Pages, migrationState[p] = "DONE"
  PROVE  migrationState'[p] = "DONE" /\ migrationMap'[p] = migrationMap[p]
<1>1. ASSUME NEW q \in Pages, IssueCommand(q)
      PROVE  migrationState'[p] = "DONE" /\ migrationMap'[p] = migrationMap[p]
  <2>1. CASE UNCHANGED decoder
    BY <2>1 DEF decoder
  <2>2. CASE \E a \in Pages : ~IsMigrated(a) /\ ~IsMigrated(ChooseVictim) /\ StartMigration(a, ChooseVictim)
    BY <2>2 DEF StartMigration, IsMigrated, IInv, TypeOK
  <2>3. [q EXCEPT !.channel = Translate(q)] \in Pages
    BY DEF Pages, Translate, IInv, TypeOK
  <2> QED
    BY <1>1, <2>1, <2>2, <2>3 DEF IssueCommand, TryMigration, Migrate
<1>2. ASSUME NEW s \in Sides, MigrationComplete(s)
      PROVE  migrationState'[p] = "DONE" /\ migrationMap'[p] = migrationMap[p]
  <2>1. CASE request[s].tag = "read" /\ ReadComplete(s)
    <3>1. p # request[s].page
      BY <2>1 DEF IInv, Accounted
    <3>2. request[s].page \in Pages /\ Destination("promo") \in Pages /\ Destination("demo") \in Pages
      BY DEF IInv, TypeOK, Destination
    <3> DEFINE states == [migrationState EXCEPT ![request[s].page] = "BUFFERED"]
               complete == {states[inputPage], states[outputPage]} \subseteq {"BUFFERED", "WRITING"}
    <3>3. states[p] = "DONE"
      BY <3>1 DEF IInv, TypeOK
    <3>4. \A e \in Sides : complete => p # Destination(e)
      BY <3>3 DEF Destination
    <3> HIDE DEF states, complete
    <3>5. /\ migrationState' = [r \in Pages |->
                IF \E e \in Sides : (complete /\ IsIssuable(Destination(e).channel)) /\ r = Destination(e)
                THEN "WRITING" ELSE states[r]]
          /\ migrationMap' = migrationMap
      BY <2>1 DEF ReadComplete, SetMigrationState, states, complete
    <3> QED
      BY <3>3, <3>4, <3>5
  <2>2. CASE request[s].tag = "write" /\ WriteComplete(s)
    BY <2>2 DEF WriteComplete, SetMigrationState, IInv, TypeOK
  <2> QED
    BY <1>2, <2>1, <2>2 DEF MigrationComplete
<1>3. CASE UNCHANGED decoder
  BY <1>3 DEF decoder
<1> QED
  BY <1>1, <1>2, <1>3 DEF Next, Schedule, ScheduleMigration, RequestComplete

\* Once a page has migrated, the decoder translates it to the same channel for ever, whatever
\* is swapped later (Migrator::Translate, CoinMigrator::TryMigration).
THEOREM MigratesOnceHolds == Spec => MigratesOnce
<1>1. ASSUME IInv, [Next]_vars
      PROVE  [\A p \in Pages : migrationState[p] = "DONE" => Translate(p)' = Translate(p)]_vars
  BY <1>1, DoneStays DEF Translate
<1> QED
  BY Invariant, <1>1, PTL DEF Spec, MigratesOnce
=============================================================================
