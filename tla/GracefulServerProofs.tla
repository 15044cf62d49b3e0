------------------------ MODULE GracefulServerProofs ------------------------
(***************************************************************************)
(* The server loop for any number of clients, frames of any length, socket *)
(* buffers of any size and batches of any size: why no byte, frame, reply  *)
(* or event goes astray, and what is true when the server has stopped.     *)
(***************************************************************************)
EXTENDS GracefulServer, FiniteSetTheorems, TLAPS

(* The I/O thread is inside try_flush_writes, or inside the decode loop,   *)
(* for the connection of client c.                                         *)
Flushing(c) == io = "flush" /\ cur.owner = {c}
Decoding(c) ==
    /\ io = "decode" \/ (io = "flush" /\ resume = "decode")
    /\ cur.owner = {c}

(* Every unit a client sent is in exactly one place, also after its        *)
(* connection was closed.                                                  *)
Balanced ==
    \A c \in Clients : sent[c] = up[c] + rbuf[c] + wbuf[c] + down[c] + got[c]

(* A client is accepted once, from the backlog, with empty buffers. *)
AcceptedOnce ==
    /\ Slots \subseteq accepted /\ backlog \cap accepted = {}
    /\ \A c \in Clients \ accepted :
          rbuf[c] = 0 /\ wbuf[c] = 0 /\ down[c] = 0 /\ got[c] = 0
    /\ \A c \in backlog \cup accepted : client[c] # "new"

(* Two open connections have two handles. *)
HandlesDiffer == \A c, d \in Slots : handle[c] = handle[d] => c = d

(* An event that is not handled yet is the listener's or that of an open   *)
(* connection, one of each; the event being handled is that of an open     *)
(* connection and is the last of it in this batch.                         *)
BatchIsCurrent ==
    /\ batch # {} => io \in {"events", "accept", "recv", "decode", "flush"}
    /\ \A e \in batch :
          e = Listener \/ \E c \in Slots : e.owner = {c} /\ e.handle = handle[c]
    /\ \A e, f \in batch : e.owner = f.owner => e = f
    /\ io \in {"recv", "decode", "flush"} =>
          /\ \E c \in Slots : cur.owner = {c} /\ cur.handle = handle[c]
          /\ \A e \in batch : e.owner # cur.owner

(* What PendingWritesWatched and NoFrameStranded say, at every step and    *)
(* for every connection but the one being flushed or decoded.              *)
WatchMatches ==
    \A c \in Slots : Flushing(c) \/
        interest[c] = IF wbuf[c] > 0 THEN {"Read", "Write"} ELSE {"Read"}
FramesTaken == \A c \in Slots : Decoding(c) \/ rbuf[c] < FrameLen

(* A connection is forgotten only after its client was answered and closed *)
(* and a stopped server, the only one that cleans up, has none left.       *)
LeavesAnswered ==
    /\ \A c \in Clients : client[c] = "closed" => got[c] = Total
    /\ \A c \in accepted : c \in Slots \/ client[c] = "closed"
    /\ phase = "Stopped" => io \in {"top", "exit", "done"} /\ Slots = {} /\ ~listening

(***************************************************************************)
(* Counting replies.  decoded[c] is the number of frames of c that were    *)
(* echoed and counted[c] the number of times FlushDone counted one; the    *)
(* invariant says that such numbers exist.                                 *)
(***************************************************************************)
Units(n) == n * FrameLen
Window(units) == FrameLen * (1 + units \div FrameLen)

Tally(counted) == {p \in Clients \X (1..Frames) : p[2] <= counted[p[1]]}

(* awaiting_reply_flush says that a reply is not counted yet, and stays    *)
(* set while something of it is in the write buffer.                       *)
AwaitsPending ==
    \A c \in Clients : awaiting[c] => Flushing(c) \/ wbuf[c] > 0

SendsInTurn == \A c \in Clients \ Pipelining : sent[c] <= Window(got[c])

CountsMatch(c, decoded, counted) ==
    /\ wbuf[c] + down[c] + got[c] = Units(decoded)
    /\ counted + (IF awaiting[c] THEN 1 ELSE 0) <= decoded
    /\ decoded > 0 /\ ~awaiting[c] => counted > 0
    /\ c \notin Pipelining => counted + (IF awaiting[c] THEN 1 ELSE 0) = decoded

RepliesCounted ==
    \E decoded, counted \in [Clients -> 0..Frames] :
        /\ completions = Cardinality(Tally(counted))
        /\ \A c \in Clients : CountsMatch(c, decoded[c], counted[c])

ServerInv ==
    /\ TypeOK /\ Balanced /\ AcceptedOnce /\ HandlesDiffer /\ BatchIsCurrent
    /\ WatchMatches /\ FramesTaken /\ LeavesAnswered
    /\ AwaitsPending /\ SendsInTurn /\ RepliesCounted

(***************************************************************************)
(* Numbers.                                                                *)
(***************************************************************************)
LEMMA UnitsFacts ==
  /\ Total \in Nat /\ Units(Frames) = Total /\ Units(0) = 0
  /\ \A n \in Nat : Units(n) \in Nat /\ Units(n + 1) = Units(n) + FrameLen
  /\ \A m, n \in Nat : Units(m) <= Units(n) => m <= n
<1> USE ServerAssumption DEF Units, Total
<1>1. ASSUME NEW m \in Nat, NEW n \in Nat, n + 1 <= m PROVE ~(Units(m) <= Units(n))
  <2>1. PICK k \in Nat : m = n + 1 + k
    <3>1. m - (n + 1) \in Nat BY <1>1
    <3> QED BY <3>1
  <2>2. m * FrameLen = n * FrameLen + FrameLen + k * FrameLen BY <2>1
  <2>3. n * FrameLen \in Nat /\ k * FrameLen \in Nat BY <2>1
  <2> QED BY <2>2, <2>3
<1>2. \A m, n \in Nat : Units(m) <= Units(n) => m <= n BY <1>1
<1> QED BY <1>2

LEMMA WindowFacts ==
  ASSUME NEW g \in Nat
  PROVE  /\ Window(g) \in Nat
         /\ \A h \in Nat : g <= h => Window(g) <= Window(h)
         /\ \A n \in Nat : g < Units(n) => Window(g) <= Units(n)
<1> USE ServerAssumption
<1> DEFINE q == g \div FrameLen
<1>1. q \in Nat /\ FrameLen * q <= g /\ g < FrameLen * q + FrameLen OBVIOUS
<1>2. Window(g) = Units(q + 1) /\ Units(q) <= g /\ g < Units(q) + FrameLen
  BY <1>1 DEF Window, Units
<1> HIDE DEF q
<1>3. Units(q) \in Nat /\ FrameLen \in Nat BY <1>1, UnitsFacts
<1>4. ASSUME NEW h \in Nat, g <= h PROVE Window(g) <= Window(h)
  <2> DEFINE r == h \div FrameLen
  <2>1. r \in Nat /\ h < FrameLen * r + FrameLen OBVIOUS
  <2>2. Window(h) = Units(r + 1) /\ h < Units(r) + FrameLen BY <2>1 DEF Window, Units
  <2> HIDE DEF r
  <2>3. Units(r + 1) \in Nat /\ h < Units(r + 1) BY <2>1, <2>2, UnitsFacts
  <2>4. Units(q) <= Units(r + 1) /\ Units(q) # Units(r + 1)
    BY ONLY <1>2, <1>4, <1>3, <2>3
  <2>5. q <= r + 1 /\ q # r + 1 BY <1>1, <2>1, <2>4, UnitsFacts
  <2>6. PICK k \in Nat : r = q + k
    <3>1. r - q \in Nat BY <1>1, <2>1, <2>5
    <3> QED BY <1>1, <2>1, <3>1
  <2>7. Units(r + 1) = Units(q + 1) + Units(k) BY <1>1, <2>6 DEF Units
  <2> QED BY <1>1, <1>2, <2>2, <2>6, <2>7, UnitsFacts
<1>5. ASSUME NEW n \in Nat, g < Units(n) PROVE Window(g) <= Units(n)
  <2>1. Units(n) \in Nat BY UnitsFacts
  <2>2. Units(q) <= Units(n) /\ Units(q) # Units(n) BY ONLY <1>2, <1>5, <1>3, <2>1
  <2>3. q <= n /\ q # n BY <1>1, <2>2, UnitsFacts
  <2>4. PICK k \in Nat : n = q + 1 + k
    <3>1. n - (q + 1) \in Nat BY <1>1, <2>3
    <3> QED BY <1>1, <3>1
  <2>5. Units(n) = Units(q + 1) + Units(k) BY <1>1, <2>4 DEF Units
  <2> QED BY <1>1, <1>2, <2>4, <2>5, UnitsFacts
<1> QED BY <1>1, <1>2, <1>4, <1>5, UnitsFacts

(* The well-ordering of the numbers. *)
LEMMA Smallest ==
  ASSUME NEW S \in SUBSET Nat, S # {}
  PROVE  \E n \in S : \A m \in S : n <= m
<1>1. PICK n \in S : \A m \in S : <<m, n>> \notin OpToRel(<, Nat)
  BY NatLessThanWellFounded, WFMin
<1>2. \A m \in S : ~(m < n) BY <1>1 DEF OpToRel
<1> QED BY <1>2

(* accept() finds a handle: one that no open connection has. *)
LEMMA HandleIsFree ==
  ASSUME TypeOK, NEW c \in Clients, handle[c] = 0
  PROVE  FreeHandle \in Handles /\ \A d \in Slots : handle[d] # FreeHandle
<1> DEFINE used == {handle[d] : d \in Slots}
<1>1. /\ IsFiniteSet(Clients) /\ Cardinality(Clients) \in Nat
      /\ IsFiniteSet(Slots) /\ Cardinality(Slots) < Cardinality(Clients)
  <2>1. IsFiniteSet(Clients) /\ Slots \in SUBSET Clients /\ c \notin Slots
    BY ServerAssumption DEF Slots
  <2>2. Cardinality(Clients) \in Nat /\ IsFiniteSet(Slots) /\ Cardinality(Slots) \in Nat
        /\ Cardinality(Slots) <= Cardinality(Clients)
        /\ (Cardinality(Clients) = Cardinality(Slots) => Clients = Slots)
    BY <2>1, FS_Subset, FS_CardinalityType
  <2> QED BY <2>1, <2>2
<1>2. IsFiniteSet(Handles) /\ Cardinality(Handles) = Cardinality(Clients)
  BY <1>1, FS_Interval DEF Handles
<1>3. Handles \ used # {}
  <2>1. SUFFICES ASSUME Handles \subseteq used PROVE FALSE OBVIOUS
  <2>2. [d \in Slots |-> handle[d]] \in Surjection(Slots, Handles)
    BY <2>1 DEF Surjection, TypeOK, Slots
  <2>3. Cardinality(Handles) <= Cardinality(Slots) BY <1>1, <2>2, FS_Surjection
  <2>4. Cardinality(Slots) \in Nat BY <1>1, FS_CardinalityType
  <2> QED BY <1>1, <1>2, <2>3, <2>4
<1>4. Handles \ used \in SUBSET Nat BY <1>1 DEF Handles
<1>5. \E h \in Handles \ used : \A k \in Handles \ used : h <= k BY <1>3, <1>4, Smallest
<1>6. FreeHandle \in Handles \ used BY <1>5 DEF FreeHandle
<1> QED BY <1>6

(***************************************************************************)
(* The initial state.                                                      *)
(***************************************************************************)
LEMMA InitServer == Init => ServerInv
<1> SUFFICES ASSUME Init PROVE ServerInv OBVIOUS
<1> USE ServerAssumption, UnitsFacts DEF Init
<1>1. Slots = {} BY DEF Slots
<1>2. TypeOK
  <2>1. phase \in L!Phases BY DEF L!LifecycleInit, L!Phases
  <2>2. cur \in Events /\ batch \subseteq Events BY DEF Events, None
  <2> QED BY <2>1, <2>2 DEF TypeOK
<1>3. Balanced BY DEF Balanced
<1>4. AcceptedOnce BY <1>1 DEF AcceptedOnce
<1>5. HandlesDiffer BY <1>1 DEF HandlesDiffer
<1>6. BatchIsCurrent BY DEF BatchIsCurrent
<1>7. WatchMatches /\ FramesTaken BY <1>1 DEF WatchMatches, FramesTaken
<1>8. LeavesAnswered BY DEF LeavesAnswered, L!LifecycleInit
<1>9. AwaitsPending BY DEF AwaitsPending
<1>10. SendsInTurn BY WindowFacts DEF SendsInTurn
<1>11. RepliesCounted
  <2> DEFINE zero == [c \in Clients |-> 0]
  <2>1. zero \in [Clients -> 0..Frames] OBVIOUS
  <2>2. Tally(zero) = {} BY DEF Tally
  <2>3. completions = Cardinality(Tally(zero)) BY <2>2, FS_EmptySet
  <2>4. \A c \in Clients : CountsMatch(c, zero[c], zero[c]) BY DEF CountsMatch
  <2> HIDE DEF zero
  <2> QED BY <2>1, <2>3, <2>4 DEF RepliesCounted
<1> QED BY <1>2, <1>3, <1>4, <1>5, <1>6, <1>7, <1>8, <1>9, <1>10, <1>11 DEF ServerInv

(***************************************************************************)
(* Steps of the loop.                                                      *)
(***************************************************************************)
(* What has been counted stays so while no reply buffer changes. *)
LEMMA CountsStay ==
  ASSUME RepliesCounted, completions' = completions, awaiting' = awaiting,
         \A c \in Clients : (wbuf[c] + down[c] + got[c])' = wbuf[c] + down[c] + got[c]
  PROVE  RepliesCounted'
<1>1. PICK decoded, counted \in [Clients -> 0..Frames] :
        /\ completions = Cardinality(Tally(counted))
        /\ \A c \in Clients : CountsMatch(c, decoded[c], counted[c])
  BY DEF RepliesCounted
<1>2. \A c \in Clients : CountsMatch(c, decoded[c], counted[c])'
  BY <1>1 DEF CountsMatch
<1> QED BY <1>1, <1>2 DEF RepliesCounted, Tally

(* A step that touches no connection has to keep track of the events only. *)
LEMMA DataStays ==
  ASSUME ServerInv, TypeOK', BatchIsCurrent', LeavesAnswered',
         UNCHANGED <<handle, interest, rbuf, wbuf, awaiting, completions, accepted,
                     clientVars, kernelVars>>,
         \A c \in Clients : /\ Flushing(c) => Flushing(c)'
                            /\ Decoding(c) => Decoding(c)' \/ rbuf[c] < FrameLen
  PROVE  ServerInv'
<1> USE DEF ServerInv, clientVars, kernelVars
<1>1. Slots' = Slots BY DEF Slots
<1>2. Slots \subseteq Clients BY DEF Slots
<1>3. Balanced' BY DEF Balanced
<1>4. AcceptedOnce' BY <1>1 DEF AcceptedOnce
<1>5. HandlesDiffer' BY <1>1 DEF HandlesDiffer
<1>6. WatchMatches' BY <1>1, <1>2 DEF WatchMatches
<1>7. FramesTaken' BY <1>1, <1>2 DEF FramesTaken
<1>8. AwaitsPending' BY DEF AwaitsPending
<1>9. SendsInTurn' BY DEF SendsInTurn, Window
<1>10. RepliesCounted' BY CountsStay
<1> QED BY <1>3, <1>4, <1>5, <1>6, <1>7, <1>8, <1>9, <1>10

LEMMA LoopSteps ==
  ASSUME ServerInv,
         \/ LoopTop \/ DeadlinePasses \/ EventsDone \/ StoppedAssertFails \/ Request
         \/ UNCHANGED vars
  PROVE  ServerInv'
<1> USE DEF LoopTop, DeadlinePasses, EventsDone, StoppedAssertFails, Request, vars, serverVars,
            clientVars, kernelVars, L!RequestShutdown, L!ShouldPollNetwork
<1>1. TypeOK'
  <2>1. phase' \in L!Phases BY DEF ServerInv, TypeOK, L!Phases
  <2>2. /\ io' = io \/ io' \in {"wait", "exit", "advance", "aborted"}
        /\ listening' = listening \/ listening' = (listening /\ L!ShouldAcceptNewConnections)
        /\ UNCHANGED <<cur, resume, batch, handle, interest, rbuf, wbuf,
                       awaiting, completions, accepted, clientVars, kernelVars>>
    OBVIOUS
  <2>3. listening' \in BOOLEAN BY <2>2 DEF ServerInv, TypeOK, L!ShouldAcceptNewConnections
  <2> QED BY ONLY ServerInv, <2>1, <2>2, <2>3 DEF ServerInv, TypeOK
<1>2. Slots' = Slots BY DEF Slots
<1>3. BatchIsCurrent' BY <1>2 DEF ServerInv, BatchIsCurrent
<1>4. LeavesAnswered' BY <1>2 DEF ServerInv, LeavesAnswered, TypeOK
<1>5. \A c \in Clients : /\ Flushing(c) => Flushing(c)'
                         /\ Decoding(c) => Decoding(c)'
  BY DEF Flushing, Decoding
<1>6. UNCHANGED <<handle, interest, rbuf, wbuf, awaiting, completions, accepted,
                  clientVars, kernelVars>>
  OBVIOUS
<1> QED BY ONLY <1>1, <1>3, <1>4, <1>5, <1>6, ServerInv, DataStays

(* The server stops when no connection is left. *)
LEMMA AdvanceStep == ASSUME ServerInv, TryAdvance PROVE ServerInv'
<1> USE DEF TryAdvance, Drained, L!AdvanceToStopped, clientVars, kernelVars
<1>1. TypeOK' BY DEF ServerInv, TypeOK, L!Phases
<1>2. Slots' = Slots BY DEF Slots
<1>3. BatchIsCurrent' BY <1>2 DEF ServerInv, BatchIsCurrent
<1>4. LeavesAnswered' BY <1>2 DEF ServerInv, LeavesAnswered
<1>5. \A c \in Clients : ~Flushing(c) /\ ~Decoding(c) BY DEF Flushing, Decoding
<1> QED BY <1>1, <1>3, <1>4, <1>5, DataStays

(* select() reports each open connection at most once. *)
LEMMA WaitStep == ASSUME ServerInv, Wait PROVE ServerInv'
<1> USE DEF Wait, clientVars, kernelVars
<1>1. /\ \A e \in Ready : e = Listener \/ \E c \in Slots : e = EventOf(c)
      /\ batch' \subseteq Ready
  BY DEF Ready
<1>2. \A c \in Slots : /\ EventOf(c) \in Events /\ EventOf(c).owner = {c}
                        /\ EventOf(c).handle = handle[c]
  BY DEF EventOf, Events, Fired, ServerInv, TypeOK, Slots
<1>3. Listener \in Events /\ Listener.owner = {} BY DEF Listener, Events
<1>4. TypeOK'
  <2>1. batch' \subseteq Events BY <1>1, <1>2, <1>3
  <2> QED BY <2>1 DEF ServerInv, TypeOK
<1>5. Slots' = Slots BY DEF Slots
<1>6. BatchIsCurrent'
  <2>1. \A e \in batch' : e = Listener \/ \E c \in Slots : e.owner = {c} /\ e.handle = handle[c]
    BY <1>1, <1>2
  <2>2. ASSUME NEW e \in batch', NEW f \in batch', e.owner = f.owner PROVE e = f
    <3>1. \A c, d \in Slots : {c} = {d} => c = d OBVIOUS
    <3> QED BY <1>1, <1>2, <1>3, <2>2, <3>1
  <2> QED BY <1>5, <2>1, <2>2 DEF BatchIsCurrent
<1>7. LeavesAnswered' BY <1>5 DEF ServerInv, LeavesAnswered
<1>8. \A c \in Clients : ~Flushing(c) /\ ~Decoding(c) BY DEF Flushing, Decoding
<1> QED BY <1>4, <1>6, <1>7, <1>8, DataStays

(* Taking an event out of the batch: no other event of its connection is   *)
(* left, whatever happens to the connection now.                           *)
LEMMA NextEventStep == ASSUME ServerInv, NextEvent PROVE ServerInv'
<1> USE DEF clientVars, kernelVars
<1>1. PICK e \in batch :
        /\ batch' = batch \ {e} /\ cur' = e /\ io = "events"
        /\ io' = IF e = Listener
                   THEN IF L!ShouldAcceptNewConnections THEN "accept" ELSE "events"
                   ELSE IF SlotOf(e) = {} THEN "events"
                   ELSE IF "Read" \in e.mask THEN "recv" ELSE "flush"
  BY DEF NextEvent
<1>2. /\ resume' = "events"
      /\ UNCHANGED <<phase, listening, handle, interest, rbuf, wbuf,
                     awaiting, completions, accepted, clientVars, kernelVars>>
  BY DEF NextEvent
<1>3. io' \in {"accept", "events", "recv", "flush"} BY <1>1
<1>4. TypeOK' BY <1>1, <1>2, <1>3 DEF ServerInv, TypeOK
<1>5. Slots' = Slots BY <1>2 DEF Slots
<1>6. BatchIsCurrent'
  <2>1. io' \in {"recv", "flush"} => e # Listener BY <1>1
  <2>2. \A f \in batch' : f \in batch /\ (f.owner # e.owner)
    BY <1>1 DEF ServerInv, BatchIsCurrent
  <2> QED BY <1>1, <1>2, <1>3, <1>5, <2>1, <2>2 DEF ServerInv, BatchIsCurrent
<1>7. LeavesAnswered' BY <1>1, <1>2, <1>3, <1>5 DEF ServerInv, LeavesAnswered
<1>8. \A c \in Clients : ~Flushing(c) /\ ~Decoding(c) BY <1>1 DEF Flushing, Decoding
<1> QED BY <1>2, <1>4, <1>6, <1>7, <1>8, DataStays

(***************************************************************************)
(* The connection in hand.                                                 *)
(***************************************************************************)
LEMMA InHand ==
  ASSUME ServerInv, io \in {"recv", "decode", "flush"}, NEW c \in SlotOf(cur)
  PROVE  /\ c \in Slots /\ c \in Clients /\ cur.owner = {c}
         /\ \A d \in Clients : cur.owner = {d} <=> d = c
         /\ \A e \in batch : e.owner # {c}
<1>1. PICK d \in Slots : cur.owner = {d} /\ cur.handle = handle[d]
  BY DEF ServerInv, BatchIsCurrent
<1>2. c \in Slots /\ handle[c] = cur.handle BY DEF SlotOf
<1>3. c = d BY <1>1, <1>2 DEF ServerInv, HandlesDiffer
<1>4. \A b : {b} = {c} <=> b = c OBVIOUS
<1> QED BY <1>1, <1>2, <1>3, <1>4 DEF ServerInv, BatchIsCurrent, Slots

(* The invariant while the connection stays open and the batch as it is:   *)
(* what is left to show is about c itself.                                 *)
LEMMA OneConnection ==
  ASSUME ServerInv, io \in {"recv", "decode", "flush"}, NEW c \in SlotOf(cur),
         TypeOK', Balanced', AwaitsPending', SendsInTurn', RepliesCounted',
         io' \in {"events", "recv", "decode", "flush"},
         UNCHANGED <<phase, cur, batch, listening, handle, accepted, client, backlog>>,
         \A d \in Clients \ {c} :
            /\ interest'[d] = interest[d] /\ rbuf'[d] = rbuf[d]
            /\ wbuf'[d] = wbuf[d] /\ down'[d] = down[d],
         got' = got,
         Flushing(c)' \/ interest'[c] = IF wbuf'[c] > 0 THEN {"Read", "Write"} ELSE {"Read"},
         Decoding(c)' \/ rbuf'[c] < FrameLen
  PROVE  ServerInv'
<1> USE InHand
<1>1. Slots' = Slots /\ Slots \subseteq Clients BY DEF Slots
<1>2. \A d \in Clients \ {c} : ~Flushing(d) /\ ~Decoding(d) BY DEF Flushing, Decoding
<1>3. AcceptedOnce' BY <1>1 DEF ServerInv, AcceptedOnce
<1>4. HandlesDiffer' BY <1>1 DEF ServerInv, HandlesDiffer
<1>5. BatchIsCurrent' BY <1>1 DEF ServerInv, BatchIsCurrent
<1>6. WatchMatches' BY <1>1, <1>2 DEF ServerInv, WatchMatches
<1>7. FramesTaken' BY <1>1, <1>2 DEF ServerInv, FramesTaken
<1>8. LeavesAnswered' BY <1>1 DEF ServerInv, LeavesAnswered
<1> QED BY <1>3, <1>4, <1>5, <1>6, <1>7, <1>8 DEF ServerInv

LEMMA BufferTypes ==
  ASSUME TypeOK, NEW c \in Clients
  PROVE  /\ up[c] \in Nat /\ rbuf[c] \in Nat /\ wbuf[c] \in Nat /\ down[c] \in Nat
         /\ got[c] \in Nat /\ sent[c] \in Nat /\ sent[c] <= Total
         /\ awaiting[c] \in BOOLEAN
  BY ServerAssumption, UnitsFacts DEF TypeOK

(* When all of a client's units have come back, none is anywhere else. *)
LEMMA NothingLeft ==
  ASSUME TypeOK, Balanced, NEW c \in Clients, got[c] = Total
  PROVE  rbuf[c] = 0 /\ wbuf[c] = 0 /\ down[c] = 0
<1>1. PICK u \in Nat, r \in Nat, w \in Nat, d \in Nat, g \in Nat :
        u = up[c] /\ r = rbuf[c] /\ w = wbuf[c] /\ d = down[c] /\ g = got[c]
  BY BufferTypes
<1>2. PICK s \in Nat : s = sent[c] /\ s <= g BY <1>1, BufferTypes
<1>3. s = u + r + w + d + g BY <1>1, <1>2 DEF Balanced
<1>4. r = 0 /\ w = 0 /\ d = 0 BY ONLY <1>2, <1>3, u \in Nat, r \in Nat, w \in Nat, d \in Nat, g \in Nat
<1> QED BY <1>1, <1>4

LEMMA RecvDataStep ==
  ASSUME ServerInv, NEW c \in Clients, RecvData(c) PROVE ServerInv'
<1> USE DEF RecvData, AppendRead, clientVars
<1>1. c \in SlotOf(cur) /\ io = "recv" /\ io' = "decode" /\ cur.owner = {c} BY InHand
<1>2. sent[c] = up[c] + rbuf[c] + wbuf[c] + down[c] + got[c] BY DEF ServerInv, Balanced
<1>3. TypeOK /\ Balanced /\ Total \in Nat /\ SockBuf \in Nat
  BY UnitsFacts, ServerAssumption DEF ServerInv
<1>4. TypeOK'
  <2>1. rbuf[c] + up[c] \in 0..Total BY <1>2, <1>3, BufferTypes
  <2> QED BY <1>3, <2>1 DEF TypeOK
<1>5. Balanced'
  <2> SUFFICES ASSUME NEW d \in Clients
               PROVE  sent[d] = up'[d] + rbuf'[d] + wbuf[d] + down[d] + got[d]
    BY DEF Balanced
  <2> QED BY <1>3, BufferTypes DEF Balanced, TypeOK
<1>6. AwaitsPending' BY <1>1 DEF ServerInv, AwaitsPending, Flushing
<1>7. SendsInTurn' BY DEF ServerInv, SendsInTurn, Window
<1>8. RepliesCounted' BY CountsStay DEF ServerInv
<1>9. interest[c] = IF wbuf[c] > 0 THEN {"Read", "Write"} ELSE {"Read"}
  BY <1>1, InHand DEF ServerInv, WatchMatches, Flushing
<1>10. Decoding(c)' BY <1>1 DEF Decoding
<1> QED BY <1>1, <1>3, <1>4, <1>5, <1>6, <1>7, <1>8, <1>9, <1>10, OneConnection DEF TypeOK

(* The read buffer holds no complete frame, or there is nothing to read. *)
LEMMA ReadEndsStep ==
  ASSUME ServerInv, NEW c \in Clients, RecvWouldBlock(c) \/ DecodeIncomplete(c)
  PROVE  ServerInv'
<1> USE DEF RecvWouldBlock, DecodeIncomplete, clientVars, kernelVars
<1>1. c \in SlotOf(cur) /\ io \in {"recv", "decode"} /\ io' \in {"recv", "flush", "events"}
  BY DEF AfterRead
<1>2. TypeOK' BY <1>1 DEF ServerInv, TypeOK
<1>3. Slots' = Slots BY DEF Slots
<1>4. BatchIsCurrent' BY <1>1, <1>3 DEF ServerInv, BatchIsCurrent
<1>5. LeavesAnswered' BY <1>1, <1>3 DEF ServerInv, LeavesAnswered
<1>6. \A d \in Clients : ~Flushing(d) /\ (Decoding(d) => rbuf[d] < FrameLen)
  BY <1>1, InHand DEF Flushing, Decoding
<1> QED BY <1>2, <1>4, <1>5, <1>6, DataStays

(* A client that waits for its replies never has two frames under way, so  *)
(* that its last reply was counted before its next frame arrived.          *)
LEMMA OneFrameAtATime ==
  ASSUME ServerInv, NEW c \in Clients \ Pipelining, rbuf[c] >= FrameLen,
         NEW decoded \in Nat, NEW counted \in Nat, CountsMatch(c, decoded, counted),
         ~Flushing(c)
  PROVE  ~awaiting[c]
<1> SUFFICES ASSUME awaiting[c] PROVE FALSE OBVIOUS
<1>1. wbuf[c] > 0 BY DEF ServerInv, AwaitsPending
<1>2. /\ sent[c] = up[c] + rbuf[c] + wbuf[c] + down[c] + got[c]
      /\ sent[c] <= Window(got[c])
      /\ wbuf[c] + down[c] + got[c] = Units(decoded)
  BY DEF ServerInv, Balanced, SendsInTurn, CountsMatch
<1>3. TypeOK /\ FrameLen \in Nat \ {0} BY ServerAssumption DEF ServerInv
<1>4. Units(decoded) \in Nat BY UnitsFacts
<1>5. got[c] < Units(decoded) BY <1>1, <1>2, <1>3, <1>4, BufferTypes
<1>6. Window(got[c]) \in Nat /\ Window(got[c]) <= Units(decoded)
  BY <1>3, <1>5, WindowFacts, BufferTypes
<1>7. PICK u, r, k, n, win \in Nat :
        /\ u = up[c] /\ r = rbuf[c] /\ k = wbuf[c] + down[c] + got[c] /\ n = sent[c]
        /\ win = Window(got[c])
  <2>1. /\ up[c] \in Nat /\ rbuf[c] \in Nat /\ wbuf[c] + down[c] + got[c] \in Nat
        /\ sent[c] \in Nat
    BY <1>3, BufferTypes
  <2> QED BY ONLY <1>6, <2>1
<1>8. n = u + r + k /\ n <= win /\ win <= k /\ r >= FrameLen
  <2>1. sent[c] = up[c] + rbuf[c] + (wbuf[c] + down[c] + got[c]) BY <1>2, <1>3, BufferTypes
  <2> QED BY <1>2, <1>6, <1>7, <2>1
<1> QED BY ONLY <1>3, <1>8, u \in Nat, r \in Nat, k \in Nat, n \in Nat, win \in Nat

LEMMA DecodeFrameStep ==
  ASSUME ServerInv, NEW c \in Clients, DecodeFrame(c) PROVE ServerInv'
<1> USE DEF DecodeFrame, ConsumeRead, Upsert, clientVars, kernelVars
<1>1. c \in SlotOf(cur) /\ io = "decode" /\ io' = "flush" /\ cur.owner = {c} BY InHand
<1>2. sent[c] = up[c] + rbuf[c] + wbuf[c] + down[c] + got[c] BY DEF ServerInv, Balanced
<1>3. TypeOK /\ Balanced /\ Total \in Nat /\ FrameLen \in Nat \ {0}
  BY UnitsFacts, ServerAssumption DEF ServerInv
<1>4. TypeOK'
  <2>1. rbuf[c] - FrameLen \in 0..Total /\ wbuf[c] + FrameLen \in 0..Total
    BY <1>2, <1>3, BufferTypes
  <2> QED BY <1>3, <2>1 DEF TypeOK
<1>5. Balanced'
  <2> SUFFICES ASSUME NEW d \in Clients
               PROVE  sent[d] = up[d] + rbuf'[d] + wbuf'[d] + down[d] + got[d]
    BY DEF Balanced
  <2> QED BY <1>3, BufferTypes DEF Balanced, TypeOK
<1>6. AwaitsPending'
  <2>1. \A d \in Clients \ {c} : awaiting'[d] = awaiting[d] /\ wbuf'[d] = wbuf[d]
    BY <1>3 DEF TypeOK
  <2>2. Flushing(c)' BY <1>1 DEF Flushing
  <2> QED BY <1>1, <2>1, <2>2 DEF ServerInv, AwaitsPending, Flushing
<1>7. SendsInTurn' BY DEF ServerInv, SendsInTurn, Window
<1>8. RepliesCounted'
  <2>1. PICK decoded, counted \in [Clients -> 0..Frames] :
          /\ completions = Cardinality(Tally(counted))
          /\ \A d \in Clients : CountsMatch(d, decoded[d], counted[d])
    BY DEF ServerInv, RepliesCounted
  <2> DEFINE more == [decoded EXCEPT ![c] = @ + 1]
  <2>2. /\ wbuf[c] + down[c] + got[c] = Units(decoded[c])
        /\ Frames \in Nat /\ decoded[c] \in Nat /\ counted[c] \in Nat
    BY <2>1, ServerAssumption DEF CountsMatch
  <2>3. decoded[c] + 1 <= Frames
    <3>1. Units(decoded[c] + 1) = Units(decoded[c]) + FrameLen /\ Units(decoded[c]) \in Nat
      BY <2>2, UnitsFacts
    <3>2. Units(Frames) = Total BY UnitsFacts
    <3>3. /\ up[c] \in Nat /\ rbuf[c] \in Nat /\ sent[c] \in Nat /\ sent[c] <= Total
          /\ wbuf[c] \in Nat /\ down[c] \in Nat /\ got[c] \in Nat /\ rbuf[c] >= FrameLen
      BY <1>3, BufferTypes
    <3>4. Units(decoded[c] + 1) <= Units(Frames)
      BY ONLY <1>2, <1>3, <2>2, <3>1, <3>2, <3>3
    <3> QED BY <2>2, <3>4, UnitsFacts
  <2>4. more \in [Clients -> 0..Frames] BY <2>2, <2>3
  <2>5. ASSUME NEW d \in Clients PROVE CountsMatch(d, more[d], counted[d])'
    <3>1. CASE d # c
      BY <1>3, <2>1, <3>1 DEF CountsMatch, TypeOK
    <3>2. CASE d = c
      <4>1. more[c] = decoded[c] + 1 OBVIOUS
      <4>2. awaiting'[c] = TRUE /\ wbuf'[c] = wbuf[c] + FrameLen BY <1>3 DEF TypeOK
      <4>3. wbuf'[c] + down[c] + got[c] = Units(decoded[c] + 1)
        <5>1. Units(decoded[c] + 1) = Units(decoded[c]) + FrameLen BY <2>2, UnitsFacts
        <5>2. wbuf[c] \in Nat /\ down[c] \in Nat /\ got[c] \in Nat BY <1>3, BufferTypes
        <5> QED BY ONLY <1>3, <2>2, <4>2, <5>1, <5>2
      <4>4. counted[c] <= decoded[c]
        BY <2>1, <2>2 DEF CountsMatch
      <4>5. c \notin Pipelining => counted[c] = decoded[c]
        <5>1. ~Flushing(c) BY <1>1 DEF Flushing
        <5>2. c \notin Pipelining => ~awaiting[c] BY <2>1, <2>2, <5>1, OneFrameAtATime
        <5> QED BY <2>1, <2>2, <5>2 DEF CountsMatch
      <4> HIDE DEF more
      <4> QED BY <2>2, <3>2, <4>1, <4>2, <4>3, <4>4, <4>5 DEF CountsMatch
    <3> QED BY <3>1, <3>2
  <2> HIDE DEF more
  <2> QED BY <2>1, <2>4, <2>5 DEF RepliesCounted, Tally
<1>9. Flushing(c)' /\ Decoding(c)' BY <1>1 DEF Flushing, Decoding
<1>10. \A d \in Clients \ {c} : /\ interest'[d] = interest[d] /\ rbuf'[d] = rbuf[d]
                                /\ wbuf'[d] = wbuf[d] /\ down'[d] = down[d]
  BY <1>3 DEF TypeOK
<1> QED BY <1>1, <1>4, <1>5, <1>6, <1>7, <1>8, <1>9, <1>10, OneConnection

(***************************************************************************)
(* try_flush_writes.                                                       *)
(***************************************************************************)
LEMMA SendStep == ASSUME ServerInv, NEW c \in Clients, Send(c) PROVE ServerInv'
<1> USE DEF Send, clientVars
<1>1. c \in SlotOf(cur) /\ io = "flush" /\ io' = "flush" /\ cur.owner = {c} BY InHand
<1>2. PICK k \in 1..wbuf[c] : /\ down[c] + k <= SockBuf
                              /\ down' = [down EXCEPT ![c] = @ + k]
                              /\ wbuf' = [wbuf EXCEPT ![c] = @ - k]
  BY DEF FlushWriteNonblocking, ConsumeWrite
<1>3. TypeOK /\ Balanced /\ Total \in Nat /\ SockBuf \in Nat
  BY UnitsFacts, ServerAssumption DEF ServerInv
<1>4. /\ k \in Nat /\ k <= wbuf[c] /\ wbuf'[c] = wbuf[c] - k /\ down'[c] = down[c] + k
      /\ \A d \in Clients \ {c} : wbuf'[d] = wbuf[d] /\ down'[d] = down[d]
  BY <1>2, <1>3, BufferTypes DEF TypeOK
<1>5. TypeOK'
  <2>1. wbuf[c] - k \in 0..Total /\ down[c] + k \in 0..SockBuf
    BY <1>2, <1>3, <1>4, BufferTypes DEF TypeOK
  <2> QED BY <1>2, <1>3, <2>1 DEF TypeOK
<1>6. \A d \in Clients : (wbuf[d] + down[d] + got[d])' = wbuf[d] + down[d] + got[d]
  BY <1>3, <1>4, BufferTypes
<1>7. Balanced'
  <2> SUFFICES ASSUME NEW d \in Clients
               PROVE  sent[d] = up[d] + rbuf[d] + wbuf'[d] + down'[d] + got[d]
    BY DEF Balanced
  <2> QED BY <1>3, <1>4, BufferTypes DEF Balanced
<1>8. AwaitsPending' BY <1>1, <1>4, InHand DEF ServerInv, AwaitsPending, Flushing
<1>9. SendsInTurn' BY DEF ServerInv, SendsInTurn, Window
<1>10. RepliesCounted' BY <1>6, CountsStay DEF ServerInv
<1>11. Flushing(c)' BY <1>1 DEF Flushing
<1>12. Decoding(c)' \/ rbuf'[c] < FrameLen
  BY <1>1, InHand DEF ServerInv, FramesTaken, Decoding
<1> QED BY <1>1, <1>4, <1>5, <1>7, <1>8, <1>9, <1>10, <1>11, <1>12, OneConnection

LEMMA SendWouldBlockStep ==
  ASSUME ServerInv, NEW c \in Clients, SendWouldBlock(c) PROVE ServerInv'
<1> USE DEF SendWouldBlock, Upsert, clientVars, kernelVars
<1>1. /\ c \in SlotOf(cur) /\ io = "flush" /\ io' = resume /\ cur.owner = {c}
      /\ resume \in {"events", "decode"} /\ TypeOK
  BY InHand DEF ServerInv, TypeOK
<1>2. /\ interest'[c] = {"Read", "Write"} /\ \A d \in Clients \ {c} : interest'[d] = interest[d]
      /\ TypeOK'
  BY <1>1 DEF TypeOK
<1>3. Balanced' BY DEF ServerInv, Balanced
<1>4. AwaitsPending' BY <1>1, InHand DEF ServerInv, AwaitsPending, Flushing
<1>5. SendsInTurn' BY DEF ServerInv, SendsInTurn, Window
<1>6. RepliesCounted' BY CountsStay DEF ServerInv
<1>7. Decoding(c)' \/ rbuf'[c] < FrameLen
  BY <1>1, InHand DEF ServerInv, FramesTaken, Decoding
<1> QED BY <1>1, <1>2, <1>3, <1>4, <1>5, <1>6, <1>7, OneConnection

(* One more reply is counted. *)
LEMMA TallyGrows ==
  ASSUME NEW counted \in [Clients -> 0..Frames], NEW c \in Clients, counted[c] < Frames
  PROVE  Cardinality(Tally([counted EXCEPT ![c] = @ + 1])) = Cardinality(Tally(counted)) + 1
<1> USE ServerAssumption
<1> DEFINE p == <<c, counted[c] + 1>>
           more == [counted EXCEPT ![c] = @ + 1]
<1>1. IsFiniteSet(Tally(counted))
  <2>1. IsFiniteSet(1..Frames) BY FS_Interval
  <2>2. IsFiniteSet(Clients \X (1..Frames)) BY <2>1, FS_Product
  <2> QED BY <2>2, FS_Subset DEF Tally
<1>2. Tally(more) = Tally(counted) \cup {p}
  <2>1. ASSUME NEW q \in Clients \X (1..Frames)
        PROVE  q \in Tally(more) <=> q \in Tally(counted) \/ q = p
    <3>1. q = <<q[1], q[2]>> /\ q[1] \in Clients /\ q[2] \in Nat OBVIOUS
    <3>2. \A d \in Clients : counted[d] \in Nat OBVIOUS
    <3>3. CASE q[1] = c
      <4>1. more[q[1]] = counted[c] + 1 BY <3>3
      <4>2. q = p <=> q[2] = counted[c] + 1 BY <3>1, <3>3
      <4> QED BY <3>1, <3>2, <3>3, <4>1, <4>2 DEF Tally
    <3>4. CASE q[1] # c
      <4>1. more[q[1]] = counted[q[1]] BY <3>1, <3>4
      <4>2. q # p BY <3>4
      <4> QED BY <4>1, <4>2 DEF Tally
    <3> QED BY <3>3, <3>4
  <2>2. p \in Clients \X (1..Frames) OBVIOUS
  <2> QED BY <2>1, <2>2 DEF Tally
<1>3. p \notin Tally(counted) BY DEF Tally
<1> QED BY <1>1, <1>2, <1>3, FS_AddElement

LEMMA FlushDoneStep ==
  ASSUME ServerInv, NEW c \in Clients, FlushDone(c) PROVE ServerInv'
<1> USE DEF FlushDone, Upsert, clientVars, kernelVars
<1>1. /\ c \in SlotOf(cur) /\ io = "flush" /\ io' = resume /\ cur.owner = {c}
      /\ resume \in {"events", "decode"} /\ TypeOK /\ wbuf[c] = 0
  BY InHand DEF ServerInv, TypeOK
<1>2. /\ interest'[c] = {"Read"} /\ awaiting'[c] = FALSE
      /\ \A d \in Clients \ {c} : interest'[d] = interest[d] /\ awaiting'[d] = awaiting[d]
      /\ TypeOK'
  BY <1>1 DEF TypeOK
<1>3. Balanced' BY DEF ServerInv, Balanced
<1>4. AwaitsPending' BY <1>1, <1>2, InHand DEF ServerInv, AwaitsPending, Flushing
<1>5. SendsInTurn' BY DEF ServerInv, SendsInTurn, Window
<1>6. RepliesCounted'
  <2>1. PICK decoded, counted \in [Clients -> 0..Frames] :
          /\ completions = Cardinality(Tally(counted))
          /\ \A d \in Clients : CountsMatch(d, decoded[d], counted[d])
    BY DEF ServerInv, RepliesCounted
  <2>2. CASE ~awaiting[c]
    <3>1. awaiting' = awaiting /\ completions' = completions
      BY <1>1, <2>2 DEF TypeOK
    <3> QED BY <3>1, CountsStay DEF ServerInv
  <2>3. CASE awaiting[c]
    <3> DEFINE more == [counted EXCEPT ![c] = @ + 1]
    <3>1. /\ Frames \in Nat /\ decoded[c] \in 0..Frames /\ counted[c] \in 0..Frames
          /\ counted[c] + 1 <= decoded[c]
          /\ c \notin Pipelining => counted[c] + 1 = decoded[c]
      BY <2>1, <2>3, ServerAssumption DEF CountsMatch
    <3>2. more \in [Clients -> 0..Frames] BY <3>1
    <3>3. completions' = Cardinality(Tally(more))
      <4>1. counted[c] < Frames BY <3>1
      <4>2. completions' = completions + 1 BY <2>3
      <4> QED BY <2>1, <4>1, <4>2, TallyGrows
    <3>4. ASSUME NEW d \in Clients PROVE CountsMatch(d, decoded[d], more[d])'
      <4>1. CASE d # c BY <1>2, <2>1, <4>1 DEF CountsMatch
      <4>2. CASE d = c
        <5>1. more[c] = counted[c] + 1 OBVIOUS
        <5> HIDE DEF more
        <5> QED BY <1>2, <2>1, <3>1, <4>2, <5>1 DEF CountsMatch
      <4> QED BY <4>1, <4>2
    <3> HIDE DEF more
    <3> QED BY <2>1, <3>2, <3>3, <3>4 DEF RepliesCounted, Tally
  <2> QED BY <2>2, <2>3
<1>7. Decoding(c)' \/ rbuf'[c] < FrameLen
  BY <1>1, InHand DEF ServerInv, FramesTaken, Decoding
<1>8. /\ io' \in {"events", "recv", "decode", "flush"} /\ wbuf'[c] = 0
      /\ UNCHANGED <<phase, cur, batch, listening, handle, accepted, client, backlog>>
      /\ rbuf' = rbuf /\ wbuf' = wbuf /\ down' = down /\ got' = got
  BY <1>1
<1>9. interest'[c] = IF wbuf'[c] > 0 THEN {"Read", "Write"} ELSE {"Read"} BY <1>2, <1>8
<1> QED BY ONLY ServerInv, <1>1, <1>2, <1>3, <1>4, <1>5, <1>6, <1>7, <1>8, <1>9, OneConnection

(***************************************************************************)
(* Steps that open and close connections.                                  *)
(***************************************************************************)
(* The client has closed, so it has been answered: nothing is dropped with *)
(* the buffers, and no event of the connection is left in the batch when   *)
(* its handle becomes free.                                                *)
LEMMA RecvClosedStep ==
  ASSUME ServerInv, NEW c \in Clients, RecvClosed(c) PROVE ServerInv'
<1> USE DEF RecvClosed, ClearWrite, RemoveSlot, Erase, clientVars, kernelVars
<1>1. /\ c \in SlotOf(cur) /\ io = "recv" /\ io' = "events" /\ cur.owner = {c}
      /\ \A e \in batch : e.owner # {c}
      /\ client[c] = "closed" /\ TypeOK
  BY InHand DEF ReceiveNonblocking, ServerInv
<1>2. rbuf[c] = 0 /\ wbuf[c] = 0 /\ ~awaiting[c]
  <2>1. got[c] = Total BY <1>1 DEF ServerInv, LeavesAnswered
  <2>2. rbuf[c] = 0 /\ wbuf[c] = 0 BY <2>1, NothingLeft DEF ServerInv
  <2> QED BY <1>1, <2>2 DEF ServerInv, AwaitsPending, Flushing
<1>3. rbuf' = rbuf /\ wbuf' = wbuf /\ awaiting' = awaiting BY <1>1, <1>2 DEF TypeOK
<1>4. /\ Slots' = Slots \ {c} /\ \A d \in Slots' : handle'[d] = handle[d] /\ interest'[d] = interest[d]
  BY <1>1 DEF TypeOK, Slots
<1>5. TypeOK' BY <1>1, <1>3 DEF TypeOK
<1>6. Balanced' BY <1>3 DEF ServerInv, Balanced
<1>7. AcceptedOnce' BY <1>3, <1>4 DEF ServerInv, AcceptedOnce
<1>8. HandlesDiffer' BY <1>4 DEF ServerInv, HandlesDiffer
<1>9. BatchIsCurrent' BY <1>1, <1>4 DEF ServerInv, BatchIsCurrent
<1>10. WatchMatches' BY <1>1, <1>3, <1>4 DEF ServerInv, WatchMatches, Flushing
<1>11. FramesTaken' BY <1>1, <1>3, <1>4 DEF ServerInv, FramesTaken, Decoding
<1>12. LeavesAnswered' BY <1>1, <1>4 DEF ServerInv, LeavesAnswered
<1>13. AwaitsPending' BY <1>1, <1>3 DEF ServerInv, AwaitsPending, Flushing
<1>14. SendsInTurn' BY DEF ServerInv, SendsInTurn, Window
<1>15. RepliesCounted' BY <1>3, CountsStay DEF ServerInv
<1> QED BY <1>5, <1>6, <1>7, <1>8, <1>9, <1>10, <1>11, <1>12, <1>13, <1>14, <1>15 DEF ServerInv

(* A client of the backlog gets a handle of its own and empty buffers. *)
LEMMA AcceptStep == ASSUME ServerInv, Accept PROVE ServerInv'
<1> USE DEF clientVars
<1>1. /\ io = "accept" /\ TypeOK
      /\ UNCHANGED <<phase, cur, resume, batch, listening, rbuf, wbuf,
                     awaiting, completions, clientVars, up, down>>
  BY DEF Accept, ServerInv
<1>2. CASE io' = "events" /\ UNCHANGED <<backlog, handle, interest, accepted>>
  <2>1. Slots' = Slots BY <1>2 DEF Slots
  <2>2. TypeOK' BY <1>1, <1>2 DEF TypeOK
  <2>3. BatchIsCurrent' BY <1>1, <1>2, <2>1 DEF ServerInv, BatchIsCurrent
  <2>4. LeavesAnswered' BY <1>1, <1>2, <2>1 DEF ServerInv, LeavesAnswered
  <2>5. \A c \in Clients : ~Flushing(c) /\ ~Decoding(c) BY <1>1 DEF Flushing, Decoding
  <2> QED BY <1>1, <1>2, <2>2, <2>3, <2>4, <2>5, DataStays DEF kernelVars
<1>3. ASSUME NEW c \in backlog, AcceptAndRegister(c), accepted' = accepted \cup {c}, io' = io
      PROVE  ServerInv'
  <2>1. /\ c \in Clients /\ c \notin accepted /\ c \notin Slots /\ handle[c] = 0
        /\ client[c] # "new" /\ rbuf[c] = 0 /\ wbuf[c] = 0
    BY <1>1 DEF ServerInv, AcceptedOnce, TypeOK, Slots
  <2>2. /\ FreeHandle \in Handles /\ FreeHandle # 0
        /\ \A d \in Slots : handle[d] # FreeHandle
    BY <1>1, <2>1, HandleIsFree DEF Handles
  <2>3. /\ Slots' = Slots \cup {c} /\ handle'[c] = FreeHandle /\ interest'[c] = {"Read"}
        /\ \A d \in Slots : handle'[d] = handle[d] /\ interest'[d] = interest[d]
        /\ backlog' = backlog \ {c}
    BY <1>1, <1>3, <2>1, <2>2 DEF TypeOK, Slots, AcceptAndRegister, AcceptOne, Upsert
  <2>4. TypeOK'
    BY <1>1, <1>3, <2>1, <2>2 DEF TypeOK, AcceptAndRegister, AcceptOne, Upsert
  <2>5. Balanced' BY <1>1 DEF ServerInv, Balanced
  <2>6. AcceptedOnce' BY <1>1, <1>3, <2>1, <2>3 DEF ServerInv, AcceptedOnce
  <2>7. HandlesDiffer' BY <2>2, <2>3 DEF ServerInv, HandlesDiffer
  <2>8. BatchIsCurrent' BY <1>1, <1>3, <2>3 DEF ServerInv, BatchIsCurrent
  <2>9. WatchMatches'
    <3>1. ASSUME NEW d \in Slots
          PROVE  interest'[d] = IF wbuf'[d] > 0 THEN {"Read", "Write"} ELSE {"Read"}
      BY <1>1, <2>3 DEF ServerInv, WatchMatches, Flushing
    <3>2. interest'[c] = IF wbuf'[c] > 0 THEN {"Read", "Write"} ELSE {"Read"}
      BY <1>1, <2>1, <2>3
    <3> QED BY <2>3, <3>1, <3>2 DEF WatchMatches
  <2>10. FramesTaken'
    BY <1>1, <1>3, <2>1, <2>3, ServerAssumption DEF ServerInv, FramesTaken, Decoding
  <2>11. LeavesAnswered' BY <1>1, <1>3, <2>3 DEF ServerInv, LeavesAnswered
  <2>12. AwaitsPending' BY <1>1, <1>3 DEF ServerInv, AwaitsPending, Flushing
  <2>13. SendsInTurn' BY <1>1 DEF ServerInv, SendsInTurn, Window
  <2>14. RepliesCounted' BY <1>1, CountsStay DEF ServerInv
  <2> QED BY <2>4, <2>5, <2>6, <2>7, <2>8, <2>9, <2>10, <2>11, <2>12, <2>13, <2>14
          DEF ServerInv
<1> QED BY <1>2, <1>3 DEF Accept

LEMMA CleanupStep == ASSUME ServerInv, Cleanup PROVE ServerInv'
<1> USE DEF Cleanup, clientVars, kernelVars
<1>1. Slots' = {} BY DEF Slots
<1>2. batch = {} BY DEF ServerInv, BatchIsCurrent
<1>3. TypeOK' BY ServerAssumption DEF ServerInv, TypeOK
<1>4. Balanced' BY DEF ServerInv, Balanced
<1>5. AcceptedOnce' BY <1>1 DEF ServerInv, AcceptedOnce
<1>6. HandlesDiffer' /\ WatchMatches' /\ FramesTaken'
  BY <1>1 DEF HandlesDiffer, WatchMatches, FramesTaken
<1>7. BatchIsCurrent' BY <1>2 DEF BatchIsCurrent
<1>8. LeavesAnswered' BY <1>1 DEF ServerInv, LeavesAnswered
<1>9. AwaitsPending' BY DEF ServerInv, AwaitsPending, Flushing
<1>10. SendsInTurn' BY DEF ServerInv, SendsInTurn, Window
<1>11. RepliesCounted' BY CountsStay DEF ServerInv
<1> QED BY <1>3, <1>4, <1>5, <1>6, <1>7, <1>8, <1>9, <1>10, <1>11 DEF ServerInv

(***************************************************************************)
(* The clients, whose steps the I/O thread does not notice at once.        *)
(***************************************************************************)
(* Whatever a client does, the events and the connections stay as they are. *)
LEMMA ClientStep ==
  ASSUME ServerInv, UNCHANGED <<phase, serverVars>>,
         TypeOK', Balanced', AcceptedOnce', LeavesAnswered', SendsInTurn',
         \A c \in Clients : (wbuf[c] + down[c] + got[c])' = wbuf[c] + down[c] + got[c]
  PROVE  ServerInv'
<1> USE DEF serverVars
<1>1. Slots' = Slots BY DEF Slots
<1>2. \A c : (Flushing(c)' <=> Flushing(c)) /\ (Decoding(c)' <=> Decoding(c))
  BY DEF Flushing, Decoding
<1>3. HandlesDiffer' BY <1>1 DEF ServerInv, HandlesDiffer
<1>4. BatchIsCurrent' BY <1>1 DEF ServerInv, BatchIsCurrent
<1>5. WatchMatches' BY <1>1, <1>2 DEF ServerInv, WatchMatches
<1>6. FramesTaken' BY <1>1, <1>2 DEF ServerInv, FramesTaken
<1>7. AwaitsPending' BY <1>2 DEF ServerInv, AwaitsPending
<1>8. RepliesCounted' BY CountsStay DEF ServerInv
<1> QED BY <1>3, <1>4, <1>5, <1>6, <1>7, <1>8 DEF ServerInv

LEMMA ConnectStep == ASSUME ServerInv, NEW c \in Clients, Connect(c) PROVE ServerInv'
<1> USE DEF Connect, serverVars
<1>1. TypeOK' BY DEF ServerInv, TypeOK
<1>2. Slots' = Slots BY DEF Slots
<1>3. Balanced' BY DEF ServerInv, Balanced
<1>4. AcceptedOnce'
  <2>1. c \notin accepted BY DEF ServerInv, AcceptedOnce
  <2>2. \A d \in Clients : client'[d] = "new" => client[d] = "new" /\ d # c
    BY DEF ServerInv, TypeOK
  <2>3. backlog' \subseteq backlog \cup {c} /\ backlog \cup accepted \subseteq Clients
    BY DEF ServerInv, TypeOK
  <2> QED BY <1>2, <2>1, <2>2, <2>3 DEF ServerInv, AcceptedOnce
<1>5. LeavesAnswered'
  <2>1. \A d \in Clients : client'[d] = "closed" <=> client[d] = "closed"
    BY DEF ServerInv, TypeOK
  <2>2. accepted \subseteq Clients BY DEF ServerInv, TypeOK
  <2> QED BY <1>2, <2>1, <2>2 DEF ServerInv, LeavesAnswered
<1>6. SendsInTurn' BY DEF ServerInv, SendsInTurn, Window
<1> QED BY <1>1, <1>3, <1>4, <1>5, <1>6, ClientStep

LEMMA ClientEndsStep ==
  ASSUME ServerInv, NEW c \in Clients, ClientClose(c) \/ ClientAbort(c) PROVE ServerInv'
<1> USE DEF ClientClose, ClientAbort, serverVars, kernelVars
<1>1. TypeOK' BY DEF ServerInv, TypeOK
<1>2. Slots' = Slots BY DEF Slots
<1>3. Balanced' BY DEF ServerInv, Balanced
<1>4. AcceptedOnce'
  <2>1. \A d \in Clients : client'[d] = "new" => client[d] = "new"
    BY DEF ServerInv, TypeOK
  <2>2. backlog \cup accepted \subseteq Clients BY DEF ServerInv, TypeOK
  <2> QED BY <1>2, <2>1, <2>2 DEF ServerInv, AcceptedOnce
<1>5. LeavesAnswered'
  <2>1. \A d \in Clients : /\ client[d] = "closed" => client'[d] = "closed"
                           /\ client'[d] = "closed" => client[d] = "closed" \/ got[d] = Total
    BY DEF ServerInv, TypeOK
  <2>2. accepted \subseteq Clients BY DEF ServerInv, TypeOK
  <2> QED BY <1>2, <2>1, <2>2 DEF ServerInv, LeavesAnswered
<1>6. SendsInTurn' BY DEF ServerInv, SendsInTurn, Window
<1> QED BY <1>1, <1>3, <1>4, <1>5, <1>6, ClientStep

LEMMA ClientSendStep ==
  ASSUME ServerInv, NEW c \in Clients, ClientSend(c) PROVE ServerInv'
<1> USE DEF ClientSend, serverVars
<1>1. TypeOK /\ Total \in Nat /\ SockBuf \in Nat
  BY UnitsFacts, ServerAssumption DEF ServerInv
<1>2. /\ sent'[c] = sent[c] + 1 /\ up'[c] = up[c] + 1
      /\ \A d \in Clients \ {c} : sent'[d] = sent[d] /\ up'[d] = up[d]
  BY <1>1 DEF TypeOK
<1>3. TypeOK'
  <2>1. sent[c] + 1 \in 0..Total /\ up[c] + 1 \in 0..SockBuf BY <1>1, BufferTypes
  <2> QED BY <1>1, <2>1 DEF TypeOK
<1>4. Slots' = Slots BY DEF Slots
<1>5. Balanced'
  <2> SUFFICES ASSUME NEW d \in Clients
               PROVE  sent'[d] = up'[d] + rbuf[d] + wbuf[d] + down[d] + got[d]
    BY DEF Balanced
  <2> QED BY <1>1, <1>2, BufferTypes DEF ServerInv, Balanced
<1>6. AcceptedOnce' BY <1>4 DEF ServerInv, AcceptedOnce
<1>7. LeavesAnswered' BY <1>4 DEF ServerInv, LeavesAnswered
<1>8. SendsInTurn'
  <2> SUFFICES ASSUME NEW d \in Clients \ Pipelining PROVE sent'[d] <= Window(got[d])
    BY DEF SendsInTurn, Window
  <2>1. CASE d = c
    <3>1. sent[c] < Window(got[c]) BY <2>1 DEF Window
    <3>2. Window(got[c]) \in Nat /\ sent[c] \in Nat BY <1>1, BufferTypes, WindowFacts
    <3> QED BY <1>2, <2>1, <3>1, <3>2
  <2>2. CASE d # c BY <1>2, <2>2 DEF ServerInv, SendsInTurn
  <2> QED BY <2>1, <2>2
<1> QED BY <1>3, <1>5, <1>6, <1>7, <1>8, ClientStep

LEMMA ClientRecvStep ==
  ASSUME ServerInv, NEW c \in Clients, ClientRecv(c) PROVE ServerInv'
<1> USE DEF ClientRecv, serverVars
<1>1. TypeOK /\ Total \in Nat /\ SockBuf \in Nat
  BY UnitsFacts, ServerAssumption DEF ServerInv
<1>2. /\ got'[c] = got[c] + down[c] /\ down'[c] = 0
      /\ \A d \in Clients \ {c} : got'[d] = got[d] /\ down'[d] = down[d]
  BY <1>1 DEF TypeOK
<1>3. sent[c] = up[c] + rbuf[c] + wbuf[c] + down[c] + got[c] BY DEF ServerInv, Balanced
<1>4. TypeOK'
  <2>1. got[c] + down[c] \in 0..Total BY <1>1, <1>3, BufferTypes
  <2> QED BY <1>1, <2>1 DEF TypeOK
<1>5. Slots' = Slots BY DEF Slots
<1>6. \A d \in Clients : (wbuf[d] + down[d] + got[d])' = wbuf[d] + down[d] + got[d]
  BY <1>1, <1>2, BufferTypes
<1>7. Balanced'
  <2> SUFFICES ASSUME NEW d \in Clients
               PROVE  sent[d] = up[d] + rbuf[d] + wbuf[d] + down'[d] + got'[d]
    BY DEF Balanced
  <2> QED BY <1>1, <1>2, BufferTypes DEF ServerInv, Balanced
<1>8. AcceptedOnce'
  <2>1. c \in accepted BY DEF ServerInv, AcceptedOnce
  <2> QED BY <1>2, <1>5, <2>1 DEF ServerInv, AcceptedOnce
<1>9. LeavesAnswered'
  BY <1>2, <1>5 DEF ServerInv, LeavesAnswered
<1>10. SendsInTurn'
  <2> SUFFICES ASSUME NEW d \in Clients \ Pipelining PROVE sent[d] <= Window(got'[d])
    BY DEF SendsInTurn, Window
  <2>1. CASE d = c
    <3>1. /\ sent[c] <= Window(got[c]) /\ got[c] \in Nat /\ got'[c] \in Nat
          /\ got[c] <= got'[c] /\ sent[c] \in Nat
      BY <1>1, <1>2, <2>1, BufferTypes DEF ServerInv, SendsInTurn
    <3>2. /\ Window(got[c]) \in Nat /\ Window(got'[c]) \in Nat
          /\ Window(got[c]) <= Window(got'[c])
      BY <3>1, WindowFacts
    <3> QED BY ONLY <2>1, <3>1, <3>2
  <2>2. CASE d # c BY <1>2, <2>2 DEF ServerInv, SendsInTurn
  <2> QED BY <2>1, <2>2
<1> QED BY <1>4, <1>6, <1>7, <1>8, <1>9, <1>10, ClientStep

(***************************************************************************)
(* The invariant.                                                          *)
(***************************************************************************)
LEMMA NextServer == ServerInv /\ [Next]_vars => ServerInv'
<1> SUFFICES ASSUME ServerInv, [Next]_vars PROVE ServerInv' OBVIOUS
<1>1. CASE \/ LoopTop \/ DeadlinePasses \/ EventsDone \/ StoppedAssertFails \/ Request
           \/ UNCHANGED vars
  BY <1>1, LoopSteps
<1>2. CASE Wait BY <1>2, WaitStep
<1>3. CASE NextEvent BY <1>3, NextEventStep
<1>4. CASE Accept BY <1>4, AcceptStep
<1>5. CASE TryAdvance BY <1>5, AdvanceStep
<1>6. CASE Cleanup BY <1>6, CleanupStep
<1>7. ASSUME NEW c \in Clients, Connection(c) PROVE ServerInv'
  BY <1>7, RecvDataStep, ReadEndsStep, RecvClosedStep, DecodeFrameStep, SendStep,
     SendWouldBlockStep, FlushDoneStep DEF Connection
<1>8. ASSUME NEW c \in Clients, Connect(c) \/ Session(c) \/ ClientAbort(c) PROVE ServerInv'
  BY <1>8, ConnectStep, ClientSendStep, ClientRecvStep, ClientEndsStep DEF Session
<1> QED BY <1>1, <1>2, <1>3, <1>4, <1>5, <1>6, <1>7, <1>8 DEF Next, Server

(* The inductive invariant of run_server and its clients. *)
THEOREM ServerInvariant == Spec => []ServerInv
  BY InitServer, NextServer, PTL DEF Spec

(***************************************************************************)
(* What the server promises.                                               *)
(***************************************************************************)
(* All state keeps its type; in particular no buffer of a connection ever  *)
(* holds more than its client sends, and no handle runs out.               *)
THEOREM ServerTypes == Spec => []TypeOK
  BY ServerInvariant, PTL DEF ServerInv

(* When run_server calls wait(), every connection with something to write, *)
(* and no other, is registered for writing.                                *)
THEOREM WritesAreWatched == Spec => []PendingWritesWatched
<1>1. ServerInv => PendingWritesWatched
  BY DEF ServerInv, WatchMatches, PendingWritesWatched, Flushing
<1> QED BY <1>1, ServerInvariant, PTL

(* Partial sends, partial frames and full socket buffers lose, duplicate   *)
(* or invent no unit of a client's stream.                                 *)
THEOREM BytesAreKept == Spec => []NoByteLost
<1>1. ServerInv => NoByteLost
  BY DEF ServerInv, Balanced, NoByteLost, TypeOK, Slots
<1> QED BY <1>1, ServerInvariant, PTL

(* When run_server calls wait(), no read buffer holds a complete frame. *)
THEOREM FramesAreAnswered == Spec => []NoFrameStranded
<1>1. ServerInv => NoFrameStranded
  BY DEF ServerInv, FramesTaken, NoFrameStranded, Decoding
<1> QED BY <1>1, ServerInvariant, PTL

(* find_slot_index leads an event to the connection select() reported it   *)
(* for, however handles are reused.                                        *)
THEOREM EventsAreDelivered == Spec => []EventsReachTheirConnection
<1>1. ASSUME ServerInv, io \in {"recv", "decode", "flush"} PROVE SlotOf(cur) = cur.owner
  <2>1. PICK c \in Slots : cur.owner = {c} /\ cur.handle = handle[c]
    BY <1>1 DEF ServerInv, BatchIsCurrent
  <2>2. c \in SlotOf(cur) BY <2>1 DEF SlotOf
  <2>3. \A d \in SlotOf(cur) : d = c
    BY <1>1, <2>1 DEF SlotOf, ServerInv, HandlesDiffer
  <2> QED BY <2>1, <2>2, <2>3
<1>2. ServerInv => EventsReachTheirConnection BY <1>1 DEF EventsReachTheirConnection
<1> QED BY <1>2, ServerInvariant, PTL

LEMMA IntervalSize ==
  ASSUME NEW n \in Nat
  PROVE  IsFiniteSet(1..n) /\ Cardinality(1..n) = n
  BY FS_Interval

LEMMA GridSize ==
  ASSUME NEW S, IsFiniteSet(S), NEW n \in Nat
  PROVE  IsFiniteSet(S \X (1..n)) /\ Cardinality(S \X (1..n)) = Cardinality(S) * n
<1>1. PICK T : T = 1..n OBVIOUS
<1>2. IsFiniteSet(T) /\ Cardinality(T) = n BY <1>1, IntervalSize
<1>3. IsFiniteSet(S \X T) /\ Cardinality(S \X T) = Cardinality(S) * Cardinality(T)
  BY ONLY IsFiniteSet(S), <1>2, FS_Product
<1> QED BY <1>1, <1>2, <1>3

(* Between every reply on its own and every client once. *)
LEMMA TallyBounds ==
  ASSUME NEW A \in SUBSET Clients, NEW counted \in [Clients -> 0..Frames],
         \A c \in Clients \ A : counted[c] = 0,
         \A c \in A : counted[c] > 0,
         \A c \in A \ Pipelining : counted[c] = Frames
  PROVE  /\ Cardinality(Tally(counted)) <= Frames * Cardinality(A)
         /\ Cardinality(Tally(counted)) >= Frames * Cardinality(A \ Pipelining)
                                             + Cardinality(A \cap Pipelining)
<1> DEFINE one == (A \ Pipelining) \X (1..Frames)
           two == (A \cap Pipelining) \X (1..1)
<1>1. /\ Frames \in Nat \ {0} /\ IsFiniteSet(Clients)
      /\ IsFiniteSet(A) /\ IsFiniteSet(A \ Pipelining) /\ IsFiniteSet(A \cap Pipelining)
  <2>1. IsFiniteSet(A) BY ServerAssumption, FS_Subset
  <2>2. IsFiniteSet(A \ Pipelining) /\ IsFiniteSet(A \cap Pipelining)
    BY <2>1, FS_Difference, FS_Intersection
  <2> QED BY <2>1, <2>2, ServerAssumption
<1>2. /\ Cardinality(A) \in Nat /\ Cardinality(A \ Pipelining) \in Nat
      /\ Cardinality(A \cap Pipelining) \in Nat
  BY <1>1, FS_CardinalityType
<1>3. Frames \in Nat /\ 1 \in Nat BY <1>1
<1>4. /\ IsFiniteSet(A \X (1..Frames))
      /\ Cardinality(A \X (1..Frames)) = Cardinality(A) * Frames
  BY <1>1, <1>3, GridSize
<1>5. IsFiniteSet(one) /\ Cardinality(one) = Cardinality(A \ Pipelining) * Frames
  BY <1>1, <1>3, GridSize
<1>6. IsFiniteSet(two) /\ Cardinality(two) = Cardinality(A \cap Pipelining)
  <2>1. IsFiniteSet(two) /\ Cardinality(two) = Cardinality(A \cap Pipelining) * 1
    BY <1>1, <1>3, GridSize
  <2> HIDE DEF two
  <2> QED BY ONLY <1>2, <2>1
<1>7. Tally(counted) \subseteq A \X (1..Frames) BY <1>1 DEF Tally
<1>8. one \cup two \subseteq Tally(counted) BY <1>1 DEF Tally
<1>9. IsFiniteSet(Tally(counted)) /\ Cardinality(Tally(counted)) <= Cardinality(A) * Frames
  BY <1>4, <1>7, FS_Subset
<1>10. /\ IsFiniteSet(one \cup two)
       /\ Cardinality(one \cup two) = Cardinality(one) + Cardinality(two)
  <2>1. one \cap two = {} OBVIOUS
  <2> HIDE DEF one, two
  <2>2. Cardinality(one) \in Nat /\ Cardinality(two) \in Nat
    BY <1>5, <1>6, FS_CardinalityType
  <2>3. Cardinality(one \cap two) = 0 BY <2>1, FS_EmptySet
  <2>4. /\ IsFiniteSet(one \cup two)
        /\ Cardinality(one \cup two) =
             Cardinality(one) + Cardinality(two) - Cardinality(one \cap two)
    BY <1>5, <1>6, FS_Union
  <2> QED BY ONLY <2>2, <2>3, <2>4
<1> HIDE DEF one, two
<1>11. Cardinality(one \cup two) <= Cardinality(Tally(counted))
  BY <1>8, <1>9, FS_Subset
<1> QED BY <1>1, <1>2, <1>5, <1>6, <1>9, <1>10, <1>11, FS_CardinalityType

LEMMA StoppedFacts == ServerInv => StoppedIsDrained
<1> SUFFICES ASSUME ServerInv, phase = "Stopped" PROVE StoppedIsDrained
  BY DEF StoppedIsDrained
<1>1. /\ Slots = {} /\ ~listening /\ accepted \subseteq Clients /\ io # "flush"
      /\ \A c \in accepted : client[c] = "closed" /\ got[c] = Total
  BY DEF ServerInv, LeavesAnswered, TypeOK
<1>2. PICK decoded, counted \in [Clients -> 0..Frames] :
        /\ completions = Cardinality(Tally(counted))
        /\ \A c \in Clients : CountsMatch(c, decoded[c], counted[c])
  BY DEF ServerInv, RepliesCounted
<1>3. Frames \in Nat \ {0} /\ TypeOK BY ServerAssumption DEF ServerInv
<1>4. ASSUME NEW c \in Clients \ accepted PROVE counted[c] = 0
  <2>1. wbuf[c] = 0 /\ down[c] = 0 /\ got[c] = 0 BY DEF ServerInv, AcceptedOnce
  <2>2. Units(decoded[c]) = 0 /\ counted[c] <= decoded[c]
    BY <1>2, <1>3, <2>1, BufferTypes DEF CountsMatch
  <2>3. decoded[c] <= 0 BY <1>2, <1>3, <2>2, UnitsFacts
  <2> QED BY <1>2, <1>3, <2>2, <2>3
<1>5. ASSUME NEW c \in accepted
      PROVE  counted[c] > 0 /\ (c \notin Pipelining => counted[c] = Frames)
  <2>1. c \in Clients /\ got[c] = Total /\ Total \in Nat
    BY <1>1, UnitsFacts
  <2>2. wbuf[c] = 0 /\ down[c] = 0 BY <2>1, NothingLeft DEF ServerInv
  <2>3. ~awaiting[c] BY <1>1, <2>1, <2>2 DEF ServerInv, AwaitsPending, Flushing
  <2>4. decoded[c] = Frames
    <3>1. Units(decoded[c]) = Total BY <1>2, <2>1, <2>2 DEF CountsMatch
    <3>2. decoded[c] <= Frames /\ Frames <= decoded[c]
      BY <1>2, <1>3, <2>1, <3>1, UnitsFacts
    <3> QED BY <1>2, <1>3, <2>1, <3>2
  <2> QED BY <1>2, <1>3, <2>1, <2>3, <2>4 DEF CountsMatch
<1>6. /\ completions <= Frames * Cardinality(accepted)
      /\ completions >= Frames * Cardinality(accepted \ Pipelining)
                           + Cardinality(accepted \cap Pipelining)
  BY <1>1, <1>2, <1>4, <1>5, TallyBounds
<1> QED BY <1>1, <1>6 DEF StoppedIsDrained

(* try_advance_to_stopped_if_drained stops the server only when everybody  *)
(* it accepted was answered and has gone, and every reply was counted.     *)
THEOREM StopsDrained == Spec => []StoppedIsDrained
  BY ServerInvariant, StoppedFacts, PTL

=============================================================================
