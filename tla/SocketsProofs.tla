--------------------------- MODULE SocketsProofs ---------------------------
(***************************************************************************)
(* Ownership of descriptors for any number of descriptors, variables,      *)
(* slots and addresses: SocketsInv states it owner by owner, together with *)
(* what the server thread holds where.                                     *)
(***************************************************************************)
EXTENDS Sockets, SequenceTheorems, TLAPS

Some == Handles \cup {Invalid}
Holding == {"setsockopt", "bind", "listen", "nonblocking", "upsert"}
Serving == {"serve", "nonblocking", "upsert"}
Bound == Serving \cup {"register", "exit"}

SocketTypes ==
    /\ open \subseteq Handles /\ bare \subseteq Handles
    /\ var \in [Vars -> Some] /\ listener \in Some /\ local \in Some
    /\ slots \in Seq(Handles)
    /\ left \in Nat
    /\ at \in {"resolve", "failed", "socket", "returned"} \cup Holding \cup Bound

(* The server has a local socket, a listener and slots only in some places. *)
PlaceMatches ==
    /\ local # Invalid <=> at \in Holding
    /\ listener # Invalid <=> at \in Bound
    /\ at \in {"setsockopt", "bind", "listen"} => left > 0
    /\ at \notin Serving \cup {"exit"} => slots = <<>>
    /\ at \notin Serving \cup {"exit", "returned"} => interest = {}

(* Every open descriptor is somebody's. *)
NoneLeaked ==
    \A h \in open : \/ h \in bare \cup {listener, local}
                    \/ \E v \in Vars : var[v] = h
                    \/ \E i \in 1..Len(slots) : slots[i] = h

(* What somebody owns is open. *)
NoneDangling ==
    /\ bare \subseteq open
    /\ \A v \in Vars : var[v] # Invalid => var[v] \in open
    /\ \A i \in 1..Len(slots) : slots[i] \in open
    /\ listener # Invalid => listener \in open
    /\ local # Invalid => local \in open

(* No two own the same. *)
NoneShared ==
    /\ \A v, w \in Vars : var[v] # Invalid /\ v # w => var[v] # var[w]
    /\ \A v \in Vars : /\ var[v] \notin bare
                       /\ var[v] # Invalid => var[v] # listener /\ var[v] # local
                       /\ \A i \in 1..Len(slots) : var[v] # slots[i]
    /\ \A i, j \in 1..Len(slots) : i # j => slots[i] # slots[j]
    /\ \A i \in 1..Len(slots) : slots[i] \notin bare \cup {listener, local}
    /\ listener \notin bare /\ local \notin bare
    /\ listener # Invalid => listener # local

(* The poller knows every slot, and besides at most the listener. *)
PollerMatches ==
    at \in Serving =>
        /\ \A i \in 1..Len(slots) : slots[i] \in interest
        /\ \A h \in interest : h = listener \/ \E i \in 1..Len(slots) : slots[i] = h

SocketsInv ==
    /\ SocketTypes /\ PlaceMatches
    /\ NoneLeaked /\ NoneDangling /\ NoneShared /\ PollerMatches

LEMMA InitSockets == Init => SocketsInv
<1> SUFFICES ASSUME Init PROVE SocketsInv OBVIOUS
<1> USE SocketsAssumption DEF Init
<1>1. SocketTypes
  <2>1. slots \in Seq(Handles) OBVIOUS
  <2> QED BY <2>1 DEF SocketTypes, Some
<1>2. PlaceMatches BY DEF PlaceMatches, Holding, Bound, Serving
<1>3. NoneLeaked /\ NoneDangling BY DEF NoneLeaked, NoneDangling
<1>4. NoneShared BY DEF NoneShared
<1>5. PollerMatches BY DEF PollerMatches, Serving
<1> QED BY <1>1, <1>2, <1>3, <1>4, <1>5 DEF SocketsInv

(***************************************************************************)
(* Other code: the operations of Socket.                                   *)
(***************************************************************************)
LEMMA CreateStep == ASSUME SocketsInv, NEW v \in Vars, CreateTcpV4(v) PROVE SocketsInv'
<1> USE SocketsAssumption DEF SocketsInv, SocketTypes, CreateTcpV4, server, Free, Some
<1>1. SocketTypes' OBVIOUS
<1>2. PlaceMatches' BY DEF PlaceMatches
<1>3. NoneLeaked' BY DEF NoneLeaked
<1>4. NoneDangling' BY DEF NoneDangling, NoneShared
<1>5. NoneShared' BY DEF NoneShared, NoneDangling
<1>6. PollerMatches' BY DEF PollerMatches
<1> QED BY <1>1, <1>2, <1>3, <1>4, <1>5, <1>6

LEMMA MoveAssignStep ==
  ASSUME SocketsInv, NEW v \in Vars, NEW w \in Vars, MoveAssign(v, w) PROVE SocketsInv'
<1> USE SocketsAssumption DEF SocketsInv, SocketTypes, MoveAssign, server, Some
<1>1. SocketTypes' OBVIOUS
<1>2. PlaceMatches' BY DEF PlaceMatches
<1>3. NoneLeaked' BY DEF NoneLeaked
<1>4. NoneDangling' BY DEF NoneDangling, NoneShared
<1>5. NoneShared' BY DEF NoneShared, NoneDangling
<1>6. PollerMatches' BY DEF PollerMatches
<1> QED BY <1>1, <1>2, <1>3, <1>4, <1>5, <1>6

LEMMA CloseStep == ASSUME SocketsInv, NEW v \in Vars, Close(v) PROVE SocketsInv'
<1> USE SocketsAssumption DEF SocketsInv, SocketTypes, Close, server, Some
<1>1. SocketTypes' OBVIOUS
<1>2. PlaceMatches' BY DEF PlaceMatches
<1>3. NoneLeaked' BY DEF NoneLeaked
<1>4. NoneDangling' BY DEF NoneDangling, NoneShared
<1>5. NoneShared' BY DEF NoneShared, NoneDangling
<1>6. PollerMatches' BY DEF PollerMatches
<1> QED BY <1>1, <1>2, <1>3, <1>4, <1>5, <1>6

LEMMA ReleaseStep == ASSUME SocketsInv, NEW v \in Vars, Release(v) PROVE SocketsInv'
<1> USE SocketsAssumption DEF SocketsInv, SocketTypes, Release, server, Some
<1>1. SocketTypes' OBVIOUS
<1>2. PlaceMatches' BY DEF PlaceMatches
<1>3. NoneLeaked' BY DEF NoneLeaked
<1>4. NoneDangling' BY DEF NoneDangling, NoneShared
<1>5. NoneShared' BY DEF NoneShared, NoneDangling
<1>6. PollerMatches' BY DEF PollerMatches
<1> QED BY <1>1, <1>2, <1>3, <1>4, <1>5, <1>6

LEMMA ResetStep == ASSUME SocketsInv, NEW v \in Vars, Reset(v) PROVE SocketsInv'
<1> USE SocketsAssumption DEF SocketsInv, SocketTypes, Reset, server, Some
<1>1. SocketTypes' OBVIOUS
<1>2. PlaceMatches' BY DEF PlaceMatches
<1>3. NoneLeaked' BY DEF NoneLeaked
<1>4. NoneDangling' BY DEF NoneDangling, NoneShared
<1>5. NoneShared' BY DEF NoneShared, NoneDangling
<1>6. PollerMatches' BY DEF PollerMatches
<1> QED BY <1>1, <1>2, <1>3, <1>4, <1>5, <1>6

LEMMA BareStep == ASSUME SocketsInv, OpenBare \/ CloseBare PROVE SocketsInv'
<1> USE SocketsAssumption DEF SocketsInv, SocketTypes, OpenBare, CloseBare, server, Free, Some
<1>1. SocketTypes' OBVIOUS
<1>2. PlaceMatches' BY DEF PlaceMatches
<1>3. NoneLeaked' BY DEF NoneLeaked
<1>4. NoneDangling' BY DEF NoneDangling, NoneShared
<1>5. NoneShared' BY DEF NoneShared, NoneDangling
<1>6. PollerMatches' BY DEF PollerMatches
<1> QED BY <1>1, <1>2, <1>3, <1>4, <1>5, <1>6

(***************************************************************************)
(* bind_and_listen: every failure closes what was opened.                  *)
(***************************************************************************)
LEMMA ResolveStep == ASSUME SocketsInv, Resolve PROVE SocketsInv'
<1> USE SocketsAssumption
    DEF SocketsInv, SocketTypes, Resolve, Some, Holding, Serving, Bound
<1>1. SocketTypes' OBVIOUS
<1>2. PlaceMatches' BY DEF PlaceMatches
<1>3. NoneLeaked' BY DEF NoneLeaked, PlaceMatches
<1>4. NoneDangling' BY DEF NoneDangling, NoneShared, PlaceMatches
<1>5. NoneShared' BY DEF NoneShared, NoneDangling, PlaceMatches
<1>6. PollerMatches' BY DEF PollerMatches, PlaceMatches
<1> QED BY <1>1, <1>2, <1>3, <1>4, <1>5, <1>6

LEMMA SocketCallStep == ASSUME SocketsInv, SocketCall PROVE SocketsInv'
<1> USE SocketsAssumption
    DEF SocketsInv, SocketTypes, SocketCall, Free, Some, Holding, Serving, Bound
<1>1. SocketTypes' OBVIOUS
<1>2. PlaceMatches' BY DEF PlaceMatches
<1>3. NoneLeaked' BY DEF NoneLeaked, PlaceMatches
<1>4. NoneDangling' BY DEF NoneDangling, NoneShared, PlaceMatches
<1>5. NoneShared' BY DEF NoneShared, NoneDangling, PlaceMatches
<1>6. PollerMatches' BY DEF PollerMatches, PlaceMatches
<1> QED BY <1>1, <1>2, <1>3, <1>4, <1>5, <1>6

LEMMA NoAddressLeftStep == ASSUME SocketsInv, NoAddressLeft PROVE SocketsInv'
<1> USE SocketsAssumption
    DEF SocketsInv, SocketTypes, NoAddressLeft, Some, Holding, Serving, Bound
<1>1. SocketTypes' OBVIOUS
<1>2. PlaceMatches' BY DEF PlaceMatches
<1>3. NoneLeaked' BY DEF NoneLeaked, PlaceMatches
<1>4. NoneDangling' BY DEF NoneDangling, NoneShared, PlaceMatches
<1>5. NoneShared' BY DEF NoneShared, NoneDangling, PlaceMatches
<1>6. PollerMatches' BY DEF PollerMatches, PlaceMatches
<1> QED BY <1>1, <1>2, <1>3, <1>4, <1>5, <1>6

LEMMA SetSockOptStep == ASSUME SocketsInv, SetSockOpt PROVE SocketsInv'
<1> USE SocketsAssumption
    DEF SocketsInv, SocketTypes, SetSockOpt, LeaveScope, Some, Holding, Serving, Bound
<1>1. SocketTypes' OBVIOUS
<1>2. PlaceMatches' BY DEF PlaceMatches
<1>3. NoneLeaked' BY DEF NoneLeaked, PlaceMatches
<1>4. NoneDangling' BY DEF NoneDangling, NoneShared, PlaceMatches
<1>5. NoneShared' BY DEF NoneShared, NoneDangling, PlaceMatches
<1>6. PollerMatches' BY DEF PollerMatches, PlaceMatches
<1> QED BY <1>1, <1>2, <1>3, <1>4, <1>5, <1>6

LEMMA BindStep == ASSUME SocketsInv, Bind PROVE SocketsInv'
<1> USE SocketsAssumption
    DEF SocketsInv, SocketTypes, Bind, LeaveScope, Some, Holding, Serving, Bound
<1>1. SocketTypes' BY DEF PlaceMatches
<1>2. PlaceMatches' BY DEF PlaceMatches
<1>3. NoneLeaked' BY DEF NoneLeaked, PlaceMatches
<1>4. NoneDangling' BY DEF NoneDangling, NoneShared, PlaceMatches
<1>5. NoneShared' BY DEF NoneShared, NoneDangling, PlaceMatches
<1>6. PollerMatches' BY DEF PollerMatches, PlaceMatches
<1> QED BY <1>1, <1>2, <1>3, <1>4, <1>5, <1>6

LEMMA ListenStep == ASSUME SocketsInv, Listen PROVE SocketsInv'
<1> USE SocketsAssumption
    DEF SocketsInv, SocketTypes, Listen, LeaveScope, Some, Holding, Serving, Bound
<1>1. SocketTypes' OBVIOUS
<1>2. PlaceMatches' BY DEF PlaceMatches
<1>3. NoneLeaked' BY DEF NoneLeaked, PlaceMatches
<1>4. NoneDangling' BY DEF NoneDangling, NoneShared, PlaceMatches
<1>5. NoneShared' BY DEF NoneShared, NoneDangling, PlaceMatches
<1>6. PollerMatches' BY DEF PollerMatches, PlaceMatches
<1> QED BY <1>1, <1>2, <1>3, <1>4, <1>5, <1>6

(***************************************************************************)
(* The acceptor, the poller and the slots.                                 *)
(***************************************************************************)
LEMMA RegisterListenerStep == ASSUME SocketsInv, RegisterListener PROVE SocketsInv'
<1> USE SocketsAssumption
    DEF SocketsInv, SocketTypes, RegisterListener, Some, Holding, Serving, Bound
<1>1. SocketTypes' OBVIOUS
<1>2. PlaceMatches' BY DEF PlaceMatches
<1>3. NoneLeaked' BY DEF NoneLeaked, PlaceMatches
<1>4. NoneDangling' BY DEF NoneDangling, NoneShared, PlaceMatches
<1>5. NoneShared' BY DEF NoneShared, NoneDangling, PlaceMatches
<1>6. PollerMatches' BY DEF PollerMatches, PlaceMatches
<1> QED BY <1>1, <1>2, <1>3, <1>4, <1>5, <1>6

LEMMA AcceptOneStep == ASSUME SocketsInv, AcceptOne PROVE SocketsInv'
<1> USE SocketsAssumption
    DEF SocketsInv, SocketTypes, AcceptOne, Free, Some, Holding, Serving, Bound
<1>1. SocketTypes' OBVIOUS
<1>2. PlaceMatches' BY DEF PlaceMatches
<1>3. NoneLeaked' BY DEF NoneLeaked, PlaceMatches
<1>4. NoneDangling' BY DEF NoneDangling, NoneShared, PlaceMatches
<1>5. NoneShared' BY DEF NoneShared, NoneDangling, PlaceMatches
<1>6. PollerMatches' BY DEF PollerMatches, PlaceMatches
<1> QED BY <1>1, <1>2, <1>3, <1>4, <1>5, <1>6

LEMMA SetNonblockingStep == ASSUME SocketsInv, SetNonblocking PROVE SocketsInv'
<1> USE SocketsAssumption
    DEF SocketsInv, SocketTypes, SetNonblocking, LeaveScope, Some, Holding, Serving, Bound
<1>1. SocketTypes' OBVIOUS
<1>2. PlaceMatches' BY DEF PlaceMatches
<1>3. NoneLeaked' BY DEF NoneLeaked, PlaceMatches
<1>4. NoneDangling' BY DEF NoneDangling, NoneShared, PlaceMatches
<1>5. NoneShared' BY DEF NoneShared, NoneDangling, PlaceMatches
<1>6. PollerMatches' BY DEF PollerMatches, PlaceMatches
<1> QED BY <1>1, <1>2, <1>3, <1>4, <1>5, <1>6

LEMMA UnregisterListenerStep == ASSUME SocketsInv, UnregisterListener PROVE SocketsInv'
<1> USE SocketsAssumption
    DEF SocketsInv, SocketTypes, UnregisterListener, Some, Holding, Serving, Bound
<1>1. SocketTypes' OBVIOUS
<1>2. PlaceMatches' BY DEF PlaceMatches
<1>3. NoneLeaked' BY DEF NoneLeaked, PlaceMatches
<1>4. NoneDangling' BY DEF NoneDangling, NoneShared, PlaceMatches
<1>5. NoneShared' BY DEF NoneShared, NoneDangling, PlaceMatches
<1>6. PollerMatches' BY DEF PollerMatches, PlaceMatches, NoneShared
<1> QED BY <1>1, <1>2, <1>3, <1>4, <1>5, <1>6

LEMMA LeaveLoopStep == ASSUME SocketsInv, LeaveLoop PROVE SocketsInv'
<1> USE SocketsAssumption
    DEF SocketsInv, SocketTypes, LeaveLoop, Some, Holding, Serving, Bound
<1>1. SocketTypes' OBVIOUS
<1>2. PlaceMatches' BY DEF PlaceMatches
<1>3. NoneLeaked' BY DEF NoneLeaked, PlaceMatches
<1>4. NoneDangling' BY DEF NoneDangling, NoneShared, PlaceMatches
<1>5. NoneShared' BY DEF NoneShared, NoneDangling, PlaceMatches
<1>6. PollerMatches' BY DEF PollerMatches, PlaceMatches
<1> QED BY <1>1, <1>2, <1>3, <1>4, <1>5, <1>6

LEMMA DestroyAcceptorStep == ASSUME SocketsInv, DestroyAcceptor PROVE SocketsInv'
<1> USE SocketsAssumption
    DEF SocketsInv, SocketTypes, DestroyAcceptor, Some, Holding, Serving, Bound
<1>1. SocketTypes' OBVIOUS
<1>2. PlaceMatches' BY DEF PlaceMatches
<1>3. NoneLeaked' BY DEF NoneLeaked, PlaceMatches
<1>4. NoneDangling' BY DEF NoneDangling, NoneShared, PlaceMatches
<1>5. NoneShared' BY DEF NoneShared, NoneDangling, PlaceMatches
<1>6. PollerMatches' BY DEF PollerMatches, PlaceMatches
<1> QED BY <1>1, <1>2, <1>3, <1>4, <1>5, <1>6

(* The new connection becomes the last slot. *)
LEMMA PushSlotStep == ASSUME SocketsInv, PushSlot PROVE SocketsInv'
<1> USE SocketsAssumption
    DEF SocketsInv, SocketTypes, PushSlot, Some, Holding, Serving, Bound
<1>1. local \in Handles BY DEF PlaceMatches
<1>2. /\ slots' \in Seq(Handles) /\ Len(slots) \in Nat /\ Len(slots') = Len(slots) + 1
      /\ \A i \in 1..Len(slots) : slots'[i] = slots[i]
      /\ slots'[Len(slots) + 1] = local
  BY <1>1, AppendProperties, LenProperties
<1>3. SocketTypes' BY <1>2
<1>4. PlaceMatches' BY DEF PlaceMatches
<1>5. NoneLeaked' BY <1>2 DEF NoneLeaked
<1>6. NoneDangling' BY <1>2 DEF NoneDangling, PlaceMatches
<1>7. NoneShared' BY <1>2 DEF NoneShared, PlaceMatches
<1>8. PollerMatches' BY <1>2 DEF PollerMatches
<1> QED BY <1>3, <1>4, <1>5, <1>6, <1>7, <1>8

(* When the last slot has moved to the place of the i-th, the slots are    *)
(* the same ones without the i-th.                                         *)
LEMMA MovedBackSlots ==
  ASSUME slots \in Seq(Handles), NEW i \in DOMAIN slots
  PROVE  /\ MovedBack(i) \in Seq(Handles)
         /\ Len(slots) \in Nat \ {0} /\ i \in 1..Len(slots)
         /\ Len(MovedBack(i)) = Len(slots) - 1
         /\ \A j \in 1..(Len(slots) - 1) :
               MovedBack(i)[j] = slots[IF j = i THEN Len(slots) ELSE j]
<1> DEFINE n == Len(slots)
           moved == [slots EXCEPT ![i] = slots[n]]
<1>1. n \in Nat /\ i \in 1..n /\ DOMAIN slots = 1..n BY LenProperties
<1>2. n \in 1..n /\ slots[n] \in Handles BY <1>1, ElementOfSeq
<1>3. moved \in Seq(Handles) /\ Len(moved) = n
      /\ \A j \in 1..n : moved[j] = IF j = i THEN slots[n] ELSE slots[j]
  BY <1>1, <1>2, ExceptSeq
<1> HIDE DEF moved
<1>4. MovedBack(i) = SubSeq(moved, 1, n - 1) BY DEF MovedBack, moved
<1>5. /\ SubSeq(moved, 1, n - 1) \in Seq(Handles)
      /\ Len(SubSeq(moved, 1, n - 1)) = n - 1
      /\ \A j \in 1..(n - 1) : SubSeq(moved, 1, n - 1)[j] = moved[j]
  BY <1>1, <1>2, <1>3, SubSeqProperties
<1>6. \A j \in 1..(n - 1) : MovedBack(i)[j] = slots[IF j = i THEN n ELSE j]
  BY <1>1, <1>3, <1>4, <1>5
<1> QED BY <1>1, <1>4, <1>5, <1>6

LEMMA RemoveSlotStep ==
  ASSUME SocketsInv, NEW i \in DOMAIN slots, RemoveSlot(i) PROVE SocketsInv'
<1> USE SocketsAssumption DEF SocketsInv, Some
<1> DEFINE n == Len(slots)
<1>1. /\ slots' \in Seq(Handles) /\ n \in Nat \ {0} /\ i \in 1..n
      /\ Len(slots') = n - 1
      /\ \A j \in 1..(n - 1) : slots'[j] = slots[IF j = i THEN n ELSE j]
  BY MovedBackSlots DEF SocketTypes, RemoveSlot
<1>2. ASSUME NEW j \in 1..n, j # i PROVE \E k \in 1..(n - 1) : slots'[k] = slots[j]
  <2>1. CASE j = n
    <3>1. i \in 1..(n - 1) BY <1>1, <1>2, <2>1
    <3> QED BY <1>1, <2>1, <3>1
  <2>2. CASE j # n
    <3>1. j \in 1..(n - 1) BY <1>1, <2>2
    <3> QED BY <1>1, <1>2, <3>1
  <2> QED BY <2>1, <2>2
<1>3. ASSUME NEW k \in 1..(n - 1) PROVE \E j \in 1..n : j # i /\ slots'[k] = slots[j]
  <2>1. CASE k = i BY <1>1, <2>1
  <2>2. CASE k # i BY <1>1, <2>2
  <2> QED BY <2>1, <2>2
<1>4. \A j, k \in 1..(n - 1) : j # k => slots'[j] # slots'[k]
  <2> SUFFICES ASSUME NEW j \in 1..(n - 1), NEW k \in 1..(n - 1), j # k
               PROVE  slots'[j] # slots'[k]
    OBVIOUS
  <2> DEFINE a == IF j = i THEN n ELSE j
             b == IF k = i THEN n ELSE k
  <2>1. a \in 1..n /\ b \in 1..n /\ a # b BY <1>1
  <2>2. slots'[j] = slots[a] /\ slots'[k] = slots[b] BY <1>1
  <2> HIDE DEF a, b
  <2> QED BY <2>1, <2>2 DEF NoneShared
<1> USE DEF RemoveSlot
<1>5. SocketTypes' BY <1>1 DEF SocketTypes
<1>6. PlaceMatches' BY DEF PlaceMatches, Holding, Bound, Serving
<1>7. NoneLeaked'
  <2> SUFFICES ASSUME NEW h \in open'
               PROVE  \/ h \in bare \cup {listener, local}
                      \/ \E v \in Vars : var[v] = h
                      \/ \E k \in 1..Len(slots') : slots'[k] = h
    BY DEF NoneLeaked
  <2>1. h \in open /\ h # slots[i] OBVIOUS
  <2>2. ASSUME NEW j \in 1..n, slots[j] = h PROVE \E k \in 1..Len(slots') : slots'[k] = h
    BY <1>1, <1>2, <2>1, <2>2
  <2> QED BY <2>1, <2>2 DEF NoneLeaked
<1>8. NoneDangling'
  <2>1. \A k \in 1..Len(slots') : slots'[k] \in open'
    BY <1>1, <1>3 DEF NoneDangling, NoneShared
  <2> QED BY <1>1, <2>1 DEF NoneDangling, NoneShared
<1>9. NoneShared'
  <2>1. \A k \in 1..Len(slots') :
           slots'[k] \notin bare \cup {listener, local}
           /\ \A v \in Vars : var[v] # slots'[k]
    BY <1>1, <1>3 DEF NoneShared
  <2> QED BY <1>1, <1>4, <2>1 DEF NoneShared
<1>10. PollerMatches'
  <2>1. \A k \in 1..Len(slots') : slots'[k] \in interest'
    BY <1>1, <1>3 DEF PollerMatches, NoneShared, Serving
  <2>2. \A h \in interest' : h = listener \/ \E k \in 1..Len(slots') : slots'[k] = h
    BY <1>1, <1>2 DEF PollerMatches, Serving
  <2> QED BY <2>1, <2>2 DEF PollerMatches
<1> QED BY <1>5, <1>6, <1>7, <1>8, <1>9, <1>10

LEMMA PopSlotStep == ASSUME SocketsInv, PopSlot PROVE SocketsInv'
<1> USE SocketsAssumption DEF SocketsInv, Some
<1> DEFINE n == Len(slots)
<1>1. n \in Nat \ {0} /\ DOMAIN slots = 1..n
  BY LenProperties, EmptySeq DEF PopSlot, SocketTypes
<1>2. /\ slots' \in Seq(Handles) /\ Len(slots') = n - 1
      /\ \A j \in 1..(n - 1) : slots'[j] = slots[j]
  BY <1>1, SubSeqProperties DEF PopSlot, SocketTypes
<1> USE DEF PopSlot
<1>3. SocketTypes' BY <1>2 DEF SocketTypes
<1>4. PlaceMatches' BY DEF PlaceMatches, Holding, Bound, Serving
<1>5. NoneLeaked' BY <1>1, <1>2 DEF NoneLeaked
<1>6. NoneDangling'
  <2>1. \A k \in 1..Len(slots') : slots'[k] \in open'
    BY <1>1, <1>2 DEF NoneDangling, NoneShared
  <2> QED BY <1>1, <2>1 DEF NoneDangling, NoneShared
<1>7. NoneShared' BY <1>1, <1>2 DEF NoneShared
<1>8. PollerMatches' BY DEF PollerMatches, Serving
<1> QED BY <1>3, <1>4, <1>5, <1>6, <1>7, <1>8

LEMMA NextSockets == SocketsInv /\ [Next]_vars => SocketsInv'
<1> SUFFICES ASSUME SocketsInv, [Next]_vars PROVE SocketsInv' OBVIOUS
<1>1. CASE UNCHANGED vars
  BY <1>1 DEF vars, SocketsInv, SocketTypes, PlaceMatches, NoneLeaked, NoneDangling,
              NoneShared, PollerMatches
<1>2. CASE OtherCode
  BY <1>2, CreateStep, MoveAssignStep, CloseStep, ReleaseStep, ResetStep, BareStep
  DEF OtherCode
<1>3. CASE BindAndListen
  BY <1>3, ResolveStep, SocketCallStep, NoAddressLeftStep, SetSockOptStep, BindStep,
     ListenStep DEF BindAndListen
<1>4. CASE RunServer
  BY <1>4, RegisterListenerStep, AcceptOneStep, SetNonblockingStep, PushSlotStep,
     RemoveSlotStep, UnregisterListenerStep, LeaveLoopStep, PopSlotStep,
     DestroyAcceptorStep DEF RunServer
<1> QED BY <1>1, <1>2, <1>3, <1>4 DEF Next

LEMMA SocketsInvariant == Spec => []SocketsInv
  BY InitSockets, NextSockets, PTL DEF Spec

(***************************************************************************)
(* The theorems.                                                           *)
(***************************************************************************)
(* No path through Socket, bind_and_listen, the accept loop and the slots  *)
(* leaks a descriptor, closes one twice or closes somebody else's.         *)
THEOREM DescriptorsHaveOneOwner == Spec => []OneOwnerEach
<1>1. SocketsInv => OneOwnerEach
  <2> SUFFICES ASSUME SocketsInv PROVE OneOwnerEach OBVIOUS
  <2> USE SocketsAssumption DEF SocketsInv, SocketTypes, Some
  <2>1. DOMAIN slots = 1..Len(slots) BY LenProperties
  <2>2. ASSUME NEW o \in Owners PROVE Owned(o) \in open
    BY <2>1 DEF Owners, Owned, NoneDangling
  <2>3. ASSUME NEW h \in open PROVE \E o \in Owners : Owned(o) = h
    <3>1. CASE h \in bare
      <4>1. [kind |-> "bare", of |-> h] \in Owners BY <3>1 DEF Owners
      <4> QED BY <4>1 DEF Owned
    <3>2. CASE h = listener
      <4>1. [kind |-> "listener", of |-> 0] \in Owners BY <3>2 DEF Owners
      <4> QED BY <3>2, <4>1 DEF Owned
    <3>3. CASE h = local
      <4>1. [kind |-> "local", of |-> 0] \in Owners BY <3>3 DEF Owners
      <4> QED BY <3>3, <4>1 DEF Owned
    <3>4. ASSUME NEW v \in Vars, var[v] = h PROVE \E o \in Owners : Owned(o) = h
      <4>1. [kind |-> "var", of |-> v] \in Owners BY <3>4 DEF Owners
      <4> QED BY <3>4, <4>1 DEF Owned
    <3>5. ASSUME NEW i \in 1..Len(slots), slots[i] = h PROVE \E o \in Owners : Owned(o) = h
      <4>1. [kind |-> "slot", of |-> i] \in Owners BY <2>1 DEF Owners
      <4> QED BY <3>5, <4>1 DEF Owned
    <3> QED BY <3>1, <3>2, <3>3, <3>4, <3>5 DEF NoneLeaked
  <2>4. ASSUME NEW o \in Owners, NEW p \in Owners, Owned(o) = Owned(p) PROVE o = p
    BY <2>1, <2>4 DEF Owners, Owned, NoneShared
  <2>5. open = {Owned(o) : o \in Owners} BY <2>2, <2>3
  <2> QED BY <2>4, <2>5 DEF OneOwnerEach
<1> QED BY <1>1, SocketsInvariant, PTL

(* The poller of the server never watches a descriptor that is not its own. *)
THEOREM ServerWatchesItsOwn == Spec => []WatchesItsOwn
<1>1. SocketsInv => WatchesItsOwn
  BY LenProperties DEF SocketsInv, SocketTypes, PollerMatches, WatchesItsOwn, Serving
<1> QED BY <1>1, SocketsInvariant, PTL

=============================================================================
