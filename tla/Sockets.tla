------------------------------- MODULE Sockets -------------------------------
(***************************************************************************)
(* Who owns which descriptor: the RAII class Socket (socket.cpp) as the    *)
(* local variables of bind_and_listen and accept_and_register              *)
(* (acceptor.cpp), the Acceptor, and the vector of slots of run_server use *)
(* it, with every system call on the way failing at will.  Other code of   *)
(* the process opens and closes sockets at the same time, partly through   *)
(* Socket variables of its own and partly, like the clients of the tests,  *)
(* on bare descriptors, so that a closed descriptor is soon somebody       *)
(* else's.                                                                 *)
(*                                                                         *)
(* One system call is one step.  close() gives the descriptor up whether   *)
(* or not it reports an error.  A destructor is a close(), and a move      *)
(* construction is a move assignment to a Socket that owns nothing.        *)
(***************************************************************************)
EXTENDS Naturals, Sequences

CONSTANTS
    Handles,        \* the descriptors a process can have
    Invalid,        \* k_invalid_socket
    Vars,           \* Socket variables of other code
    MaxAddresses    \* bound: addresses getaddrinfo returns

ASSUME SocketsAssumption == Invalid \notin Handles /\ MaxAddresses \in Nat

VARIABLES
    open,      \* descriptors open in the kernel
    bare,      \* descriptors owned by code that does not use Socket
    var,       \* socket_ of each of Vars
    listener,  \* socket_ of the Listener, later of the Acceptor
    local,     \* socket_ of the local variable sock, accepted or conn
    slots,     \* socket_ of each slot
    interest,  \* sockets the poller watches
    left,      \* addresses bind_and_listen has not tried
    at         \* where the server thread is

vars == <<open, bare, var, listener, local, slots, interest, left, at>>
server == <<listener, local, slots, interest, left, at>>

Init ==
    /\ open = {} /\ bare = {}
    /\ var = [v \in Vars |-> Invalid]
    /\ listener = Invalid /\ local = Invalid
    /\ slots = <<>> /\ interest = {}
    /\ left = 0 /\ at = "resolve"

Free == Handles \ open

(***************************************************************************)
(* Socket, for the variables of other code.                                *)
(***************************************************************************)
(* create_tcp_v4, moved into v: the new descriptor is allocated before the *)
(* old one is closed.                                                      *)
CreateTcpV4(v) ==
    /\ \E h \in Free : open' = (open \cup {h}) \ {var[v]} /\ var' = [var EXCEPT ![v] = h]
    /\ UNCHANGED <<bare, server>>

(* Fault: the source still owns its descriptor after the move. *)
MoveAssignShared(v, w) ==
    /\ v # w
    /\ open' = open \ {var[v]}
    /\ var' = [var EXCEPT ![v] = var[w]]
    /\ UNCHANGED <<bare, server>>

(* operator=(Socket&&); assigning a Socket to itself does nothing. *)
MoveAssign(v, w) ==
    /\ v # w
    /\ open' = open \ {var[v]}
    /\ var' = [var EXCEPT ![v] = var[w], ![w] = Invalid]
    /\ UNCHANGED <<bare, server>>

Close(v) ==
    /\ var[v] # Invalid
    /\ open' = open \ {var[v]}
    /\ var' = [var EXCEPT ![v] = Invalid]
    /\ UNCHANGED <<bare, server>>

Release(v) ==
    /\ var[v] # Invalid
    /\ bare' = bare \cup {var[v]}
    /\ var' = [var EXCEPT ![v] = Invalid]
    /\ UNCHANGED <<open, server>>

(* reset, to a descriptor its caller owns or to none. *)
Reset(v) ==
    /\ \E h \in bare \cup {Invalid} :
          /\ var' = [var EXCEPT ![v] = h]
          /\ bare' = bare \ {h}
    /\ open' = open \ {var[v]}
    /\ UNCHANGED server

OpenBare ==
    /\ \E h \in Free : open' = open \cup {h} /\ bare' = bare \cup {h}
    /\ UNCHANGED <<var, server>>

CloseBare ==
    /\ \E h \in bare : open' = open \ {h} /\ bare' = bare \ {h}
    /\ UNCHANGED <<var, server>>

(***************************************************************************)
(* bind_and_listen.                                                        *)
(***************************************************************************)
(* The descriptor of the local variable is closed as its scope is left. *)
LeaveScope(label) ==
    /\ open' = open \ {local}
    /\ local' = Invalid
    /\ at' = label

Resolve ==
    /\ at = "resolve"
    /\ \/ at' = "failed" /\ UNCHANGED left
       \/ at' = "socket" /\ left' \in 1..MaxAddresses
    /\ UNCHANGED <<open, bare, var, listener, local, slots, interest>>

SocketCall ==
    /\ at = "socket" /\ left > 0
    /\ \/ \E h \in Free : /\ open' = open \cup {h} /\ local' = h
                          /\ at' = "setsockopt" /\ UNCHANGED left
       \/ left' = left - 1 /\ UNCHANGED <<open, local, at>>
    /\ UNCHANGED <<bare, var, listener, slots, interest>>

NoAddressLeft ==
    /\ at = "socket" /\ left = 0
    /\ at' = "failed"
    /\ UNCHANGED <<open, bare, var, listener, local, slots, interest, left>>

SetSockOpt ==
    /\ at = "setsockopt"
    /\ \/ at' = "bind" /\ UNCHANGED <<open, local>>
       \/ LeaveScope("failed")
    /\ UNCHANGED <<bare, var, listener, slots, interest, left>>

Bind ==
    /\ at = "bind"
    /\ \/ at' = "listen" /\ UNCHANGED <<open, local, left>>
       \/ LeaveScope("socket") /\ left' = left - 1
    /\ UNCHANGED <<bare, var, listener, slots, interest>>

(* On success sock moves into the Listener, which moves into the Acceptor. *)
Listen ==
    /\ at = "listen"
    /\ \/ /\ listener' = local /\ local' = Invalid
          /\ at' = "register" /\ UNCHANGED open
       \/ LeaveScope("failed") /\ UNCHANGED listener
    /\ UNCHANGED <<bare, var, slots, interest, left>>

(***************************************************************************)
(* The Acceptor, the poller and the slots of run_server.                   *)
(***************************************************************************)
RegisterListener ==
    /\ at = "register"
    /\ interest' = interest \cup {listener}
    /\ at' = "serve"
    /\ UNCHANGED <<open, bare, var, listener, local, slots, left>>

(* accept_one: a pending connection, if there is one. *)
AcceptOne ==
    /\ at = "serve" /\ listener \in interest
    /\ \E h \in Free : open' = open \cup {h} /\ local' = h
    /\ at' = "nonblocking"
    /\ UNCHANGED <<bare, var, listener, slots, interest, left>>

SetNonblocking ==
    /\ at = "nonblocking"
    /\ \/ at' = "upsert" /\ UNCHANGED <<open, local>>
       \/ LeaveScope("serve")
    /\ UNCHANGED <<bare, var, listener, slots, interest, left>>

(* The connection is registered, returned and moved into a new slot. *)
PushSlot ==
    /\ at = "upsert"
    /\ interest' = interest \cup {local}
    /\ slots' = Append(slots, local)
    /\ local' = Invalid
    /\ at' = "serve"
    /\ UNCHANGED <<open, bare, var, listener, left>>

(* The slots when the last one has moved to the place of the i-th. *)
MovedBack(i) ==
    SubSeq([slots EXCEPT ![i] = slots[Len(slots)]], 1, Len(slots) - 1)

(* Fault: the poller forgets what is in the i-th place after the move. *)
RemoveSlotLate(i) ==
    /\ at = "serve"
    /\ slots' = MovedBack(i)
    /\ open' = open \ {slots[i]}
    /\ interest' = interest \ {slots[Len(slots)]}
    /\ UNCHANGED <<bare, var, listener, local, left, at>>

(* remove_slot: move assignment closes the socket that is overwritten;     *)
(* popping the last slot, if it is the one, destroys it.                   *)
RemoveSlot(i) ==
    /\ at = "serve"
    /\ interest' = interest \ {slots[i]}
    /\ slots' = MovedBack(i)
    /\ open' = open \ {slots[i]}
    /\ UNCHANGED <<bare, var, listener, local, left, at>>

UnregisterListener ==
    /\ at = "serve"
    /\ interest' = interest \ {listener}
    /\ UNCHANGED <<open, bare, var, listener, local, slots, left, at>>

LeaveLoop ==
    /\ at = "serve"
    /\ at' = "exit"
    /\ UNCHANGED <<open, bare, var, listener, local, slots, interest, left>>

(* After the loop: one slot after the other is erased and destroyed. *)
PopSlot ==
    /\ at = "exit" /\ slots # <<>>
    /\ LET h == slots[Len(slots)] IN
          interest' = interest \ {h} /\ open' = open \ {h}
    /\ slots' = SubSeq(slots, 1, Len(slots) - 1)
    /\ UNCHANGED <<bare, var, listener, local, left, at>>

(* The listener is unregistered unless it was, and ~Acceptor closes it. *)
DestroyAcceptor ==
    /\ at = "exit" /\ slots = <<>>
    /\ interest' = interest \ {listener}
    /\ open' = open \ {listener} /\ listener' = Invalid
    /\ at' = "returned"
    /\ UNCHANGED <<bare, var, local, slots, left>>

-----------------------------------------------------------------------------
OtherCode ==
    \/ \E v \in Vars : CreateTcpV4(v) \/ Close(v) \/ Release(v) \/ Reset(v)
    \/ \E v, w \in Vars : MoveAssign(v, w)
    \/ OpenBare \/ CloseBare

BindAndListen ==
    Resolve \/ SocketCall \/ NoAddressLeft \/ SetSockOpt \/ Bind \/ Listen

RunServer ==
    \/ RegisterListener \/ AcceptOne \/ SetNonblocking \/ PushSlot
    \/ \E i \in DOMAIN slots : RemoveSlot(i)
    \/ UnregisterListener \/ LeaveLoop \/ PopSlot \/ DestroyAcceptor

Next == OtherCode \/ BindAndListen \/ RunServer

Spec == Init /\ [][Next]_vars

-----------------------------------------------------------------------------
(* Everything that would close a descriptor, by name. *)
Owners == [kind : {"bare"}, of : bare]
          \cup [kind : {"var"}, of : {v \in Vars : var[v] # Invalid}]
          \cup [kind : {"slot"}, of : DOMAIN slots]
          \cup [kind : {o \in {"listener", "local"} :
                          (IF o = "local" THEN local ELSE listener) # Invalid}, of : {0}]
Owned(o) == CASE o.kind = "bare" -> o.of
              [] o.kind = "var" -> var[o.of]
              [] o.kind = "slot" -> slots[o.of]
              [] o.kind = "listener" -> listener
              [] o.kind = "local" -> local

(* Every open descriptor has exactly one owner and every owner's is open:  *)
(* none leaks on a path that fails, none is closed twice, and so a close() *)
(* never hits the socket that has got the number in the meantime.          *)
OneOwnerEach ==
    /\ open = {Owned(o) : o \in Owners}
    /\ \A o, p \in Owners : Owned(o) = Owned(p) => o = p

(* Whenever the server polls, it watches its own sockets: each connection, *)
(* the listener until it is unregistered, and no descriptor that it has    *)
(* closed and somebody else may have got.                                  *)
WatchesItsOwn ==
    at = "serve" =>
        interest \cup {listener} = {slots[i] : i \in DOMAIN slots} \cup {listener}

=============================================================================
