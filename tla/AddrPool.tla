----------------------------- MODULE AddrPool -----------------------------
(***************************************************************************)
(* Local addresses of the kernel-stack connections: the addr_pool of each  *)
(* reactor's posix_connector, and the loop of connect and reconnect that   *)
(* takes addresses from it until one can be bound.  Every reactor builds   *)
(* its pool from the same device, so the pools are equal and the kernel    *)
(* arbitrates; addresses may also be bound by other programs.              *)
(*                                                                         *)
(* An ip address is its index in ips.  A reactor that indexes ips past its *)
(* end has undefined behaviour and does nothing more here.                 *)
(***************************************************************************)
EXTENDS Naturals

CONSTANTS
    Reactors,
    NumIps,               \* ips.size(): 0 when no device was given
    PortStart, PortEnd,   \* kPortStart, kPortEnd
    Other                 \* the owner of sockets of other programs

ASSUME PortsAssumption ==
    /\ NumIps \in Nat /\ PortStart \in Nat /\ PortEnd \in Nat
    /\ PortStart < PortEnd
ASSUME OtherAssumption == Other \notin Reactors

VARIABLES
    ipIndex,    \* [Reactors -> Nat]: ip_index
    portIndex,  \* [Reactors -> PortStart..PortEnd]: port_index
    op,         \* [Reactors -> {"idle", "bind", "nofd", "undefined"}]: inside connect's loop
    stopping,   \* reactors whose engine was told to stop
    bound,      \* the kernel's bound addresses: a set of <<address, owner>>
    got,        \* history, [Reactors -> SUBSET Address]: addresses taken from the pool
    again       \* history: reactors that were handed an address a second time

vars == <<ipIndex, portIndex, op, stopping, bound, got, again>>

Address == (0..(NumIps - 1)) \X (PortStart..PortEnd)
InUse(a) == \E o \in Reactors \cup {Other} : <<a, o>> \in bound
----------------------------------------------------------------------------
\* connect or reconnect.  When the socket call fails that is logged, and the loop runs
\* with no descriptor, on which every bind fails.
Connect(r) ==
    /\ op[r] = "idle"
    /\ \E next \in {"bind", "nofd"} : op' = [op EXCEPT ![r] = next]
    /\ UNCHANGED <<ipIndex, portIndex, stopping, bound, got, again>>

\* addr_pool::get: a port at the end of the range moves on to the next ip address, which
\* is handed out with that port.
UsedUp(r) == portIndex[r] >= PortEnd

\* (mutant) the next ip is the same one
NextIpStays(r) == ipIndex[r]

NextIp(r) == ipIndex[r] + (IF UsedUp(r) THEN 1 ELSE 0)

\* (mutant) hands out the same port again
NextPortStays(r) == portIndex[r]

\* (mutant) skips a port
NextPortSkips(r) == IF UsedUp(r) THEN PortStart + 1 ELSE portIndex[r] + 1

NextPort(r) == IF UsedUp(r) THEN PortStart ELSE portIndex[r] + 1

\* One turn of the loop: take an address, try to bind it, and go round again when that
\* fails.
Bind(r) ==
    /\ op[r] \in {"bind", "nofd"}
    /\ ipIndex' = [ipIndex EXCEPT ![r] = NextIp(r)]
    /\ portIndex' = [portIndex EXCEPT ![r] = NextPort(r)]
    /\ IF NextIp(r) >= NumIps
         THEN /\ stopping' = IF UsedUp(r) THEN stopping \cup {r} ELSE stopping
              /\ op' = [op EXCEPT ![r] = "undefined"]
              /\ UNCHANGED <<bound, got, again>>
         ELSE LET a == <<NextIp(r), portIndex[r]>> IN
              /\ got' = [got EXCEPT ![r] = @ \cup {a}]
              /\ again' = IF a \in got[r] THEN again \cup {r} ELSE again
              /\ IF op[r] = "bind" /\ ~InUse(a)
                   THEN bound' = bound \cup {<<a, r>>} /\ op' = [op EXCEPT ![r] = "idle"]
                   ELSE UNCHANGED <<bound, op>>
              /\ UNCHANGED stopping

\* A connection of r is closed, or another program closes its socket.
Close(a, o) ==
    /\ <<a, o>> \in bound
    /\ bound' = bound \ {<<a, o>>}
    /\ UNCHANGED <<ipIndex, portIndex, op, stopping, got, again>>

\* Another program binds an address.
Foreign(a) ==
    /\ ~InUse(a)
    /\ bound' = bound \cup {<<a, Other>>}
    /\ UNCHANGED <<ipIndex, portIndex, op, stopping, got, again>>
----------------------------------------------------------------------------
Init ==
    /\ ipIndex = [r \in Reactors |-> 0]
    /\ portIndex = [r \in Reactors |-> PortStart]
    /\ op = [r \in Reactors |-> "idle"]
    /\ stopping = {}
    /\ bound = {}
    /\ got = [r \in Reactors |-> {}]
    /\ again = {}

Next ==
    \/ \E r \in Reactors : Connect(r) \/ Bind(r)
    \/ \E a \in Address : Foreign(a) \/ \E o \in Reactors \cup {Other} : Close(a, o)

Spec == Init /\ [][Next]_vars

\* The loop does not block.
FairSpec == Spec /\ \A r \in Reactors : WF_vars(Bind(r))
----------------------------------------------------------------------------
TypeOK ==
    /\ ipIndex \in [Reactors -> 0..NumIps]
    /\ portIndex \in [Reactors -> PortStart..PortEnd]
    /\ op \in [Reactors -> {"idle", "bind", "nofd", "undefined"}]
    /\ stopping \in SUBSET Reactors
    /\ bound \in SUBSET (Address \X (Reactors \cup {Other}))
    /\ got \in [Reactors -> SUBSET Address]
    /\ again \in SUBSET Reactors

\* A pool never hands out an address twice, also not around the change to the next ip
\* address: a closed connection's address, which may be in TIME_WAIT, is not tried again.
NoAddressTwice == again = {}

\* "(ip,port) tuple is used up on current ip address" (posix_connector.cc:119): a pool
\* runs out of addresses only when it has handed out every port below kPortEnd of every
\* ip address.
OutOnlyWhenUsedUp ==
    \A r \in Reactors : op[r] = "undefined" =>
        \A i \in 0..(NumIps - 1), p \in PortStart..(PortEnd - 1) : <<i, p>> \in got[r]

\* The loop of connect ends, with an address or with the pool used up, whatever the
\* other reactors and programs bind.
LoopEnds == \A r \in Reactors : op[r] \in {"bind", "nofd"} ~> op[r] \in {"idle", "undefined"}
=============================================================================
