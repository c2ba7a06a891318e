-------------------------- MODULE AddrPoolProof --------------------------
(***************************************************************************)
(* Proofs about AddrPool, for any number of reactors, ip addresses and     *)
(* ports.  The two indices of a pool are a cursor into its addresses: what *)
(* was handed out is what lies behind the cursor.                          *)
(***************************************************************************)
EXTENDS AddrPool, TLAPS

\* Behind the cursor: the earlier ip addresses, the lower ports of the current one, and
\* the port it was entered with.
Behind(r, i, p) ==
    \/ i < ipIndex[r]
    \/ i = ipIndex[r] /\ p < portIndex[r]
    \/ i = ipIndex[r] /\ i > 0 /\ p = PortEnd

\* Nothing ahead of the cursor was handed out, ...
NothingAhead(r) == \A a \in got[r] : Behind(r, a[1], a[2])

\* ... and below kPortEnd everything behind it was.
AllBehind(r) ==
    \A i \in 0..(NumIps - 1), p \in PortStart..(PortEnd - 1) : Behind(r, i, p) => <<i, p>> \in got[r]

PoolInv ==
    /\ TypeOK
    /\ NoAddressTwice
    /\ \A r \in Reactors : NothingAhead(r) /\ AllBehind(r)
    /\ \A r \in Reactors : op[r] # "undefined" =>
            ipIndex[r] < NumIps \/ (ipIndex[r] = 0 /\ portIndex[r] = PortStart)
    /\ \A r \in Reactors : op[r] = "undefined" => ipIndex[r] >= NumIps

\* A turn of connect's loop keeps the invariant.
LEMMA BindStep ==
    ASSUME PoolInv, NEW r \in Reactors, Bind(r)
    PROVE  PoolInv'
<1> USE PortsAssumption
<1> USE DEF PoolInv
<1>1. PICK i \in 0..NumIps, p \in PortStart..PortEnd : i = ipIndex[r] /\ p = portIndex[r]
  BY Zenon DEF TypeOK
<1>2. PICK j \in Nat, q \in PortStart..PortEnd :
        /\ j = NextIp(r) /\ q = NextPort(r)
        /\ \/ p = PortEnd /\ j = i + 1 /\ q = PortStart
           \/ p < PortEnd /\ j = i /\ q = p + 1
  BY <1>1 DEF NextIp, NextPort, UsedUp
<1>3. /\ op[r] \in {"bind", "nofd"}
      /\ ipIndex' = [ipIndex EXCEPT ![r] = j] /\ portIndex' = [portIndex EXCEPT ![r] = q]
      /\ ipIndex'[r] = j /\ portIndex'[r] = q
      /\ \A s \in Reactors \ {r} : ipIndex'[s] = ipIndex[s] /\ portIndex'[s] = portIndex[s]
  BY Zenon, <1>2 DEF Bind, TypeOK
<1>4. j <= NumIps
  BY <1>1, <1>2, <1>3
<1>5. CASE j >= NumIps
  <2>1. /\ op' = [op EXCEPT ![r] = "undefined"] /\ UNCHANGED <<bound, got, again>>
        /\ stopping' \in SUBSET Reactors
    BY Zenon, <1>2, <1>5 DEF Bind, TypeOK
  <2>2. TypeOK'
    BY <1>3, <1>4, <2>1 DEF TypeOK
  <2>3. NoAddressTwice'
    BY Zenon, <2>1 DEF NoAddressTwice
  <2>4. ASSUME NEW s \in Reactors
        PROVE  NothingAhead(s)' /\ AllBehind(s)'
    <3>1. CASE s = r
      <4>1. \A k \in Nat, n \in PortStart..PortEnd : k <= NumIps - 1 /\ Behind(r, k, n) => Behind(r, k, n)'
        BY <1>1, <1>2, <1>3, <1>5 DEF Behind
      <4>2. \A k \in 0..(NumIps - 1), n \in PortStart..(PortEnd - 1) : Behind(r, k, n)' => Behind(r, k, n)
        BY <1>1, <1>2, <1>3, <1>5 DEF Behind
      <4>3. \A a \in got[r] : a[1] \in 0..(NumIps - 1) /\ a[2] \in PortStart..PortEnd
        BY DEF TypeOK, Address
      <4> QED BY <2>1, <3>1, <4>1, <4>2, <4>3 DEF NothingAhead, AllBehind
    <3>2. CASE s # r
      BY ZenonT(60), <1>3, <2>1, <3>2 DEF NothingAhead, AllBehind, Behind
    <3> QED BY Zenon, <3>1, <3>2
  <2>5. \A s \in Reactors : op'[s] = IF s = r THEN "undefined" ELSE op[s]
    BY Zenon, <2>1 DEF TypeOK
  <2> QED BY Zenon, <1>3, <1>5, <2>2, <2>3, <2>4, <2>5
<1>6. CASE j < NumIps
  <2>0. j \in 0..(NumIps - 1)
    BY <1>6
  <2>1. /\ got' = [got EXCEPT ![r] = @ \cup {<<j, p>>}]
        /\ again' = IF <<j, p>> \in got[r] THEN again \cup {r} ELSE again
        /\ UNCHANGED stopping
        /\ \/ bound' = bound \cup {<<<<j, p>>, r>>} /\ op' = [op EXCEPT ![r] = "idle"]
           \/ UNCHANGED <<bound, op>>
    BY <1>1, <1>2, <1>6 DEF Bind
  <2>2. <<j, p>> \in Address
    BY Zenon, <1>1, <2>0 DEF Address
  <2>3. got'[r] = got[r] \cup {<<j, p>>}
        /\ \A s \in Reactors \ {r} : got'[s] = got[s]
    BY Zenon, <2>1 DEF TypeOK
  <2>4. TypeOK'
    BY <1>3, <1>4, <2>1, <2>2 DEF TypeOK
  <2>5. <<j, p>> \notin got[r]
    BY <1>1, <1>2 DEF NothingAhead, Behind
  <2>6. NoAddressTwice'
    BY Zenon, <2>1, <2>5 DEF NoAddressTwice
  <2>7. ASSUME NEW s \in Reactors
        PROVE  NothingAhead(s)' /\ AllBehind(s)'
    <3>1. CASE s = r
      <4>1. \A a \in got[r] : a[1] \in 0..(NumIps - 1) /\ a[2] \in PortStart..PortEnd
        BY DEF TypeOK, Address
      <4>2. \A k \in 0..(NumIps - 1), n \in PortStart..PortEnd : Behind(r, k, n) => Behind(r, k, n)'
        BY <1>1, <1>2, <1>3 DEF Behind
      <4>3. Behind(r, j, p)'
        BY <1>1, <1>2, <1>3 DEF Behind
      <4>4. \A k \in 0..(NumIps - 1), n \in PortStart..(PortEnd - 1) :
                Behind(r, k, n)' => Behind(r, k, n) \/ (k = j /\ n = p)
        BY <1>1, <1>2, <1>3 DEF Behind
      <4>5. NothingAhead(r)'
        BY <2>3, <4>1, <4>2, <4>3 DEF NothingAhead
      <4>6. AllBehind(r)'
        BY Zenon, <2>3, <4>4 DEF AllBehind
      <4> QED BY Zenon, <3>1, <4>5, <4>6
    <3>2. CASE s # r
      BY ZenonT(60), <1>3, <2>3, <3>2 DEF NothingAhead, AllBehind, Behind
    <3> QED BY Zenon, <3>1, <3>2
  <2>8. \A s \in Reactors : (op'[s] = "undefined" <=> op[s] = "undefined")
    BY Zenon, <1>3, <2>1 DEF TypeOK
  <2> QED BY ZenonT(60), <1>3, <1>6, <2>4, <2>6, <2>7, <2>8
<1> QED BY <1>2, <1>4, <1>5, <1>6

\* Steps that take no address from a pool.
LEMMA OtherStep ==
    ASSUME PoolInv,
           \/ \E r \in Reactors : Connect(r)
           \/ \E a \in Address : Foreign(a) \/ \E o \in Reactors \cup {Other} : Close(a, o)
           \/ UNCHANGED vars
    PROVE  PoolInv'
<1> USE DEF PoolInv
<1>0. UNCHANGED <<ipIndex, portIndex, stopping, got, again>>
  BY Zenon DEF Connect, Foreign, Close, vars
<1>a. /\ op' \in [Reactors -> {"idle", "bind", "nofd", "undefined"}]
      /\ \A r \in Reactors : (op'[r] = "undefined" <=> op[r] = "undefined")
  BY Zenon DEF Connect, Foreign, Close, vars, TypeOK
<1>b. bound' \in SUBSET (Address \X (Reactors \cup {Other}))
  <2>1. CASE \E a \in Address : Foreign(a) \/ \E o \in Reactors \cup {Other} : Close(a, o)
    <3>1. PICK a \in Address : Foreign(a) \/ \E o \in Reactors \cup {Other} : Close(a, o)
      BY Zenon, <2>1
    <3>2. <<a, Other>> \in Address \X (Reactors \cup {Other})
      BY Zenon
    <3>3. bound' = bound \cup {<<a, Other>>} \/ bound' \subseteq bound
      BY Zenon, <3>1 DEF Foreign, Close
    <3> QED BY Zenon, <3>2, <3>3 DEF TypeOK
  <2>2. CASE UNCHANGED bound
    BY Zenon, <2>2 DEF TypeOK
  <2> QED BY Zenon, <2>1, <2>2 DEF Connect, vars
<1>1. /\ UNCHANGED <<ipIndex, portIndex, stopping, got, again>>
      /\ op' \in [Reactors -> {"idle", "bind", "nofd", "undefined"}]
      /\ \A r \in Reactors : (op'[r] = "undefined" <=> op[r] = "undefined")
      /\ bound' \in SUBSET (Address \X (Reactors \cup {Other}))
  BY Zenon, <1>0, <1>a, <1>b
<1>2. TypeOK'
  BY Zenon, <1>1 DEF TypeOK
<1>3. NoAddressTwice' /\ \A r \in Reactors : NothingAhead(r)' /\ AllBehind(r)'
  BY Zenon, <1>1 DEF NoAddressTwice, NothingAhead, AllBehind, Behind
<1> QED BY Zenon, <1>1, <1>2, <1>3

\* The invariant holds of every behaviour of the pools.
THEOREM PoolInvariant == Spec => []PoolInv
<1>1. Init => PoolInv
  <2> SUFFICES ASSUME Init PROVE PoolInv
    BY Zenon
  <2>1. TypeOK
    <3>1. ipIndex \in [Reactors -> 0..NumIps] /\ portIndex \in [Reactors -> PortStart..PortEnd]
      BY PortsAssumption DEF Init
    <3>2. /\ op \in [Reactors -> {"idle", "bind", "nofd", "undefined"}]
          /\ got \in [Reactors -> SUBSET Address]
      BY Zenon DEF Init
    <3> QED BY Zenon, <3>1, <3>2 DEF Init, TypeOK
  <2>2. NoAddressTwice
    BY Zenon DEF Init, NoAddressTwice
  <2>3. \A r \in Reactors : NothingAhead(r) /\ AllBehind(r)
    <3> SUFFICES ASSUME NEW r \in Reactors PROVE NothingAhead(r) /\ AllBehind(r)
      BY Zenon
    <3>1. got[r] = {} /\ ipIndex[r] = 0 /\ portIndex[r] = PortStart
      BY Zenon DEF Init
    <3>2. \A i \in 0..(NumIps - 1), p \in PortStart..(PortEnd - 1) : ~Behind(r, i, p)
      BY <3>1, PortsAssumption DEF Behind
    <3> QED BY Zenon, <3>1, <3>2 DEF NothingAhead, AllBehind
  <2> QED BY Zenon, <2>1, <2>2, <2>3, PortsAssumption DEF Init, PoolInv
<1>2. PoolInv /\ [Next]_vars => PoolInv'
  BY Zenon, BindStep, OtherStep DEF Next
<1> QED BY <1>1, <1>2, PTL DEF Spec

\* addr_pool::get never returns an address it returned before.
THEOREM AddressesFresh == Spec => []NoAddressTwice
BY PoolInvariant, PTL DEF PoolInv

\* A pool runs out of addresses only after every port below kPortEnd of every address.
THEOREM PoolUsedUp == Spec => []OutOnlyWhenUsedUp
<1>1. PoolInv => OutOnlyWhenUsedUp
  <2> SUFFICES ASSUME PoolInv, NEW r \in Reactors, op[r] = "undefined",
                      NEW i \in 0..(NumIps - 1), NEW p \in PortStart..(PortEnd - 1)
               PROVE  <<i, p>> \in got[r]
    BY Zenon DEF OutOnlyWhenUsedUp
  <2>1. Behind(r, i, p)
    BY PortsAssumption DEF PoolInv, TypeOK, Behind
  <2> QED BY Zenon, <2>1 DEF PoolInv, AllBehind
<1> QED BY <1>1, PoolInvariant, PTL

\* Types: neither index leaves its range before the pool is used up.
THEOREM PoolTypes == Spec => []TypeOK
BY PoolInvariant, PTL DEF PoolInv
=============================================================================
