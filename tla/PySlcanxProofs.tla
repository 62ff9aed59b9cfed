--------------------------- MODULE PySlcanxProofs ---------------------------
(***************************************************************************)
(* The Python buses of one port for any buses, channels, number of lines   *)
(* and of times the port is opened: a bus in use is served, and the port   *)
(* is given back when the last one is shut down.                           *)
(***************************************************************************)
EXTENDS PySlcanx, FiniteSetTheorems, TLAPS

(* Where a bus is counted, and where its thread has _handlers_lock.         *)
Registered == {"added", "open", "closed", "failed"}
Leaving == {"last", "joining", "closing"}
Locked == {"found"} \cup Leaving
Places == {"none", "gone"} \cup Registered \cup Locked

TypeInv ==
    /\ made \in 0..MaxHandlers /\ registry \in 0..MaxHandlers
    /\ regLock \in Buses \cup {NoBus}
    /\ isOpen \in [Handlers -> BOOLEAN] /\ running \in [Handlers -> BOOLEAN]
    /\ reader \in [Handlers -> BOOLEAN]
    /\ buses \in [Handlers -> SUBSET Buses] /\ refs \in [Handlers -> Nat]
    /\ pc \in [Buses -> Places] /\ handler \in [Buses -> 0..MaxHandlers]

LockInv ==
    /\ \A b \in Buses : pc[b] \in Locked => regLock = b
    /\ regLock # NoBus => pc[regLock] \in Locked

(* Whoever is on the way has the handler that is registered.                *)
HandlerInv ==
    \A b \in Buses : pc[b] \in Locked \cup Registered => handler[b] = registry /\ registry # 0

(* refs counts the buses of a handler.                                      *)
CountInv ==
    \A h \in Handlers :
        /\ IsFiniteSet(buses[h]) /\ refs[h] = Cardinality(buses[h])
        /\ \A b \in Buses : b \in buses[h] <=> pc[b] \in Registered /\ handler[b] = h

(* The one handler that is made stays registered.                           *)
MadeInv == registry = made /\ made <= 1

(* An open handler works and is wanted, unless its last bus leaves, and a   *)
(* bus that was opened has an open one.                                     *)
WorkInv ==
    /\ registry # 0 /\ isOpen[registry] /\ (\A b \in Buses : pc[b] \notin Leaving) =>
          /\ running[registry] /\ reader[registry]
          /\ regLock # NoBus \/ buses[registry] # {}
    /\ \A b \in Buses : InUse(b) => isOpen[registry]
    /\ \A b \in Buses : pc[b] \in Leaving => buses[registry] = {}
    /\ \A b \in Buses : pc[b] = "closing" => ~isOpen[registry]
    /\ \A h \in Handlers : isOpen[h] => registry = h

(* A channel of the adapter is open only for a bus that is; a bus is open   *)
(* without its channel only after another one of the channel left.          *)
AdapterInv ==
    /\ \A c \in adapter : \E b \in Buses : pc[b] = "open" /\ Chan[b] = c
    /\ \A b \in Buses : pc[b] = "open" => Chan[b] \in adapter
                         \/ \E x \in Buses : Chan[x] = Chan[b] /\ ShutDown(x)

IInv == TypeInv /\ LockInv /\ HandlerInv /\ CountInv /\ MadeInv /\ WorkInv /\ AdapterInv

---------------------------------------------------------------------------
LEMMA InitHolds == Init => IInv
<1> SUFFICES ASSUME Init PROVE IInv
  OBVIOUS
<1>1. TypeInv
  BY PyAssumption DEF Init, TypeInv, Places, Handlers
<1>2. LockInv
  BY DEF Init, LockInv, Locked, Leaving
<1>3. HandlerInv
  BY DEF Init, HandlerInv, Locked, Leaving, Registered
<1>4. CountInv
  BY FS_EmptySet DEF Init, CountInv, Registered
<1>5. MadeInv /\ WorkInv /\ AdapterInv
  BY DEF Init, MadeInv, WorkInv, AdapterInv, Leaving, InUse
<1> QED
  BY <1>1, <1>2, <1>3, <1>4, <1>5 DEF IInv

(* The steps that touch neither the registry nor the handlers' state.       *)
Still ==
    /\ registry' = registry /\ made' = made /\ regLock' = regLock /\ isOpen' = isOpen
    /\ running' = running /\ reader' = reader /\ buses' = buses /\ refs' = refs
    /\ pc' = pc /\ handler' = handler /\ adapter' = adapter

LEMMA StillKeeps == IInv /\ Still => IInv'
  BY DEF IInv, Still, TypeInv, LockInv, HandlerInv, CountInv, MadeInv, WorkInv, AdapterInv,
         InUse, ShutDown

LEMMA FindHandlerKeeps == \A b \in Buses : IInv /\ FindHandler(b) => IInv'
<1> SUFFICES ASSUME NEW b \in Buses, IInv, FindHandler(b) PROVE IInv'
  OBVIOUS
<1> USE DEF IInv
<1>1. /\ regLock = NoBus /\ regLock' = b /\ pc[b] = "none" /\ pc' = [pc EXCEPT ![b] = "found"]
      /\ handler' = [handler EXCEPT ![b] = registry'] /\ adapter' = adapter
      /\ buses' = buses /\ refs' = refs
  BY DEF FindHandler, RegFree, Go, port
<1>2. NoBus \notin Buses /\ MaxHandlers \in Nat /\ 0 \notin Handlers
  BY PyAssumption DEF Handlers
<1>3. /\ pc'[b] = "found" /\ \A x \in Buses : x # b => pc'[x] = pc[x]
      /\ pc' \in [Buses -> Places]
  BY <1>1 DEF TypeInv, Places, Locked
<1>4. \A x \in Buses : pc[x] \notin Locked
  BY <1>1, <1>2 DEF LockInv
<1>5. LockInv'
  BY <1>1, <1>2, <1>3, <1>4 DEF LockInv, Locked
<1>6. AdapterInv'
  BY <1>1, <1>3 DEF AdapterInv, ShutDown
<1>7. CASE registry # 0 /\ UNCHANGED <<registered, port, reader>>
  <2>1. /\ registry' = registry /\ made' = made /\ isOpen' = isOpen /\ running' = running
        /\ reader' = reader
    BY <1>7 DEF registered, port
  <2>2. /\ handler'[b] = registry /\ \A x \in Buses : x # b => handler'[x] = handler[x]
        /\ handler' \in [Buses -> 0..MaxHandlers]
    BY <1>1, <2>1 DEF TypeInv
  <2>3. TypeInv'
    BY <1>1, <1>3, <2>1, <2>2 DEF TypeInv
  <2>4. HandlerInv'
    BY <1>3, <1>7, <2>1, <2>2 DEF HandlerInv
  <2>5. CountInv'
    BY <1>1, <1>3, <2>2 DEF CountInv, Registered
  <2>6. MadeInv' /\ WorkInv'
    BY <1>1, <1>2, <1>3, <1>4, <1>7, <2>1 DEF MadeInv, WorkInv, Leaving, Locked, InUse
  <2> QED
    BY <1>5, <1>6, <2>3, <2>4, <2>5, <2>6
<1>8. CASE /\ registry = 0 /\ made < MaxHandlers
           /\ made' = made + 1 /\ registry' = made'
           /\ isOpen' = [isOpen EXCEPT ![made'] = TRUE]
           /\ running' = [running EXCEPT ![made'] = TRUE]
           /\ reader' = [reader EXCEPT ![made'] = TRUE]
  <2>1. made' \in Handlers /\ registry' \in 0..MaxHandlers /\ made' \in 0..MaxHandlers /\ registry' # 0
    BY <1>2, <1>8 DEF TypeInv, Handlers
  <2>2. \A x \in Buses : pc[x] \notin Locked \cup Registered
    BY <1>8 DEF HandlerInv
  <2>3. /\ handler'[b] = registry' /\ \A x \in Buses : x # b => handler'[x] = handler[x]
        /\ handler' \in [Buses -> 0..MaxHandlers]
    BY <1>1, <2>1 DEF TypeInv
  <2>4. /\ isOpen' \in [Handlers -> BOOLEAN] /\ running' \in [Handlers -> BOOLEAN]
        /\ reader' \in [Handlers -> BOOLEAN]
        /\ isOpen'[made'] = TRUE /\ running'[made'] = TRUE /\ reader'[made'] = TRUE
        /\ \A h \in Handlers : h # made' => isOpen'[h] = isOpen[h]
    BY <1>8, <2>1 DEF TypeInv
  <2>5. TypeInv'
    BY <1>1, <1>3, <2>1, <2>3, <2>4 DEF TypeInv
  <2>6. HandlerInv'
    BY <1>3, <2>1, <2>2, <2>3 DEF HandlerInv
  <2>7. CountInv'
    BY <1>1, <1>3, <2>2, <2>3 DEF CountInv, Registered
  <2>8. \A h \in Handlers : ~isOpen[h]
    BY <1>2, <1>8 DEF WorkInv
  <2>9. MadeInv' /\ WorkInv'
    <3>1. MadeInv'
      <4>1. made = 0
        BY <1>8 DEF MadeInv
      <4> QED
        BY <1>8, <4>1 DEF MadeInv
    <3>2. \A x \in Buses : ~InUse(x)'
      BY <1>3, <2>2 DEF InUse, Registered
    <3> QED
      BY <1>1, <1>2, <1>3, <1>8, <2>1, <2>2, <2>4, <2>8, <3>1, <3>2 DEF WorkInv, Leaving, Locked
  <2> QED
    BY <1>5, <1>6, <2>5, <2>6, <2>7, <2>9
<1> QED
  BY <1>7, <1>8 DEF FindHandler

LEMMA AddBusKeeps == \A b \in Buses : IInv /\ AddBus(b) => IInv'
<1> SUFFICES ASSUME NEW b \in Buses, IInv, AddBus(b) PROVE IInv'
  OBVIOUS
<1> USE DEF IInv
<1> DEFINE h == handler[b]
<1>1. /\ pc[b] = "found" /\ pc' = [pc EXCEPT ![b] = "added"]
      /\ buses' = [buses EXCEPT ![h] = @ \cup {b}] /\ refs' = [refs EXCEPT ![h] = @ + 1]
      /\ regLock' = NoBus /\ registry' = registry /\ made' = made /\ isOpen' = isOpen
      /\ running' = running /\ reader' = reader /\ handler' = handler /\ adapter' = adapter
  BY DEF AddBus, Go, RefBus, ReleaseRegLock, registered, reading
<1>2. h = registry /\ registry # 0 /\ h \in Handlers /\ regLock = b /\ NoBus \notin Buses
  BY <1>1, PyAssumption DEF HandlerInv, LockInv, TypeInv, Locked, Handlers
<1> HIDE DEF h
<1>3. /\ pc'[b] = "added" /\ \A x \in Buses : x # b => pc'[x] = pc[x]
      /\ pc' \in [Buses -> Places]
  BY <1>1 DEF TypeInv, Places, Registered
<1>4. \A x \in Buses : x # b => pc[x] \notin Locked
  BY <1>2 DEF LockInv
<1>5. /\ buses' \in [Handlers -> SUBSET Buses] /\ buses'[h] = buses[h] \cup {b}
      /\ \A k \in Handlers : k # h => buses'[k] = buses[k] /\ refs'[k] = refs[k]
      /\ refs' \in [Handlers -> Nat] /\ refs'[h] = refs[h] + 1
  BY <1>1, <1>2 DEF TypeInv
<1>6. TypeInv'
  BY <1>1, <1>3, <1>5 DEF TypeInv
<1>7. LockInv' /\ HandlerInv' /\ AdapterInv'
  BY <1>1, <1>2, <1>3, <1>4
     DEF LockInv, HandlerInv, AdapterInv, Locked, Registered, Leaving, ShutDown
<1>8. CountInv'
  <2>1. b \notin buses[h] /\ IsFiniteSet(buses[h]) /\ refs[h] = Cardinality(buses[h])
    BY <1>1, <1>2 DEF CountInv, Registered
  <2>2. IsFiniteSet(buses'[h]) /\ refs'[h] = Cardinality(buses'[h])
    BY <1>5, <2>1, FS_AddElement
  <2>3. \A x \in Buses : x \in buses'[h] <=> pc'[x] \in Registered /\ handler'[x] = h
    BY <1>1, <1>2, <1>3, <1>5 DEF CountInv, Registered, h
  <2>4. ASSUME NEW k \in Handlers, k # h
        PROVE  /\ IsFiniteSet(buses'[k]) /\ refs'[k] = Cardinality(buses'[k])
               /\ \A x \in Buses : x \in buses'[k] <=> pc'[x] \in Registered /\ handler'[x] = k
    BY <1>1, <1>2, <1>3, <1>5, <2>4 DEF CountInv, Registered, h
  <2> QED
    BY <2>2, <2>3, <2>4 DEF CountInv
<1>9. MadeInv' /\ WorkInv'
  BY <1>1, <1>2, <1>3, <1>4, <1>5 DEF MadeInv, WorkInv, Locked, Leaving, InUse
<1> QED
  BY <1>6, <1>7, <1>8, <1>9

(* A registered bus goes on to another place where it is registered. *)
LEMMA MoveRegistered ==
    ASSUME IInv, NEW b \in Buses, NEW to \in Registered, pc[b] \in Registered,
           pc' = [pc EXCEPT ![b] = to], registered' = registered, regLock' = regLock,
           port' = port, reader' = reader, handler' = handler,
           to = "failed" \/ isOpen[handler[b]]
    PROVE  TypeInv' /\ LockInv' /\ HandlerInv' /\ CountInv' /\ MadeInv' /\ WorkInv'
<1> USE DEF IInv
<1>1. /\ registry' = registry /\ made' = made /\ isOpen' = isOpen /\ running' = running
      /\ buses' = buses /\ refs' = refs
  BY DEF registered, port
<1>2. /\ pc'[b] = to /\ \A x \in Buses : x # b => pc'[x] = pc[x]
      /\ pc' \in [Buses -> Places]
  BY DEF TypeInv, Places
<1>3. /\ \A x \in Buses : pc'[x] \in Registered <=> pc[x] \in Registered
      /\ \A x \in Buses : x = b => pc[x] \notin Locked /\ pc'[x] \notin Locked
      /\ \A x \in Buses : pc'[x] \in Leaving <=> pc[x] \in Leaving
  BY <1>2 DEF Registered, Locked, Leaving
<1>4. TypeInv'
  BY <1>1, <1>2 DEF TypeInv
<1>5. LockInv' /\ HandlerInv'
  <2>1. \A x \in Buses : pc'[x] \in Locked <=> pc[x] \in Locked
    BY <1>2, <1>3
  <2>2. regLock \in Buses \cup {NoBus}
    BY DEF TypeInv
  <2> QED
    BY <1>1, <1>3, <2>1, <2>2 DEF LockInv, HandlerInv
<1>6. CountInv'
  BY <1>1, <1>3 DEF CountInv
<1>7. MadeInv' /\ WorkInv'
  <2>1. \A x \in Buses : pc'[x] = "closing" <=> pc[x] = "closing"
    BY <1>2 DEF Registered
  <2>2. handler[b] = registry
    BY DEF HandlerInv
  <2>3. \A x \in Buses : InUse(x)' => isOpen[registry]
    BY <1>2, <2>2 DEF InUse, WorkInv
  <2> QED
    BY <1>1, <1>3, <2>1, <2>3 DEF MadeInv, WorkInv
<1> QED
  BY <1>4, <1>5, <1>6, <1>7

LEMMA OpenChannelKeeps == \A b \in Buses : IInv /\ OpenChannel(b) => IInv'
<1> SUFFICES ASSUME NEW b \in Buses, IInv, OpenChannel(b) PROVE IInv'
  OBVIOUS
<1>1. PICK to \in {"open", "failed"} :
        /\ pc[b] = "added" /\ pc' = [pc EXCEPT ![b] = to]
        /\ adapter' = IF to = "open" THEN adapter \cup {Chan[b]} ELSE adapter
        /\ to = "failed" \/ isOpen[handler[b]]
  BY DEF OpenChannel, Go
<1>2. /\ registered' = registered /\ regLock' = regLock /\ port' = port /\ reader' = reader
      /\ handler' = handler
  BY DEF OpenChannel, reading
<1>3. TypeInv' /\ LockInv' /\ HandlerInv' /\ CountInv' /\ MadeInv' /\ WorkInv'
  BY <1>1, <1>2, MoveRegistered DEF Registered
<1>4. AdapterInv'
  <2>1. pc'[b] = to /\ \A x \in Buses : x # b => pc'[x] = pc[x]
    BY <1>1 DEF IInv, TypeInv
  <2> QED
    BY <1>1, <2>1 DEF IInv, AdapterInv, ShutDown
<1> QED
  BY <1>3, <1>4 DEF IInv

LEMMA CloseChannelKeeps == \A b \in Buses : IInv /\ CloseChannel(b) => IInv'
<1> SUFFICES ASSUME NEW b \in Buses, IInv, CloseChannel(b) PROVE IInv'
  OBVIOUS
<1>1. /\ pc[b] = "open" /\ pc' = [pc EXCEPT ![b] = "closed"]
      /\ adapter' = adapter \ {Chan[b]}
      /\ registered' = registered /\ regLock' = regLock /\ port' = port /\ reader' = reader
      /\ handler' = handler /\ isOpen[handler[b]]
  BY DEF CloseChannel, Go, reading
<1>2. TypeInv' /\ LockInv' /\ HandlerInv' /\ CountInv' /\ MadeInv' /\ WorkInv'
  BY <1>1, MoveRegistered DEF Registered
<1>3. AdapterInv'
  <2>1. pc'[b] = "closed" /\ \A x \in Buses : x # b => pc'[x] = pc[x]
    BY <1>1 DEF IInv, TypeInv
  <2>2. ShutDown(b)' /\ \A x \in Buses : ShutDown(x) => ShutDown(x)'
    BY <2>1 DEF ShutDown
  <2> QED
    BY <1>1, <2>1, <2>2 DEF IInv, AdapterInv
<1> QED
  BY <1>2, <1>3 DEF IInv

(* The last bus leaves its handler without buses; another one does not. *)
LEMMA RemoveBusKeeps == \A b \in Buses : IInv /\ RemoveBus(b) => IInv'
<1> SUFFICES ASSUME NEW b \in Buses, IInv, RemoveBus(b) PROVE IInv'
  OBVIOUS
<1> USE DEF IInv
<1> DEFINE h == handler[b]
<1>1. /\ pc[b] = "closed" /\ regLock = NoBus
      /\ buses' = [buses EXCEPT ![h] = @ \ {b}] /\ refs' = [refs EXCEPT ![h] = @ - 1]
      /\ registry' = registry /\ made' = made /\ isOpen' = isOpen
      /\ running' = running /\ reader' = reader /\ handler' = handler /\ adapter' = adapter
  BY DEF RemoveBus, RegFree, registered, reading
<1>2. \/ refs[h] = 1 /\ pc' = [pc EXCEPT ![b] = "last"] /\ regLock' = b
      \/ refs[h] # 1 /\ pc' = [pc EXCEPT ![b] = "gone"] /\ regLock' = regLock
  BY DEF RemoveBus, LastRef, Go
<1>3. h = registry /\ registry # 0 /\ h \in Handlers /\ NoBus \notin Buses
  BY <1>1, PyAssumption DEF HandlerInv, TypeInv, Registered, Handlers
<1> HIDE DEF h
<1>4. /\ pc'[b] \in {"last", "gone"} /\ \A x \in Buses : x # b => pc'[x] = pc[x]
      /\ pc' \in [Buses -> Places]
  BY <1>2 DEF TypeInv, Places, Locked, Leaving
<1>5. \A x \in Buses : pc[x] \notin Locked
  BY <1>1, <1>3 DEF LockInv
<1>6. b \in buses[h] /\ IsFiniteSet(buses[h]) /\ refs[h] = Cardinality(buses[h])
  BY <1>1, <1>3 DEF CountInv, Registered, h
<1>7. /\ IsFiniteSet(buses[h] \ {b}) /\ Cardinality(buses[h] \ {b}) = refs[h] - 1
      /\ Cardinality(buses[h] \ {b}) \in Nat
      /\ Cardinality(buses[h] \ {b}) = 0 <=> buses[h] \ {b} = {}
  <2>1. IsFiniteSet(buses[h] \ {b}) /\ Cardinality(buses[h] \ {b}) = refs[h] - 1
    BY <1>6, FS_RemoveElement
  <2> QED
    BY <2>1, FS_EmptySet, FS_CardinalityType
<1>8. /\ buses' \in [Handlers -> SUBSET Buses] /\ buses'[h] = buses[h] \ {b}
      /\ \A k \in Handlers : k # h => buses'[k] = buses[k] /\ refs'[k] = refs[k]
      /\ refs' \in [Handlers -> Nat] /\ refs'[h] = refs[h] - 1
  BY <1>1, <1>3, <1>7 DEF TypeInv
<1>9. refs[h] = 1 <=> buses'[h] = {}
  <2>1. refs[h] \in Nat
    BY <1>3 DEF TypeInv
  <2> QED
    BY <1>7, <1>8, <2>1
<1>10. TypeInv'
  BY <1>1, <1>2, <1>4, <1>8 DEF TypeInv
<1>11. LockInv' /\ HandlerInv'
  BY <1>1, <1>2, <1>3, <1>4, <1>5 DEF LockInv, HandlerInv, Locked, Leaving, Registered, h
<1>12. AdapterInv'
  <2>1. \A x \in Buses : ShutDown(x) => ShutDown(x)'
    BY <1>4 DEF ShutDown
  <2> QED
    BY <1>1, <1>4, <2>1 DEF AdapterInv
<1>13. CountInv'
  <2>1. \A x \in Buses : x \in buses'[h] <=> pc'[x] \in Registered /\ handler'[x] = h
    <3>1. \A x \in Buses : x \in buses[h] <=> pc[x] \in Registered /\ handler[x] = h
      BY <1>3 DEF CountInv
    <3>2. pc'[b] \notin Registered
      BY <1>4 DEF Registered
    <3> QED
      BY <1>1, <1>4, <1>8, <3>1, <3>2
  <2>2. ASSUME NEW k \in Handlers, k # h
        PROVE  /\ IsFiniteSet(buses'[k]) /\ refs'[k] = Cardinality(buses'[k])
               /\ \A x \in Buses : x \in buses'[k] <=> pc'[x] \in Registered /\ handler'[x] = k
    BY <1>1, <1>4, <1>8, <2>2 DEF CountInv, Registered, h
  <2>3. IsFiniteSet(buses'[h]) /\ refs'[h] = Cardinality(buses'[h])
    BY <1>7, <1>8
  <2>4. ASSUME NEW k \in Handlers
        PROVE  /\ IsFiniteSet(buses'[k]) /\ refs'[k] = Cardinality(buses'[k])
               /\ \A x \in Buses : x \in buses'[k] <=> pc'[x] \in Registered /\ handler'[x] = k
    BY <2>1, <2>2, <2>3
  <2> QED
    BY <2>4 DEF CountInv
<1>14. MadeInv' /\ WorkInv'
  <2>0. MadeInv' /\ isOpen[registry]
    BY <1>1 DEF MadeInv, WorkInv, InUse
  <2>1. /\ isOpen[registry] /\ running[registry] /\ reader[registry]
        /\ \A k \in Handlers : isOpen[k] => registry = k
    BY <1>3, <1>5, <2>0 DEF WorkInv, Locked
  <2>2. \A x \in Buses : pc'[x] # "closing"
    BY <1>4, <1>5 DEF Locked, Leaving
  <2>3. CASE pc'[b] = "last"
    <3>1. buses'[registry] = {}
      BY <1>1, <1>2, <1>3, <1>9, <2>3 DEF TypeInv
    <3> QED
      BY <1>1, <2>0, <2>1, <2>2, <2>3, <3>1 DEF WorkInv, Leaving
  <2>4. CASE pc'[b] = "gone"
    <3>1. buses'[registry] # {}
      BY <1>1, <1>2, <1>3, <1>9, <2>4 DEF TypeInv
    <3>2. \A x \in Buses : pc'[x] \notin Leaving
      BY <1>4, <1>5, <2>4 DEF Locked, Leaving
    <3> QED
      BY <1>1, <2>0, <2>1, <2>2, <3>1, <3>2 DEF WorkInv
  <2> QED
    BY <1>4, <2>3, <2>4
<1> QED
  BY <1>10, <1>11, <1>12, <1>13, <1>14

(* While the last bus leaves, it has the lock and nobody is registered. *)
LEMMA LeavingAlone ==
    ASSUME IInv, NEW b \in Buses, pc[b] \in Leaving
    PROVE  /\ handler[b] = registry /\ registry \in Handlers /\ regLock = b /\ NoBus \notin Buses
           /\ buses[registry] = {}
           /\ \A x \in Buses : x # b => pc[x] \notin Locked \cup Registered
<1> USE DEF IInv
<1>1. pc[b] \in Locked
  BY DEF Locked
<1>2. handler[b] = registry /\ registry # 0 /\ regLock = b
  BY <1>1 DEF HandlerInv, LockInv
<1>3. registry \in Handlers /\ NoBus \notin Buses
  BY <1>2, PyAssumption DEF TypeInv, Handlers
<1>4. buses[registry] = {}
  BY DEF WorkInv
<1>5. \A x \in Buses : x # b => pc[x] \notin Locked
  BY <1>2 DEF LockInv
<1>6. \A x \in Buses : pc[x] \notin Registered
  BY <1>3, <1>4 DEF CountInv, HandlerInv
<1> QED
  BY <1>2, <1>3, <1>4, <1>5, <1>6

LEMMA StopReaderKeeps == \A b \in Buses : IInv /\ StopReader(b) => IInv'
<1> SUFFICES ASSUME NEW b \in Buses, IInv, StopReader(b) PROVE IInv'
  OBVIOUS
<1> USE DEF IInv
<1>1. /\ pc[b] = "last" /\ pc' = [pc EXCEPT ![b] = "joining"]
      /\ running' = [running EXCEPT ![handler[b]] = FALSE]
      /\ registry' = registry /\ made' = made /\ regLock' = regLock /\ isOpen' = isOpen
      /\ reader' = reader /\ buses' = buses /\ refs' = refs /\ handler' = handler /\ adapter' = adapter
  BY DEF StopReader, Go, registered, reading
<1>2. /\ handler[b] = registry /\ registry \in Handlers /\ regLock = b /\ NoBus \notin Buses
      /\ buses[registry] = {}
      /\ \A x \in Buses : x # b => pc[x] \notin Locked \cup Registered
  BY <1>1, LeavingAlone DEF Leaving
<1>3. /\ pc'[b] = "joining" /\ \A x \in Buses : x # b => pc'[x] = pc[x]
      /\ pc' \in [Buses -> Places] /\ running' \in [Handlers -> BOOLEAN]
  BY <1>1, <1>2 DEF TypeInv, Places, Locked, Leaving
<1>4. TypeInv'
  BY <1>1, <1>3 DEF TypeInv
<1>5. LockInv' /\ HandlerInv'
  BY <1>1, <1>2, <1>3 DEF LockInv, HandlerInv, Locked, Leaving
<1>6. CountInv' /\ AdapterInv' /\ MadeInv'
  BY <1>1, <1>3 DEF CountInv, AdapterInv, MadeInv, Registered, ShutDown
<1>7. WorkInv'
  BY <1>1, <1>2, <1>3 DEF WorkInv, Leaving, Locked, InUse
<1> QED
  BY <1>4, <1>5, <1>6, <1>7

LEMMA CloseSerialKeeps == \A b \in Buses : IInv /\ CloseSerial(b) => IInv'
<1> SUFFICES ASSUME NEW b \in Buses, IInv, CloseSerial(b) PROVE IInv'
  OBVIOUS
<1> USE DEF IInv
<1>1. /\ pc[b] = "joining" /\ pc' = [pc EXCEPT ![b] = "closing"]
      /\ isOpen' = [isOpen EXCEPT ![handler[b]] = FALSE]
      /\ registry' = registry /\ made' = made /\ regLock' = regLock /\ running' = running
      /\ reader' = reader /\ buses' = buses /\ refs' = refs /\ handler' = handler /\ adapter' = adapter
  BY DEF CloseSerial, Go, registered, reading
<1>2. /\ handler[b] = registry /\ registry \in Handlers /\ regLock = b /\ NoBus \notin Buses
      /\ buses[registry] = {}
      /\ \A x \in Buses : x # b => pc[x] \notin Locked \cup Registered
  BY <1>1, LeavingAlone DEF Leaving
<1>3. /\ pc'[b] = "closing" /\ \A x \in Buses : x # b => pc'[x] = pc[x]
      /\ pc' \in [Buses -> Places]
  BY <1>1 DEF TypeInv, Places, Locked, Leaving
<1>4. /\ isOpen' \in [Handlers -> BOOLEAN] /\ isOpen'[registry] = FALSE
      /\ \A k \in Handlers : k # registry => isOpen'[k] = isOpen[k]
  BY <1>1, <1>2 DEF TypeInv
<1>5. TypeInv'
  BY <1>1, <1>3, <1>4 DEF TypeInv
<1>6. LockInv' /\ HandlerInv'
  BY <1>1, <1>2, <1>3 DEF LockInv, HandlerInv, Locked, Leaving
<1>7. CountInv' /\ AdapterInv' /\ MadeInv'
  BY <1>1, <1>3 DEF CountInv, AdapterInv, MadeInv, Registered, ShutDown
<1>8. WorkInv'
  <2>1. \A x \in Buses : ~InUse(x)'
    BY <1>2, <1>3 DEF InUse, Registered
  <2> QED
    BY <1>1, <1>2, <1>3, <1>4, <2>1 DEF WorkInv, Leaving, Locked
<1> QED
  BY <1>5, <1>6, <1>7, <1>8

LEMMA ForgetKeeps == \A b \in Buses : IInv /\ Forget(b) => IInv'
<1> SUFFICES ASSUME NEW b \in Buses, IInv, Forget(b) PROVE IInv'
  OBVIOUS
<1> USE DEF IInv
<1>1. /\ pc[b] = "closing" /\ pc' = [pc EXCEPT ![b] = "gone"]
      /\ registry' = registry /\ regLock' = NoBus
      /\ made' = made /\ isOpen' = isOpen /\ running' = running
      /\ reader' = reader /\ buses' = buses /\ refs' = refs /\ handler' = handler /\ adapter' = adapter
  BY DEF Forget, KeepsHandler, Go, port, reading
<1>2. /\ handler[b] = registry /\ registry \in Handlers /\ regLock = b /\ NoBus \notin Buses
      /\ buses[registry] = {}
      /\ \A x \in Buses : x # b => pc[x] \notin Locked \cup Registered
  BY <1>1, LeavingAlone DEF Leaving
<1>3. /\ pc'[b] = "gone" /\ \A x \in Buses : x # b => pc'[x] = pc[x]
      /\ pc' \in [Buses -> Places]
  BY <1>1 DEF TypeInv, Places
<1>4. \A x \in Buses : pc'[x] \notin Locked \cup Registered
  BY <1>2, <1>3 DEF Locked, Leaving, Registered
<1>5. TypeInv'
  BY <1>1, <1>3, PyAssumption DEF TypeInv
<1>6. LockInv' /\ HandlerInv'
  BY <1>1, <1>4 DEF LockInv, HandlerInv
<1>7. CountInv' /\ AdapterInv' /\ MadeInv'
  BY <1>1, <1>3 DEF CountInv, AdapterInv, MadeInv, Registered, ShutDown
<1>8. WorkInv'
  <2>1. \A k \in Handlers : ~isOpen[k]
    BY <1>1 DEF WorkInv
  <2>2. \A x \in Buses : pc'[x] \notin Leaving /\ pc'[x] # "closing" /\ ~InUse(x)'
    BY <1>4 DEF Locked, Leaving, Registered, InUse
  <2> QED
    BY <1>1, <1>2, <2>1, <2>2 DEF WorkInv
<1> QED
  BY <1>5, <1>6, <1>7, <1>8

(* A reader ends only when its handler was stopped. *)
LEMMA ReaderEndsKeeps == \A h \in Handlers : IInv /\ ReaderEnds(h) => IInv'
<1> SUFFICES ASSUME NEW h \in Handlers, IInv, ReaderEnds(h) PROVE IInv'
  OBVIOUS
<1> USE DEF IInv
<1>1. /\ ~running[h] \/ ~isOpen[h]
      /\ reader' = [reader EXCEPT ![h] = FALSE]
      /\ registry' = registry /\ made' = made /\ regLock' = regLock /\ isOpen' = isOpen
      /\ running' = running /\ buses' = buses /\ refs' = refs /\ pc' = pc /\ handler' = handler
      /\ adapter' = adapter
  BY DEF ReaderEnds, registered, port
<1>2. reader' \in [Handlers -> BOOLEAN] /\ \A k \in Handlers : k # h => reader'[k] = reader[k]
  BY <1>1 DEF TypeInv
<1>3. TypeInv'
  BY <1>1, <1>2 DEF TypeInv
<1>4. LockInv' /\ HandlerInv' /\ CountInv' /\ MadeInv' /\ AdapterInv'
  BY <1>1 DEF LockInv, HandlerInv, CountInv, MadeInv, AdapterInv, ShutDown
<1>5. WorkInv'
  <2>1. registry # 0 => registry \in Handlers
    BY PyAssumption DEF TypeInv, Handlers
  <2> QED
    BY <1>1, <1>2, <2>1 DEF WorkInv, InUse
<1> QED
  BY <1>3, <1>4, <1>5

---------------------------------------------------------------------------
LEMMA Inductive == IInv /\ [Next]_vars => IInv'
<1> SUFFICES ASSUME IInv, [Next]_vars PROVE IInv'
  OBVIOUS
<1>1. ASSUME NEW b \in Buses, FindHandler(b) PROVE IInv'
  BY <1>1, FindHandlerKeeps
<1>2. ASSUME NEW b \in Buses, CloseChannel(b) PROVE IInv'
  BY <1>2, CloseChannelKeeps
<1>3. ASSUME NEW b \in Buses, Call(b) PROVE IInv'
  BY <1>3, AddBusKeeps, OpenChannelKeeps, RemoveBusKeeps, StopReaderKeeps, CloseSerialKeeps,
     ForgetKeeps DEF Call
<1>4. ASSUME NEW h \in Handlers, Reader(h) PROVE IInv'
  <2>1. CASE Read(h)
    BY <2>1, StillKeeps DEF Read, Still, registered, port
  <2>2. CASE Dispatch(h)
    BY <2>2, StillKeeps DEF Dispatch, Still, registered, port
  <2>3. CASE ReaderEnds(h)
    BY <2>3, ReaderEndsKeeps
  <2> QED
    BY <1>4, <2>1, <2>2, <2>3 DEF Reader
<1>5. ASSUME NEW h \in Handlers, NEW c \in 0..3, Arrive(h, c) PROVE IInv'
  BY <1>5, StillKeeps DEF Arrive, Still, registered, port
<1>6. CASE UNCHANGED vars
  BY <1>6, StillKeeps DEF vars, Still, registered, port, reading
<1> QED
  BY <1>1, <1>2, <1>3, <1>4, <1>5, <1>6 DEF Next

(* A bus that was added has the one handler of the port, and one that was   *)
(* opened has it open with its reader at work until it leaves it itself,    *)
(* whoever opens and shuts down other buses (bus.py).                       *)
THEOREM PyServed == Spec => []ServedWhileInUse
<1>1. IInv => ServedWhileInUse
  <2> SUFFICES ASSUME IInv PROVE ServedWhileInUse
    OBVIOUS
  <2> USE DEF IInv
  <2>1. ASSUME NEW b \in Buses, Added(b)
        PROVE  registry = handler[b] /\ registry \in Handlers /\ b \in buses[registry]
    <3>1. pc[b] \in Registered
      BY <2>1 DEF Added, Registered
    <3>2. handler[b] = registry /\ registry # 0 /\ registry \in Handlers
      BY <3>1, PyAssumption DEF HandlerInv, TypeInv, Handlers
    <3> QED
      BY <3>1, <3>2 DEF CountInv
  <2>2. ASSUME NEW b \in Buses, InUse(b)
        PROVE  isOpen[handler[b]] /\ running[handler[b]] /\ reader[handler[b]]
    <3>1. /\ registry = handler[b] /\ registry \in Handlers /\ b \in buses[registry]
          /\ registry # 0
      BY <2>1, <2>2 DEF InUse, Added, Handlers
    <3>2. \A x \in Buses : pc[x] \notin Leaving
      BY <3>1 DEF WorkInv
    <3> QED
      BY <2>2, <3>1, <3>2 DEF WorkInv
  <2> QED
    BY <2>1, <2>2 DEF ServedWhileInUse, AdapterInv
<1> QED
  BY <1>1, InitHolds, Inductive, PTL DEF Spec

(* The port is open only in the registered handler, is given back with all  *)
(* channels closed when the last bus is shut down, and is never opened      *)
(* again (bus.py).                                                          *)
THEOREM PyReleased == Spec => []PortReleased
<1>1. IInv => PortReleased
  <2> SUFFICES ASSUME IInv PROVE PortReleased
    OBVIOUS
  <2> USE DEF IInv
  <2>1. \A h \in Handlers : isOpen[h] => registry = h
    BY DEF WorkInv
  <2>2. ASSUME \A b \in Buses : pc[b] \in {"none", "gone"}
        PROVE  (\A h \in Handlers : ~isOpen[h]) /\ adapter = {}
    <3>1. \A b \in Buses : pc[b] \notin Locked \cup Registered /\ pc[b] # "open"
      BY <2>2 DEF Locked, Leaving, Registered
    <3>2. adapter = {}
      BY <3>1 DEF AdapterInv
    <3>3. ASSUME NEW h \in Handlers, isOpen[h] PROVE FALSE
      <4>1. registry = h /\ registry # 0
        BY <2>1, <3>3 DEF Handlers
      <4>2. regLock = NoBus
        BY <3>1 DEF TypeInv, LockInv
      <4>3. buses[registry] # {} /\ buses[registry] \subseteq Buses
        BY <3>1, <3>3, <4>1, <4>2 DEF WorkInv, TypeInv, Locked
      <4> QED
        BY <3>1, <4>1, <4>3 DEF CountInv
    <3> QED
      BY <3>2, <3>3
  <2>3. ASSUME NEW h \in 1..made, ~isOpen[h]
        PROVE  (\A k \in Handlers : ~isOpen[k]) /\ \A b \in Buses : ~InUse(b)
    <3>1. h = 1 /\ registry = h
      BY DEF MadeInv, TypeInv
    <3> QED
      BY <2>1, <2>3, <3>1 DEF WorkInv
  <2> QED
    BY <2>1, <2>2, <2>3 DEF PortReleased
<1> QED
  BY <1>1, InitHolds, Inductive, PTL DEF Spec

=============================================================================
