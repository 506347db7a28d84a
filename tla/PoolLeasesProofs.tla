--------------------------- MODULE PoolLeasesProofs ---------------------------
(***************************************************************************)
(* What the SDK client promises about lease renewal, for any number of     *)
(* callers, either client, and whatever the gateways, Kubernetes and the   *)
(* faults do: a pool has one renewer, and a created pool has one.          *)
(***************************************************************************)
EXTENDS PoolLeases, TLAPS

(***************************************************************************)
(* The inductive invariant                                                 *)
(***************************************************************************)
Tracking(kind, by) == [kind |-> kind, by |-> by]
Undoing == {"stopped", "deleting", "joining", "clearing"}

CallStates ==
  [pc : {"ready", "waiting", "posting", "ended"} \cup Undoing,
   on : SUBSET (Callers \cup Renewers), starts : BOOLEAN, ok : BOOLEAN]
RenewerStates ==
  [state : {"off", "sleeping", "posting"}, at : Nat, stop : BOOLEAN]

Types ==
  /\ {"client", "script"} \subseteq DOMAIN world
  /\ now \in Nat
  /\ \/ entry = NoEntry
     \/ \E c \in Callers : entry = Tracking("creating", c)
     \/ \E r \in Renewers : entry = Tracking("task", r)
  /\ future \in [Callers -> {"none", "pending", "ok", "failed", "cancelled"}]
  /\ call \in [Callers -> CallStates]
  /\ renewer \in [Renewers -> RenewerStates]
  /\ closed \in BOOLEAN

\* A renewer that has not been told to stop is the one the client tracks.
TrackedRenewer ==
  \A r \in Renewers :
    renewer[r].state # "off" /\ ~renewer[r].stop => entry = Tracking("task", r)

\* Where a call is says what it does; only the asyncio client reserves the slot.
Roles ==
  /\ \A c \in Callers : At(c, "posting") => Script(c) = "create"
  /\ \A c \in Callers : call[c].pc \in Undoing => Script(c) \in {"delete", "close"}
  /\ \A c \in Callers :
       At(c, "waiting") => call[c].on # {} /\ call[c].on \subseteq Callers
  /\ entry.kind = "creating" => Asyncio

\* close and the threaded delete_pool hold the lock until the renewer has stopped.
Halting ==
  \A c \in Callers : call[c].pc \in {"clearing", "joining"} =>
    /\ lock = c
    /\ \A r \in Renewers : renewer[r].state = "off" \/ renewer[r].stop

Undisturbed == ~Begun("delete") /\ ~Begun("close") /\ ~closed
Returned(c) == Script(c) = "create" /\ At(c, "ended") /\ call[c].ok

\* Until somebody deletes or closes: a creation keeps its slot while it posts,
\* a creation that reserved none found a tracked renewer, and a settled future
\* is that of a create_pool that returned.
Kept ==
  Undisturbed =>
    /\ \A r \in Renewers : ~renewer[r].stop
    /\ entry.kind = "task" => renewer[entry.by].state # "off"
    /\ \A c \in Callers : At(c, "posting") /\ call[c].starts /\ Asyncio => Mine(c)
    /\ \A c \in Callers : At(c, "posting") /\ ~call[c].starts => entry.kind = "task"
    /\ \A c \in Callers : Returned(c) => entry.kind = "task"
    /\ \A c \in Callers : future[c] = "ok" => Returned(c)

Inv == Types /\ TrackedRenewer /\ Roles /\ Halting /\ Kept

(***************************************************************************)
(* The world: no step changes who calls what                               *)
(***************************************************************************)
SameCalls ==
  /\ DOMAIN world' = DOMAIN world
  /\ world'.client = world.client /\ world'.script = world.script

LEMMA SpendKeepsCalls ==
  ASSUME Types, NEW f, Spend(f)
  PROVE  SameCalls
BY DEF Types, Spend, SameCalls

Moves == UNCHANGED now /\ (UNCHANGED world \/ \E f : Spend(f))

LEMMA ServerKeepsClient ==
  ASSUME Types, Server
  PROVE  SameCalls /\ now' \in Nat /\ UNCHANGED clientVars
<1>1. CASE Tick /\ UNCHANGED clientVars
  BY <1>1 DEF Tick, Types, SameCalls
<1>2. Moves => SameCalls /\ now' \in Nat
  BY SpendKeepsCalls DEF Types, SameCalls, Moves
<1>3. ASSUME NEW c \in Calls, NEW g \in Gateways,
             CreatePool(g, c) \/ DeletePool(g, c) \/ RenewPool(g, c)
      PROVE  Moves
  BY <1>3 DEF CreatePool, DeletePool, RenewPool, Moves
<1>4. ASSUME NEW c \in Calls,
             \/ PersistPool(c) \/ CreateOrRenewLease(c) \/ DeletePoolConfigMap(c)
             \/ DeletePoolLease(c) \/ RenewLeaseGet(c) \/ RenewLeasePut(c)
      PROVE  Moves
  BY <1>4 DEF PersistPool, CreateOrRenewLease, DeletePoolConfigMap, DeletePoolLease,
              RenewLeaseGet, RenewLeasePut, KubernetesCall, Moves
<1>5. ASSUME NEW g \in Gateways,
             \/ CheckExpired(g) \/ ListExpired(g) \/ ClassifyExpired(g) \/ RemoveExpired(g)
             \/ DeleteExpiredConfigMap(g) \/ DeleteExpiredLease(g)
             \/ ReadPoolStatus(g) \/ WatchEvent(g)
      PROVE  Moves
  BY <1>5 DEF CheckExpired, ListExpired, ClassifyExpired, RemoveExpired,
              DeleteExpiredConfigMap, DeleteExpiredLease, ReadPoolStatus, WatchEvent,
              KubernetesCall, Moves
<1>6. ASSUME NEW g \in Gateways, PatchPoolStatus(g)
      PROVE  Moves
  BY <1>6 DEF PatchPoolStatus, KubernetesCall, Moves
<1>7. ASSUME NEW c \in Calls, RefuseCreate(c)
      PROVE  Moves
  BY <1>7 DEF RefuseCreate, Moves
<1>8. ASSUME NEW g \in Gateways,
             (\E workers \in Assignments : AssignWorkers(g, workers)) \/ WatchRelist(g)
               \/ Restart(g)
      PROVE  Moves
  BY <1>8 DEF AssignWorkers, WatchRelist, Restart, Moves
<1>9. GatewayStep => Moves
  BY <1>3, <1>4, <1>5, <1>6 DEF GatewayStep
<1>10. GatewayFault => Moves
  BY <1>7, <1>8 DEF GatewayFault
<1> QED BY <1>1, <1>2, <1>9, <1>10 DEF Server

(***************************************************************************)
(* The steps of the client                                                 *)
(***************************************************************************)
LEMMA CallMoves ==
  ASSUME Types, NEW c \in Callers, NEW x \in CallStates,
         call' = [call EXCEPT ![c] = x]
  PROVE  /\ call' \in [Callers -> CallStates] /\ call'[c] = x
         /\ \A d \in Callers : d # c => call'[d] = call[d]
BY DEF Types

LEMMA RenewalStarts ==
  ASSUME Types, NEW c \in Callers, StartRenewal(c)
  PROVE  /\ entry' = Tracking("task", RenewerOf(c)) /\ RenewerOf(c) \in Renewers
         /\ renewer' \in [Renewers -> RenewerStates]
         /\ renewer'[RenewerOf(c)].state = "sleeping" /\ ~renewer'[RenewerOf(c)].stop
         /\ \A r \in Renewers : r # RenewerOf(c) => renewer'[r] = renewer[r]
<1> DEFINE x == [state |-> "sleeping", at |-> now, stop |-> FALSE]
<1>1. x \in RenewerStates
  BY DEF Types, RenewerStates
<1>2. renewer' = [renewer EXCEPT ![RenewerOf(c)] = x]
  BY DEF StartRenewal
<1>3. RenewerOf(c) \in Renewers
  BY DEF Renewers
<1>4. x.state = "sleeping" /\ ~x.stop
  OBVIOUS
<1> HIDE DEF x
<1>5. /\ renewer' \in [Renewers -> RenewerStates] /\ renewer'[RenewerOf(c)] = x
      /\ \A r \in Renewers : r # RenewerOf(c) => renewer'[r] = renewer[r]
  BY <1>1, <1>2, <1>3 DEF Types
<1> QED BY <1>3, <1>4, <1>5 DEF StartRenewal, Tracking

\* A step that leaves the client alone keeps what is known of it.
LEMMA IdleClientKeepsInv ==
  ASSUME Inv, SameCalls, now' \in Nat, UNCHANGED clientVars
  PROVE  Inv'
BY DEF Inv, Types, TrackedRenewer, Roles, Halting, Kept, Undisturbed, Returned, Begun,
       SameCalls, clientVars, At, Script, Asyncio, Mine

\* Taking the slot leaves no renewer running that is not told to stop.
LEMMA PopStops ==
  ASSUME Inv, Pop
  PROVE  /\ entry' = NoEntry /\ renewer' \in [Renewers -> RenewerStates]
         /\ \A r \in Renewers : renewer'[r] = Off \/ renewer'[r] = renewer[r]
         /\ \A r \in Renewers : renewer'[r].state = "off" \/ renewer'[r].stop
BY DEF Inv, Types, TrackedRenewer, Pop, CancelTask, Off, RenewerStates, Tracking, NoEntry

LEMMA StopThreadStops ==
  ASSUME Inv, NEW c \in Callers, StopThread(c)
  PROVE  /\ lock' = c /\ renewer' \in [Renewers -> RenewerStates]
         /\ \A r \in Renewers : renewer'[r].state = "off" \/ renewer'[r].stop
         /\ call' \in [Callers -> CallStates] /\ call'[c].pc = "joining"
         /\ \A d \in Callers : d # c => call'[d] = call[d]
<1>1. /\ renewer' \in [Renewers -> RenewerStates]
      /\ \A r \in Renewers : renewer'[r].state = "off" \/ renewer'[r].stop
  <2>1. CASE entry.kind = "task"
    <3>1. PICK q \in Renewers : entry = Tracking("task", q)
      BY <2>1 DEF Inv, Types, Tracking, NoEntry
    <3>2. renewer' = [renewer EXCEPT ![q].stop = TRUE]
      BY <2>1, <3>1 DEF StopThread, Tracking
    <3>3. renewer' \in [Renewers -> RenewerStates]
      BY <3>2 DEF Inv, Types, RenewerStates
    <3>4. ASSUME NEW r \in Renewers
          PROVE  renewer'[r].state = "off" \/ renewer'[r].stop
      <4>1. CASE r = q
        BY <3>2, <4>1 DEF Inv, Types, RenewerStates
      <4>2. CASE r # q
        BY <3>1, <3>2, <4>2 DEF Inv, Types, TrackedRenewer, Tracking
      <4> QED BY <4>1, <4>2
    <3> QED BY <3>3, <3>4
  <2>2. CASE entry.kind # "task"
    BY <2>2 DEF Inv, Types, TrackedRenewer, StopThread, Tracking
  <2> QED BY <2>1, <2>2
<1> DEFINE on == IF entry.kind = "task" THEN {entry.by} ELSE {}
           x == [call[c] EXCEPT !.pc = "joining", !.on = on]
<1>2. on \subseteq Callers \cup Renewers
  BY DEF Inv, Types, Tracking, NoEntry
<1>3. call[c] \in CallStates /\ call' = [call EXCEPT ![c] = x] /\ lock' = c
  BY DEF Inv, Types, StopThread
<1> HIDE DEF on
<1>4. x \in CallStates /\ x.pc = "joining"
  BY <1>2, <1>3 DEF CallStates, Undoing
<1> HIDE DEF x
<1> QED BY <1>1, <1>3, <1>4, CallMoves DEF Inv

LEMMA AsyncCreateInv ==
  ASSUME Inv, NEW c \in Callers, AsyncCreate(c)
  PROVE  Inv'
<1>1. SameCalls /\ now' = now
  BY DEF Inv, SameCalls, gatewayOnly, AsyncCreate
<1>2. Asyncio /\ At(c, "ready") /\ Script(c) = "create" /\ Types
  BY DEF AsyncCreate, Begins, Inv
<1>3. CASE entry.kind = "creating"
  <2>1. PICK o \in Callers : entry = Tracking("creating", o)
    BY <1>2, <1>3 DEF Types, NoEntry, Tracking
  <2> DEFINE x == [call[c] EXCEPT !.pc = "waiting", !.on = {o}]
  <2>2. x \in CallStates /\ x.pc = "waiting" /\ x.on = {o}
    BY <1>2 DEF Types, CallStates
  <2>3. call' = [call EXCEPT ![c] = x] /\ UNCHANGED <<entry, future, renewer, lock, closed>>
    BY <1>3, <2>1 DEF AsyncCreate, Tracking
  <2> HIDE DEF x
  <2>4. /\ call' \in [Callers -> CallStates] /\ call'[c] = x
        /\ \A d \in Callers : d # c => call'[d] = call[d]
    BY <1>2, <2>2, <2>3, CallMoves
  <2>5. Types' /\ TrackedRenewer' /\ Halting'
    BY <1>1, <2>2, <2>3, <2>4 DEF Inv, Types, TrackedRenewer, Halting, SameCalls
  <2>6. Roles'
    BY <1>1, <1>2, <2>2, <2>3, <2>4 DEF Inv, Roles, SameCalls, At, Script, Asyncio, Undoing
  <2>7. Kept'
    <3>1. Undisturbed' => Undisturbed
      BY <1>1, <1>2, <2>2, <2>3, <2>4 DEF Undisturbed, Begun, At, Script, SameCalls
    <3> QED BY <1>1, <1>2, <2>2, <2>3, <2>4, <3>1
            DEF Inv, Kept, Returned, SameCalls, At, Script, Asyncio, Mine
  <2> QED BY <2>5, <2>6, <2>7 DEF Inv
<1>4. CASE entry.kind # "creating"
  <2> DEFINE reserved == entry.kind = "none"
             x == [call[c] EXCEPT !.pc = "posting", !.starts = reserved]
  <2>1. x \in CallStates /\ x.pc = "posting"
    BY <1>2 DEF Types, CallStates
  <2>2. x.starts <=> entry.kind = "none"
    BY <1>2 DEF Types, CallStates
  <2>3. /\ call' = [call EXCEPT ![c] = x] /\ UNCHANGED <<renewer, lock, closed>>
        /\ entry' = IF entry.kind = "none" THEN Tracking("creating", c) ELSE entry
        /\ future' = [future EXCEPT ![c] = IF entry.kind = "none" THEN "pending" ELSE @]
    BY <1>4 DEF AsyncCreate, Tracking
  <2> HIDE DEF x
  <2>4. /\ call' \in [Callers -> CallStates] /\ call'[c] = x
        /\ \A d \in Callers : d # c => call'[d] = call[d]
    BY <1>2, <2>1, <2>3, CallMoves
  <2>5. entry.kind = "none" \/ \E r \in Renewers : entry = Tracking("task", r)
    BY <1>2, <1>4 DEF Types, NoEntry, Tracking
  <2>6. Types'
    BY <1>1, <1>2, <2>3, <2>4 DEF Types, SameCalls
  <2>7. TrackedRenewer'
    BY <2>3 DEF Inv, TrackedRenewer, Tracking
  <2>8. Halting'
    BY <2>1, <2>3, <2>4 DEF Inv, Halting
  <2>9. Roles'
    BY <1>1, <1>2, <2>1, <2>3, <2>4
       DEF Inv, Roles, SameCalls, At, Script, Asyncio, Undoing, Tracking
  <2>10. Kept'
    <3>1. Undisturbed' => Undisturbed
      BY <1>1, <1>2, <2>1, <2>3, <2>4 DEF Undisturbed, Begun, At, Script, SameCalls
    <3>2. ASSUME Undisturbed', NEW d \in Callers, At(d, "posting")', Asyncio'
          PROVE  (call[d].starts => Mine(d))' /\ ((~call[d].starts) => entry.kind = "task")'
      BY <1>1, <1>2, <2>1, <2>2, <2>3, <2>4, <2>5, <3>1, <3>2
         DEF Inv, Kept, SameCalls, At, Asyncio, Mine, Tracking
    <3>3. ASSUME Undisturbed', NEW d \in Callers
          PROVE  (Returned(d) => entry.kind = "task")' /\ (future[d] = "ok" => Returned(d))'
      BY <1>1, <1>2, <2>1, <2>3, <2>4, <3>1, <3>3
         DEF Inv, Types, Kept, Returned, SameCalls, At, Script, Tracking
    <3>4. Undisturbed' => /\ \A r \in Renewers : ~renewer'[r].stop
                          /\ entry'.kind = "task" => renewer'[entry'.by].state # "off"
      BY <2>3, <3>1 DEF Inv, Kept, Tracking
    <3> QED BY <1>1, <1>2, <3>2, <3>3, <3>4 DEF Kept, SameCalls, Asyncio
  <2> QED BY <2>6, <2>7, <2>8, <2>9, <2>10 DEF Inv
<1> QED BY <1>3, <1>4

LEMMA AsyncCreateJoinedInv ==
  ASSUME Inv, NEW c \in Callers, AsyncCreateJoined(c)
  PROVE  Inv'
<1>1. SameCalls /\ now' = now
  BY DEF SameCalls, gatewayOnly, AsyncCreateJoined
<1>2. At(c, "waiting") /\ Script(c) = "create" /\ Types
  BY DEF AsyncCreateJoined, Inv
<1> DEFINE shared == \A o \in call[c].on : future[o] = "ok"
           x == [Ready EXCEPT !.pc = "ended", !.ok = shared]
<1>3. x \in CallStates /\ x.pc = "ended"
  BY DEF CallStates, Ready
<1>4. x.ok <=> shared
  BY DEF Ready
<1>5. call' = [call EXCEPT ![c] = x] /\ UNCHANGED <<entry, future, renewer, lock, closed>>
  BY DEF AsyncCreateJoined, Ended
<1> HIDE DEF x
<1>6. /\ call' \in [Callers -> CallStates] /\ call'[c] = x
      /\ \A d \in Callers : d # c => call'[d] = call[d]
  BY <1>2, <1>3, <1>5, CallMoves
<1>7. Types' /\ TrackedRenewer' /\ Halting'
  BY <1>1, <1>3, <1>5, <1>6 DEF Inv, Types, TrackedRenewer, Halting, SameCalls
<1>8. Roles'
  BY <1>1, <1>3, <1>5, <1>6 DEF Inv, Roles, SameCalls, At, Script, Asyncio, Undoing
<1>9. Kept'
  <2>1. Undisturbed' => Undisturbed
    BY <1>1, <1>2, <1>3, <1>5, <1>6 DEF Undisturbed, Begun, At, Script, SameCalls
  <2>2. Undisturbed /\ shared => entry.kind = "task"   \* a creation it waited for returned
    BY <1>2 DEF Inv, Roles, Kept
  <2>3. ASSUME Undisturbed', NEW d \in Callers
        PROVE  (Returned(d) => entry.kind = "task")' /\ (future[d] = "ok" => Returned(d))'
    <3>1. CASE d = c
      BY <1>1, <1>2, <1>3, <1>4, <1>5, <1>6, <2>1, <2>2, <2>3, <3>1
         DEF Inv, Kept, Returned, SameCalls, At, Script
    <3>2. CASE d # c
      BY <1>1, <1>5, <1>6, <2>1, <2>3, <3>2
         DEF Inv, Kept, Returned, SameCalls, At, Script
    <3> QED BY <3>1, <3>2
  <2> QED BY <1>1, <1>3, <1>5, <1>6, <2>1, <2>3
          DEF Inv, Kept, SameCalls, At, Asyncio, Mine
<1> QED BY <1>7, <1>8, <1>9 DEF Inv

LEMMA AsyncCreatedInv ==
  ASSUME Inv, NEW c \in Callers, AsyncCreated(c)
  PROVE  Inv'
<1>1. SameCalls /\ now' = now
  BY DEF SameCalls, gatewayOnly, AsyncCreated
<1>2. Asyncio /\ At(c, "posting") /\ Script(c) = "create" /\ lock = "free" /\ Types
  BY DEF AsyncCreated, Free, Inv
<1> DEFINE x == [Ready EXCEPT !.pc = "ended", !.ok = TRUE]
<1>3. x \in CallStates /\ x.pc = "ended" /\ x.ok
  BY DEF CallStates, Ready
<1>4. /\ call' = [call EXCEPT ![c] = x] /\ UNCHANGED <<lock, closed>>
      /\ future' = [future EXCEPT ![c] = IF @ = "pending" THEN "ok" ELSE @]
  BY DEF AsyncCreated, Ended, Settle
<1> HIDE DEF x
<1>5. /\ call' \in [Callers -> CallStates] /\ call'[c] = x
      /\ \A d \in Callers : d # c => call'[d] = call[d]
  BY <1>2, <1>3, <1>4, CallMoves
<1>6. Halting'   \* nobody holds the lock
  BY <1>2, <1>3, <1>4, <1>5, CallSlots DEF Inv, Halting
<1>7. Undisturbed' => Undisturbed
  BY <1>1, <1>2, <1>3, <1>4, <1>5 DEF Undisturbed, Begun, At, Script, SameCalls
<1>8. CASE call[c].starts /\ Mine(c)
  <2>1. StartRenewal(c)
    BY <1>8 DEF AsyncCreated
  <2>2. entry.kind # "task"
    BY <1>8 DEF Mine
  <2>3. TrackedRenewer'
    BY <1>2, <2>1, <2>2, RenewalStarts DEF Inv, TrackedRenewer, Tracking
  <2>4. Types' /\ Roles'
    BY <1>1, <1>2, <1>3, <1>4, <1>5, <2>1, RenewalStarts
       DEF Inv, Types, Roles, SameCalls, At, Script, Asyncio, Undoing, Tracking
  <2>5. Kept'
    <3>1. ASSUME Undisturbed', NEW d \in Callers, At(d, "posting")'
          PROVE  ~(call[d].starts /\ Asyncio)'
      BY <1>1, <1>2, <1>3, <1>5, <1>7, <1>8, <3>1
         DEF Inv, Kept, SameCalls, At, Asyncio, Mine
    <3>2. ASSUME Undisturbed', NEW d \in Callers
          PROVE  (future[d] = "ok" => Returned(d))'
      BY <1>1, <1>2, <1>3, <1>4, <1>5, <1>7, <3>2
         DEF Inv, Types, Kept, Returned, SameCalls, At, Script
    <3>3. Undisturbed' => /\ \A r \in Renewers : ~renewer'[r].stop
                          /\ renewer'[entry'.by].state # "off" /\ entry'.kind = "task"
      BY <1>2, <1>7, <2>1, RenewalStarts DEF Inv, Kept, Tracking
    <3> QED BY <3>1, <3>2, <3>3 DEF Kept
  <2> QED BY <1>6, <2>3, <2>4, <2>5 DEF Inv
<1>9. CASE ~(call[c].starts /\ Mine(c))
  <2>1. UNCHANGED <<entry, renewer>>
    BY <1>9 DEF AsyncCreated
  <2>2. Types' /\ TrackedRenewer'
    BY <1>1, <1>2, <1>4, <1>5, <2>1 DEF Inv, Types, TrackedRenewer, SameCalls
  <2>3. Roles'
    BY <1>1, <1>3, <1>4, <1>5, <2>1
       DEF Inv, Roles, SameCalls, At, Script, Asyncio, Undoing
  <2>4. Undisturbed => entry.kind = "task"
    BY <1>2, <1>9 DEF Inv, Types, Kept, Mine
  <2>5. ASSUME Undisturbed', NEW d \in Callers
        PROVE  (future[d] = "ok" => Returned(d))'
    BY <1>1, <1>2, <1>3, <1>4, <1>5, <1>7, <2>5
       DEF Inv, Types, Kept, Returned, SameCalls, At, Script
  <2>6. Kept'
    BY <1>1, <1>3, <1>5, <1>7, <2>1, <2>4, <2>5
       DEF Inv, Kept, SameCalls, At, Asyncio, Mine
  <2> QED BY <1>6, <2>2, <2>3, <2>6 DEF Inv
<1> QED BY <1>8, <1>9

LEMMA AsyncCreateFailedInv ==
  ASSUME Inv, NEW c \in Callers, AsyncCreateFailed(c)
  PROVE  Inv'
<1>1. SameCalls /\ now' = now
  BY SpendKeepsCalls DEF Inv, SameCalls, gatewayOnly, AsyncCreateFailed, CallFails
<1>2. Types'
  BY <1>1 DEF Inv, Types, CallStates, RenewerStates, SameCalls, Tracking, Undoing,
     NoEntry, At, Renewers, RenewerOf, Mine, AsyncCreateFailed, Ended, Ready, Release,
     Settle
<1>3. TrackedRenewer'
  BY <1>2 DEF Inv, Types, CallStates, RenewerStates, TrackedRenewer, Halting, At,
     Tracking, NoEntry, Renewers, RenewerOf, Mine, AsyncCreateFailed, Ended, Ready,
     Release, Settle
<1>4. Roles'
  BY <1>1, <1>2 DEF Inv, Types, CallStates, RenewerStates, Roles, SameCalls, Tracking,
     Undoing, NoEntry, At, Script, Asyncio, AsyncCreateFailed, Ended, Ready, Release,
     Settle
<1>5. Halting'
  BY <1>2, CallSlots DEF Inv, Types, CallStates, RenewerStates, TrackedRenewer, Halting,
     Tracking, NoEntry, Renewers, RenewerOf, Mine, At, Free, AsyncCreateFailed, Ended,
     Ready, Release, Settle
<1>6. Undisturbed' => Undisturbed
  BY <1>1, <1>2 DEF Inv, Types, CallStates, RenewerStates, SameCalls, At, Script,
     Undisturbed, Begun, AsyncCreateFailed, Ended, Ready, Release, Settle
<1>7. Kept'
  BY <1>1, <1>2, <1>6 DEF Inv, Types, CallStates, RenewerStates, Roles, Kept, Returned,
     SameCalls, Tracking, NoEntry, Renewers, RenewerOf, Mine, At, Script, Asyncio,
     AsyncCreateFailed, Ended, Ready, Release, Settle
<1> QED BY <1>2, <1>3, <1>4, <1>5, <1>7 DEF Inv

LEMMA AsyncCreateCancelledInv ==
  ASSUME Inv, NEW c \in Callers, AsyncCreateCancelled(c)
  PROVE  Inv'
<1>1. SameCalls /\ now' = now
  BY SpendKeepsCalls DEF Inv, SameCalls, gatewayOnly, AsyncCreateCancelled, CallFails
<1>2. Types'
  BY <1>1 DEF Inv, Types, CallStates, RenewerStates, SameCalls, Tracking, Undoing,
     NoEntry, At, Renewers, RenewerOf, Mine, AsyncCreateCancelled, Ended, Ready, Release,
     Settle
<1>3. TrackedRenewer'
  BY <1>2 DEF Inv, Types, CallStates, RenewerStates, TrackedRenewer, Halting, At,
     Tracking, NoEntry, Renewers, RenewerOf, Mine, AsyncCreateCancelled, Ended, Ready,
     Release, Settle
<1>4. Roles'
  BY <1>1, <1>2 DEF Inv, Types, CallStates, RenewerStates, Roles, SameCalls, Tracking,
     Undoing, NoEntry, At, Script, Asyncio, AsyncCreateCancelled, Ended, Ready, Release,
     Settle
<1>5. Halting'
  BY <1>2, CallSlots DEF Inv, Types, CallStates, RenewerStates, TrackedRenewer, Halting,
     Tracking, NoEntry, Renewers, RenewerOf, Mine, At, Free, AsyncCreateCancelled, Ended,
     Ready, Release, Settle
<1>6. Undisturbed' => Undisturbed
  BY <1>1, <1>2 DEF Inv, Types, CallStates, RenewerStates, SameCalls, At, Script,
     Undisturbed, Begun, AsyncCreateCancelled, Ended, Ready, Release, Settle
<1>7. Kept'
  BY <1>1, <1>2, <1>6 DEF Inv, Types, CallStates, RenewerStates, Roles, Kept, Returned,
     SameCalls, Tracking, NoEntry, Renewers, RenewerOf, Mine, At, Script, Asyncio,
     AsyncCreateCancelled, Ended, Ready, Release, Settle
<1> QED BY <1>2, <1>3, <1>4, <1>5, <1>7 DEF Inv

LEMMA AsyncDeleteInv ==
  ASSUME Inv, NEW c \in Callers, AsyncDelete(c)
  PROVE  Inv'
<1>1. SameCalls /\ now' = now
  BY DEF SameCalls, gatewayOnly, AsyncDelete
<1>2. At(c, "ready") /\ Script(c) = "delete" /\ Types
  BY DEF AsyncDelete, Begins, Inv
<1>3. PICK x \in CallStates :
        /\ call' = [call EXCEPT ![c] = x]
        /\ \/ x.pc = "waiting" /\ x.on # {} /\ x.on \subseteq Callers
           \/ x.pc = "stopped"
  <2>1. CASE entry.kind = "creating"
    <3>1. PICK o \in Callers : entry = Tracking("creating", o)
      BY <1>2, <2>1 DEF Types, NoEntry, Tracking
    <3> DEFINE x == [call[c] EXCEPT !.pc = "waiting", !.on = {o}]
    <3>2. x \in CallStates /\ x.pc = "waiting" /\ x.on = {o}
      BY <1>2 DEF Types, CallStates
    <3>3. call' = [call EXCEPT ![c] = x]
      BY <2>1, <3>1 DEF AsyncDelete, Tracking
    <3> QED BY <3>2, <3>3
  <2>2. CASE entry.kind # "creating"
    <3> DEFINE x == [call[c] EXCEPT !.pc = "stopped"]
    <3>1. x \in CallStates /\ x.pc = "stopped"
      BY <1>2 DEF Types, CallStates, Undoing
    <3>2. call' = [call EXCEPT ![c] = x]
      BY <2>2 DEF AsyncDelete, To
    <3> QED BY <3>1, <3>2
  <2> QED BY <2>1, <2>2
<1>4. /\ call' \in [Callers -> CallStates] /\ call'[c] = x
      /\ \A d \in Callers : d # c => call'[d] = call[d]
  BY <1>2, <1>3, CallMoves
<1>5. (UNCHANGED <<entry, renewer>> \/ Pop) /\ UNCHANGED <<future, lock, closed>>
  BY DEF AsyncDelete
<1>6. Types' /\ TrackedRenewer' /\ (entry' = entry \/ entry' = NoEntry)
  BY <1>1, <1>2, <1>4, <1>5, PopStops DEF Inv, Types, TrackedRenewer, SameCalls
<1>7. Halting'
  BY <1>2, <1>3, <1>4, <1>5, PopStops DEF Inv, Halting
<1>8. Roles'
  BY <1>1, <1>2, <1>3, <1>4, <1>6
     DEF Inv, Roles, SameCalls, At, Script, Asyncio, Undoing, NoEntry
<1>9. ~Undisturbed'
  BY <1>1, <1>2, <1>3, <1>4 DEF SameCalls, At, Script, Undisturbed, Begun
<1> QED BY <1>6, <1>7, <1>8, <1>9 DEF Inv, Kept

LEMMA AsyncDeleteWaitedInv ==
  ASSUME Inv, NEW c \in Callers, AsyncDeleteWaited(c)
  PROVE  Inv'
<1>1. SameCalls /\ now' = now
  BY SpendKeepsCalls DEF Inv, SameCalls, gatewayOnly, AsyncDeleteWaited
<1>2. Types'
  BY <1>1 DEF Inv, Types, CallStates, RenewerStates, SameCalls, Tracking, Undoing,
     NoEntry, At, Renewers, RenewerOf, Mine, AsyncDeleteWaited, Pop, CancelTask, To, Off
<1>3. TrackedRenewer'
  BY <1>2 DEF Inv, Types, CallStates, RenewerStates, TrackedRenewer, Halting, At,
     Tracking, NoEntry, Renewers, RenewerOf, Mine, AsyncDeleteWaited, Pop, CancelTask,
     To, Off
<1>4. Roles'
  BY <1>1, <1>2 DEF Inv, Types, CallStates, RenewerStates, Roles, SameCalls, Tracking,
     Undoing, NoEntry, At, Script, Asyncio, AsyncDeleteWaited, Pop, CancelTask, To, Off
<1>5. Halting'
  BY <1>2, CallSlots DEF Inv, Types, CallStates, RenewerStates, TrackedRenewer, Halting,
     Tracking, NoEntry, Renewers, RenewerOf, Mine, At, Free, AsyncDeleteWaited, Pop,
     CancelTask, To, Off
<1>6. ~Undisturbed'
  BY <1>1, <1>2 DEF Inv, Types, CallStates, RenewerStates, Roles, SameCalls, Undoing, At,
     Script, Undisturbed, Begun, AsyncDeleteWaited, Pop, CancelTask, To, Off
<1> QED BY <1>2, <1>3, <1>4, <1>5, <1>6 DEF Inv, Kept

LEMMA AsyncDeleteCancelledInv ==
  ASSUME Inv, NEW c \in Callers, AsyncDeleteCancelled(c)
  PROVE  Inv'
<1>1. SameCalls /\ now' = now
  BY SpendKeepsCalls DEF Inv, SameCalls, gatewayOnly, AsyncDeleteCancelled
<1>2. Types'
  BY <1>1 DEF Inv, Types, CallStates, RenewerStates, SameCalls, Tracking, Undoing,
     NoEntry, At, Renewers, RenewerOf, Mine, AsyncDeleteCancelled, Pop, CancelTask, To, Off
<1>3. TrackedRenewer'
  BY <1>2 DEF Inv, Types, CallStates, RenewerStates, TrackedRenewer, Halting, At,
     Tracking, NoEntry, Renewers, RenewerOf, Mine, AsyncDeleteCancelled, Pop, CancelTask,
     To, Off
<1>4. Roles'
  BY <1>1, <1>2 DEF Inv, Types, CallStates, RenewerStates, Roles, SameCalls, Tracking,
     Undoing, NoEntry, At, Script, Asyncio, AsyncDeleteCancelled, Pop, CancelTask, To, Off
<1>5. Halting'
  BY <1>2, CallSlots DEF Inv, Types, CallStates, RenewerStates, TrackedRenewer, Halting,
     Tracking, NoEntry, Renewers, RenewerOf, Mine, At, Free, AsyncDeleteCancelled, Pop,
     CancelTask, To, Off
<1>6. ~Undisturbed'
  BY <1>1, <1>2 DEF Inv, Types, CallStates, RenewerStates, Roles, SameCalls, Undoing, At,
     Script, Undisturbed, Begun, AsyncDeleteCancelled, Pop, CancelTask, To, Off
<1> QED BY <1>2, <1>3, <1>4, <1>5, <1>6 DEF Inv, Kept

LEMMA AsyncCloseInv ==
  ASSUME Inv, NEW c \in Callers, AsyncClose(c)
  PROVE  Inv'
<1>1. SameCalls /\ now' = now
  BY SpendKeepsCalls DEF Inv, SameCalls, gatewayOnly, AsyncClose
<1>2. Types'
  BY <1>1 DEF Inv, Types, CallStates, RenewerStates, SameCalls, Tracking, Undoing,
     NoEntry, At, Renewers, RenewerOf, Mine, AsyncClose, Begins, CancelTask, To, Off
<1>3. TrackedRenewer'
  BY <1>2 DEF Inv, Types, CallStates, RenewerStates, TrackedRenewer, Halting, At,
     Tracking, NoEntry, Renewers, RenewerOf, Mine, AsyncClose, Begins, CancelTask, To,
     Off
<1>4. Roles'
  BY <1>1, <1>2 DEF Inv, Types, CallStates, RenewerStates, Roles, SameCalls, Tracking,
     Undoing, NoEntry, At, Script, Asyncio, AsyncClose, Begins, CancelTask, To, Off
<1>5. Halting'
  BY <1>2, CallSlots DEF Inv, Types, CallStates, RenewerStates, TrackedRenewer, Halting,
     Tracking, NoEntry, Renewers, RenewerOf, Mine, At, Free, AsyncClose, Begins,
     CancelTask, To, Off
<1>6. ~Undisturbed'
  BY <1>1, <1>2 DEF Inv, Types, CallStates, RenewerStates, Roles, SameCalls, Undoing, At,
     Script, Undisturbed, Begun, AsyncClose, Begins, CancelTask, To, Off
<1> QED BY <1>2, <1>3, <1>4, <1>5, <1>6 DEF Inv, Kept

LEMMA AsyncClosedInv ==
  ASSUME Inv, NEW c \in Callers, AsyncClosed(c)
  PROVE  Inv'
<1>1. SameCalls /\ now' = now
  BY SpendKeepsCalls DEF Inv, SameCalls, gatewayOnly, AsyncClosed
<1>2. Types'
  BY <1>1 DEF Inv, Types, CallStates, RenewerStates, SameCalls, Tracking, Undoing,
     NoEntry, At, Renewers, RenewerOf, Mine, AsyncClosed, Ended, Ready
<1>3. TrackedRenewer'
  BY <1>2 DEF Inv, Types, CallStates, RenewerStates, TrackedRenewer, Halting, At,
     Tracking, NoEntry, Renewers, RenewerOf, Mine, AsyncClosed, Ended, Ready
<1>4. Roles'
  BY <1>1, <1>2 DEF Inv, Types, CallStates, RenewerStates, Roles, SameCalls, Tracking,
     Undoing, NoEntry, At, Script, Asyncio, AsyncClosed, Ended, Ready
<1>5. Halting'
  BY <1>2, CallSlots DEF Inv, Types, CallStates, RenewerStates, TrackedRenewer, Halting,
     Tracking, NoEntry, Renewers, RenewerOf, Mine, At, Free, AsyncClosed, Ended, Ready
<1>6. ~Undisturbed'
  BY <1>1, <1>2 DEF Inv, Types, CallStates, RenewerStates, Roles, SameCalls, Undoing, At,
     Script, Undisturbed, Begun, AsyncClosed, Ended, Ready
<1> QED BY <1>2, <1>3, <1>4, <1>5, <1>6 DEF Inv, Kept

LEMMA SyncCreateInv ==
  ASSUME Inv, NEW c \in Callers, SyncCreate(c)
  PROVE  Inv'
<1>1. SameCalls /\ now' = now
  BY DEF SameCalls, gatewayOnly, SyncCreate
<1>2. ~Asyncio /\ At(c, "ready") /\ Script(c) = "create" /\ Types
  BY DEF SyncCreate, Begins, Inv
<1> DEFINE untracked == entry.kind = "none"
           x == [call[c] EXCEPT !.pc = "posting", !.starts = untracked]
<1>3. x \in CallStates /\ x.pc = "posting"
  BY <1>2 DEF Types, CallStates
<1>4. x.starts <=> entry.kind = "none"
  BY <1>2 DEF Types, CallStates
<1>5. call' = [call EXCEPT ![c] = x] /\ UNCHANGED <<entry, future, renewer, lock, closed>>
  BY DEF SyncCreate
<1> HIDE DEF x
<1>6. /\ call' \in [Callers -> CallStates] /\ call'[c] = x
      /\ \A d \in Callers : d # c => call'[d] = call[d]
  BY <1>2, <1>3, <1>5, CallMoves
<1>7. Types' /\ TrackedRenewer' /\ Halting'
  BY <1>1, <1>3, <1>5, <1>6 DEF Inv, Types, TrackedRenewer, Halting, SameCalls
<1>8. Roles'
  BY <1>1, <1>2, <1>3, <1>5, <1>6 DEF Inv, Roles, SameCalls, At, Script, Asyncio, Undoing
<1>9. Kept'
  <2>1. Undisturbed' => Undisturbed
    BY <1>1, <1>2, <1>3, <1>5, <1>6 DEF Undisturbed, Begun, At, Script, SameCalls
  <2>2. entry.kind \in {"none", "task"}
    BY <1>2 DEF Inv, Types, Roles, NoEntry, Tracking
  <2>3. ASSUME Undisturbed', NEW d \in Callers
        PROVE  (Returned(d) => entry.kind = "task")' /\ (future[d] = "ok" => Returned(d))'
    BY <1>1, <1>2, <1>3, <1>5, <1>6, <2>1, <2>3
       DEF Inv, Kept, Returned, SameCalls, At, Script
  <2> QED BY <1>1, <1>2, <1>3, <1>4, <1>5, <1>6, <2>1, <2>2, <2>3
          DEF Inv, Kept, SameCalls, At, Asyncio
<1> QED BY <1>7, <1>8, <1>9 DEF Inv

LEMMA SyncCreatedInv ==
  ASSUME Inv, NEW c \in Callers, SyncCreated(c)
  PROVE  Inv'
<1>1. SameCalls /\ now' = now
  BY DEF SameCalls, gatewayOnly, SyncCreated
<1>2. ~Asyncio /\ At(c, "posting") /\ Script(c) = "create" /\ lock = "free" /\ Types
  BY DEF SyncCreated, Free, Inv
<1> DEFINE x == [Ready EXCEPT !.pc = "ended", !.ok = TRUE]
<1>3. x \in CallStates /\ x.pc = "ended" /\ x.ok
  BY DEF CallStates, Ready
<1>4. /\ call' = [call EXCEPT ![c] = x] /\ UNCHANGED <<lock, closed>>
      /\ future' = future
  BY DEF SyncCreated, Ended
<1> HIDE DEF x
<1>5. /\ call' \in [Callers -> CallStates] /\ call'[c] = x
      /\ \A d \in Callers : d # c => call'[d] = call[d]
  BY <1>2, <1>3, <1>4, CallMoves
<1>6. Halting'   \* nobody holds the lock
  BY <1>2, <1>3, <1>4, <1>5, CallSlots DEF Inv, Halting
<1>7. Undisturbed' => Undisturbed
  BY <1>1, <1>2, <1>3, <1>4, <1>5 DEF Undisturbed, Begun, At, Script, SameCalls
<1>8. CASE MayStart(c)
  <2>1. StartRenewal(c)
    BY <1>8 DEF SyncCreated
  <2>2. entry.kind # "task"
    BY <1>8 DEF MayStart
  <2>3. TrackedRenewer'
    BY <1>2, <2>1, <2>2, RenewalStarts DEF Inv, TrackedRenewer, Tracking
  <2>4. Types' /\ Roles'
    BY <1>1, <1>2, <1>3, <1>4, <1>5, <2>1, RenewalStarts
       DEF Inv, Types, Roles, SameCalls, At, Script, Asyncio, Undoing, Tracking
  <2>5. Kept'
    <3>1. ASSUME Undisturbed', NEW d \in Callers, At(d, "posting")'
          PROVE  ~(call[d].starts /\ Asyncio)'
      BY <1>1, <1>2, <1>3, <1>5, <1>7, <1>8, <3>1
         DEF Inv, Kept, SameCalls, At, Asyncio, Mine, Roles, MayStart
    <3>2. ASSUME Undisturbed', NEW d \in Callers
          PROVE  (future[d] = "ok" => Returned(d))'
      BY <1>1, <1>2, <1>3, <1>4, <1>5, <1>7, <3>2
         DEF Inv, Types, Kept, Returned, SameCalls, At, Script
    <3>3. Undisturbed' => /\ \A r \in Renewers : ~renewer'[r].stop
                          /\ renewer'[entry'.by].state # "off" /\ entry'.kind = "task"
      BY <1>2, <1>7, <2>1, RenewalStarts DEF Inv, Kept, Tracking
    <3> QED BY <3>1, <3>2, <3>3 DEF Kept
  <2> QED BY <1>6, <2>3, <2>4, <2>5 DEF Inv
<1>9. CASE ~(MayStart(c))
  <2>1. UNCHANGED <<entry, renewer>>
    BY <1>9 DEF SyncCreated
  <2>2. Types' /\ TrackedRenewer'
    BY <1>1, <1>2, <1>4, <1>5, <2>1 DEF Inv, Types, TrackedRenewer, SameCalls
  <2>3. Roles'
    BY <1>1, <1>3, <1>4, <1>5, <2>1
       DEF Inv, Roles, SameCalls, At, Script, Asyncio, Undoing
  <2>4. Undisturbed => entry.kind = "task"
    BY <1>2, <1>9 DEF Inv, Types, Kept, Roles, MayStart, NoEntry, Tracking
  <2>5. ASSUME Undisturbed', NEW d \in Callers
        PROVE  (future[d] = "ok" => Returned(d))'
    BY <1>1, <1>2, <1>3, <1>4, <1>5, <1>7, <2>5
       DEF Inv, Types, Kept, Returned, SameCalls, At, Script
  <2>6. Kept'
    BY <1>1, <1>3, <1>5, <1>7, <2>1, <2>4, <2>5
       DEF Inv, Kept, SameCalls, At, Asyncio, Mine
  <2> QED BY <1>6, <2>2, <2>3, <2>6 DEF Inv
<1> QED BY <1>8, <1>9

LEMMA SyncCreateFailedInv ==
  ASSUME Inv, NEW c \in Callers, SyncCreateFailed(c)
  PROVE  Inv'
<1>1. SameCalls /\ now' = now
  BY SpendKeepsCalls DEF Inv, SameCalls, gatewayOnly, SyncCreateFailed, CallFails
<1>2. Types'
  BY <1>1 DEF Inv, Types, CallStates, RenewerStates, SameCalls, Tracking, Undoing,
     NoEntry, At, Renewers, RenewerOf, Mine, SyncCreateFailed, Ended, Ready
<1>3. TrackedRenewer'
  BY <1>2 DEF Inv, Types, CallStates, RenewerStates, TrackedRenewer, Halting, At,
     Tracking, NoEntry, Renewers, RenewerOf, Mine, SyncCreateFailed, Ended, Ready
<1>4. Roles'
  BY <1>1, <1>2 DEF Inv, Types, CallStates, RenewerStates, Roles, SameCalls, Tracking,
     Undoing, NoEntry, At, Script, Asyncio, SyncCreateFailed, Ended, Ready
<1>5. Halting'
  BY <1>2, CallSlots DEF Inv, Types, CallStates, RenewerStates, TrackedRenewer, Halting,
     Tracking, NoEntry, Renewers, RenewerOf, Mine, At, Free, SyncCreateFailed, Ended,
     Ready
<1>6. Undisturbed' => Undisturbed
  BY <1>1, <1>2 DEF Inv, Types, CallStates, RenewerStates, SameCalls, At, Script,
     Undisturbed, Begun, SyncCreateFailed, Ended, Ready
<1>7. Kept'
  BY <1>1, <1>2, <1>6 DEF Inv, Types, CallStates, RenewerStates, Roles, Kept, Returned,
     SameCalls, Tracking, NoEntry, Renewers, RenewerOf, Mine, At, Script, Asyncio,
     SyncCreateFailed, Ended, Ready
<1> QED BY <1>2, <1>3, <1>4, <1>5, <1>7 DEF Inv

LEMMA SyncDeleteInv ==
  ASSUME Inv, NEW c \in Callers, SyncDelete(c)
  PROVE  Inv'
<1>1. SameCalls /\ now' = now
  BY DEF SameCalls, gatewayOnly, SyncDelete
<1>2. At(c, "ready") /\ Script(c) = "delete" /\ StopThread(c) /\ lock = "free" /\ Types
  BY DEF SyncDelete, Begins, Free, Inv
<1>3. entry' = NoEntry /\ UNCHANGED <<future, closed>>
  BY DEF SyncDelete
<1>4. Types' /\ TrackedRenewer'
  BY <1>1, <1>2, <1>3, StopThreadStops DEF Inv, Types, TrackedRenewer, SameCalls
<1>5. Halting'
  BY <1>2, StopThreadStops, CallSlots DEF Inv, Halting
<1>6. Roles'
  BY <1>1, <1>2, <1>3, StopThreadStops
     DEF Inv, Roles, SameCalls, At, Script, Asyncio, Undoing, NoEntry
<1>7. ~Undisturbed'
  BY <1>1, <1>2, StopThreadStops DEF SameCalls, At, Script, Undisturbed, Begun
<1> QED BY <1>4, <1>5, <1>6, <1>7 DEF Inv, Kept

LEMMA SyncCloseInv ==
  ASSUME Inv, NEW c \in Callers, SyncClose(c)
  PROVE  Inv'
<1>1. SameCalls /\ now' = now
  BY DEF SameCalls, gatewayOnly, SyncClose
<1>2. At(c, "ready") /\ Script(c) = "close" /\ StopThread(c) /\ lock = "free" /\ Types
  BY DEF SyncClose, Begins, Free, Inv
<1>3. entry' = entry /\ UNCHANGED <<future, closed>>
  BY DEF SyncClose
<1>4. Types' /\ TrackedRenewer'
  BY <1>1, <1>2, <1>3, StopThreadStops DEF Inv, Types, TrackedRenewer, SameCalls
<1>5. Halting'
  BY <1>2, StopThreadStops, CallSlots DEF Inv, Halting
<1>6. Roles'
  BY <1>1, <1>2, <1>3, StopThreadStops
     DEF Inv, Roles, SameCalls, At, Script, Asyncio, Undoing, NoEntry
<1>7. ~Undisturbed'
  BY <1>1, <1>2, StopThreadStops DEF SameCalls, At, Script, Undisturbed, Begun
<1> QED BY <1>4, <1>5, <1>6, <1>7 DEF Inv, Kept

LEMMA SyncDeleteJoinedInv ==
  ASSUME Inv, NEW c \in Callers, SyncDeleteJoined(c)
  PROVE  Inv'
<1>1. SameCalls /\ now' = now
  BY SpendKeepsCalls DEF Inv, SameCalls, gatewayOnly, SyncDeleteJoined, Joined
<1>2. Types'
  BY <1>1 DEF Inv, Types, CallStates, RenewerStates, SameCalls, Tracking, Undoing,
     NoEntry, At, Renewers, RenewerOf, Mine, SyncDeleteJoined, Joined, To
<1>3. TrackedRenewer'
  BY <1>2 DEF Inv, Types, CallStates, RenewerStates, TrackedRenewer, Halting, At,
     Tracking, NoEntry, Renewers, RenewerOf, Mine, SyncDeleteJoined, Joined, To
<1>4. Roles'
  BY <1>1, <1>2 DEF Inv, Types, CallStates, RenewerStates, Roles, SameCalls, Tracking,
     Undoing, NoEntry, At, Script, Asyncio, SyncDeleteJoined, Joined, To
<1>5. Halting'
  BY <1>2, CallSlots DEF Inv, Types, CallStates, RenewerStates, TrackedRenewer, Halting,
     Tracking, NoEntry, Renewers, RenewerOf, Mine, At, Free, SyncDeleteJoined, Joined, To
<1>6. ~Undisturbed'
  BY <1>1, <1>2 DEF Inv, Types, CallStates, RenewerStates, Roles, SameCalls, Undoing, At,
     Script, Undisturbed, Begun, SyncDeleteJoined, Joined, To
<1> QED BY <1>2, <1>3, <1>4, <1>5, <1>6 DEF Inv, Kept

LEMMA SyncClosedInv ==
  ASSUME Inv, NEW c \in Callers, SyncClosed(c)
  PROVE  Inv'
<1>1. SameCalls /\ now' = now
  BY SpendKeepsCalls DEF Inv, SameCalls, gatewayOnly, SyncClosed, Joined
<1>2. Types'
  BY <1>1 DEF Inv, Types, CallStates, RenewerStates, SameCalls, Tracking, Undoing,
     NoEntry, At, Renewers, RenewerOf, Mine, SyncClosed, Joined, Ended, Ready
<1>3. TrackedRenewer'
  BY <1>2 DEF Inv, Types, CallStates, RenewerStates, TrackedRenewer, Halting, At,
     Tracking, NoEntry, Renewers, RenewerOf, Mine, SyncClosed, Joined, Ended, Ready
<1>4. Roles'
  BY <1>1, <1>2 DEF Inv, Types, CallStates, RenewerStates, Roles, SameCalls, Tracking,
     Undoing, NoEntry, At, Script, Asyncio, SyncClosed, Joined, Ended, Ready
<1>5. Halting'
  BY <1>2, CallSlots DEF Inv, Types, CallStates, RenewerStates, TrackedRenewer, Halting,
     Tracking, NoEntry, Renewers, RenewerOf, Mine, At, Free, SyncClosed, Joined, Ended,
     Ready
<1>6. ~Undisturbed'
  BY <1>1, <1>2 DEF Inv, Types, CallStates, RenewerStates, Roles, SameCalls, Undoing, At,
     Script, Undisturbed, Begun, SyncClosed, Joined, Ended, Ready
<1> QED BY <1>2, <1>3, <1>4, <1>5, <1>6 DEF Inv, Kept

LEMMA SendDeleteInv ==
  ASSUME Inv, NEW c \in Callers, SendDelete(c)
  PROVE  Inv'
<1>1. SameCalls /\ now' = now
  BY SpendKeepsCalls DEF Inv, SameCalls, gatewayOnly, SendDelete
<1>2. Types'
  BY <1>1 DEF Inv, Types, CallStates, RenewerStates, SameCalls, Tracking, Undoing,
     NoEntry, At, Renewers, RenewerOf, Mine, SendDelete, To
<1>3. TrackedRenewer'
  BY <1>2 DEF Inv, Types, CallStates, RenewerStates, TrackedRenewer, Halting, At,
     Tracking, NoEntry, Renewers, RenewerOf, Mine, SendDelete, To
<1>4. Roles'
  BY <1>1, <1>2 DEF Inv, Types, CallStates, RenewerStates, Roles, SameCalls, Tracking,
     Undoing, NoEntry, At, Script, Asyncio, SendDelete, To
<1>5. Halting'
  BY <1>2, CallSlots DEF Inv, Types, CallStates, RenewerStates, TrackedRenewer, Halting,
     Tracking, NoEntry, Renewers, RenewerOf, Mine, At, Free, SendDelete, To
<1>6. ~Undisturbed'
  BY <1>1, <1>2 DEF Inv, Types, CallStates, RenewerStates, Roles, SameCalls, Undoing, At,
     Script, Undisturbed, Begun, SendDelete, To
<1> QED BY <1>2, <1>3, <1>4, <1>5, <1>6 DEF Inv, Kept

LEMMA DeletedInv ==
  ASSUME Inv, NEW c \in Callers, Deleted(c)
  PROVE  Inv'
<1>1. SameCalls /\ now' = now
  BY SpendKeepsCalls DEF Inv, SameCalls, gatewayOnly, Deleted, CallFails
<1>2. PICK ok \in BOOLEAN : Ended(c, ok)
  BY DEF Deleted
<1>3. At(c, "deleting") /\ Types /\ UNCHANGED <<entry, future, renewer, lock, closed>>
  BY DEF Deleted, Inv
<1> DEFINE x == [Ready EXCEPT !.pc = "ended", !.ok = ok]
<1>4. x \in CallStates /\ x.pc = "ended" /\ call' = [call EXCEPT ![c] = x]
  BY <1>2 DEF CallStates, Ready, Ended
<1> HIDE DEF x
<1>5. /\ call' \in [Callers -> CallStates] /\ call'[c] = x
      /\ \A d \in Callers : d # c => call'[d] = call[d]
  BY <1>3, <1>4, CallMoves
<1>6. Types' /\ TrackedRenewer' /\ Halting'
  BY <1>1, <1>3, <1>4, <1>5 DEF Inv, Types, TrackedRenewer, Halting, SameCalls
<1>7. Roles'
  BY <1>1, <1>3, <1>4, <1>5 DEF Inv, Roles, SameCalls, At, Script, Asyncio, Undoing
<1>8. ~Undisturbed'
  BY <1>1, <1>3, <1>4, <1>5
     DEF Inv, Roles, SameCalls, At, Script, Undoing, Undisturbed, Begun
<1> QED BY <1>6, <1>7, <1>8 DEF Inv, Kept

LEMMA RenewalDueInv ==
  ASSUME Inv, NEW r \in Renewers, RenewalDue(r)
  PROVE  Inv'
<1>1. SameCalls /\ now' = now
  BY SpendKeepsCalls DEF Inv, SameCalls, gatewayOnly, RenewalDue
<1>2. Types'
  BY <1>1 DEF Inv, Types, CallStates, RenewerStates, SameCalls, Tracking, Undoing,
     NoEntry, At, Renewers, RenewerOf, Mine, RenewalDue
<1>3. TrackedRenewer'
  BY <1>2 DEF Inv, Types, CallStates, RenewerStates, TrackedRenewer, Halting, At,
     Tracking, NoEntry, Renewers, RenewerOf, Mine, RenewalDue
<1>4. Roles'
  BY <1>1, <1>2 DEF Inv, Types, CallStates, RenewerStates, Roles, SameCalls, Tracking,
     Undoing, NoEntry, At, Script, Asyncio, RenewalDue
<1>5. Halting'
  BY <1>2, CallSlots DEF Inv, Types, CallStates, RenewerStates, TrackedRenewer, Halting,
     Tracking, NoEntry, Renewers, RenewerOf, Mine, At, Free, RenewalDue
<1>6. Undisturbed' => Undisturbed
  BY <1>1, <1>2 DEF Inv, Types, CallStates, RenewerStates, SameCalls, At, Script,
     Undisturbed, Begun, RenewalDue
<1>7. Kept'
  BY <1>1, <1>2, <1>6 DEF Inv, Types, CallStates, RenewerStates, Roles, Kept, Returned,
     SameCalls, Tracking, NoEntry, Renewers, RenewerOf, Mine, At, Script, Asyncio,
     RenewalDue
<1> QED BY <1>2, <1>3, <1>4, <1>5, <1>7 DEF Inv

LEMMA RenewalAnsweredInv ==
  ASSUME Inv, NEW r \in Renewers, RenewalAnswered(r)
  PROVE  Inv'
<1>1. SameCalls /\ now' = now
  BY SpendKeepsCalls DEF Inv, SameCalls, gatewayOnly, RenewalAnswered, CallFails
<1>2. Types'
  BY <1>1 DEF Inv, Types, CallStates, RenewerStates, SameCalls, Tracking, Undoing,
     NoEntry, At, Renewers, RenewerOf, Mine, RenewalAnswered
<1>3. TrackedRenewer'
  BY <1>2 DEF Inv, Types, CallStates, RenewerStates, TrackedRenewer, Halting, At,
     Tracking, NoEntry, Renewers, RenewerOf, Mine, RenewalAnswered
<1>4. Roles'
  BY <1>1, <1>2 DEF Inv, Types, CallStates, RenewerStates, Roles, SameCalls, Tracking,
     Undoing, NoEntry, At, Script, Asyncio, RenewalAnswered
<1>5. Halting'
  BY <1>2, CallSlots DEF Inv, Types, CallStates, RenewerStates, TrackedRenewer, Halting,
     Tracking, NoEntry, Renewers, RenewerOf, Mine, At, Free, RenewalAnswered
<1>6. Undisturbed' => Undisturbed
  BY <1>1, <1>2 DEF Inv, Types, CallStates, RenewerStates, SameCalls, At, Script,
     Undisturbed, Begun, RenewalAnswered
<1>7. Kept'
  BY <1>1, <1>2, <1>6 DEF Inv, Types, CallStates, RenewerStates, Roles, Kept, Returned,
     SameCalls, Tracking, NoEntry, Renewers, RenewerOf, Mine, At, Script, Asyncio,
     RenewalAnswered
<1> QED BY <1>2, <1>3, <1>4, <1>5, <1>7 DEF Inv

LEMMA ThreadStopsInv ==
  ASSUME Inv, NEW r \in Renewers, ThreadStops(r)
  PROVE  Inv'
<1>1. SameCalls /\ now' = now
  BY SpendKeepsCalls DEF Inv, SameCalls, gatewayOnly, ThreadStops
<1>2. Types'
  BY <1>1 DEF Inv, Types, CallStates, RenewerStates, SameCalls, Tracking, Undoing,
     NoEntry, At, Renewers, RenewerOf, Mine, ThreadStops, Off
<1>3. TrackedRenewer'
  BY <1>2 DEF Inv, Types, CallStates, RenewerStates, TrackedRenewer, Halting, At,
     Tracking, NoEntry, Renewers, RenewerOf, Mine, ThreadStops, Off
<1>4. Roles'
  BY <1>1, <1>2 DEF Inv, Types, CallStates, RenewerStates, Roles, SameCalls, Tracking,
     Undoing, NoEntry, At, Script, Asyncio, ThreadStops, Off
<1>5. Halting'
  BY <1>2, CallSlots DEF Inv, Types, CallStates, RenewerStates, TrackedRenewer, Halting,
     Tracking, NoEntry, Renewers, RenewerOf, Mine, At, Free, ThreadStops, Off
<1>6. Undisturbed' => Undisturbed
  BY <1>1, <1>2 DEF Inv, Types, CallStates, RenewerStates, SameCalls, At, Script,
     Undisturbed, Begun, ThreadStops, Off
<1>7. Kept'
  BY <1>1, <1>2, <1>6 DEF Inv, Types, CallStates, RenewerStates, Roles, Kept, Returned,
     SameCalls, Tracking, NoEntry, Renewers, RenewerOf, Mine, At, Script, Asyncio,
     ThreadStops, Off
<1> QED BY <1>2, <1>3, <1>4, <1>5, <1>7 DEF Inv

LEMMA ClientExitInv ==
  ASSUME Inv, ClientExit
  PROVE  Inv'
<1>1. SameCalls /\ now' = now
  BY SpendKeepsCalls DEF Inv, SameCalls, gatewayOnly, ClientExit
<1>2. [Ready EXCEPT !.pc = "ended"] \in CallStates /\ Off \in RenewerStates
  BY DEF Ready, Off, CallStates, RenewerStates
<1>3. Types'
  BY <1>1, <1>2 DEF Inv, Types, SameCalls, ClientExit
<1>4. TrackedRenewer' /\ Halting'
  BY DEF TrackedRenewer, Halting, ClientExit, Ready, Off
<1>5. Roles'
  BY DEF Roles, At, ClientExit, Ready, Undoing, NoEntry
<1> QED BY <1>3, <1>4, <1>5 DEF Inv, Kept, Undisturbed, ClientExit

LEMMA StepInv ==
  ASSUME Inv, Next
  PROVE  Inv'
<1>1. CASE Server
  BY <1>1, ServerKeepsClient, IdleClientKeepsInv DEF Inv
<1>2. CASE ClientStep
  BY <1>2, AsyncCreateJoinedInv, AsyncCreatedInv, AsyncCreateFailedInv,
     AsyncDeleteWaitedInv, AsyncClosedInv, SyncCreatedInv, SyncCreateFailedInv,
     SyncDeleteJoinedInv, SyncClosedInv, SendDeleteInv, DeletedInv, RenewalDueInv,
     RenewalAnsweredInv, ThreadStopsInv
     DEF ClientStep
<1>3. CASE ClientBegins
  BY <1>3, AsyncCreateInv, AsyncDeleteInv, AsyncCloseInv, AsyncCreateCancelledInv,
     AsyncDeleteCancelledInv,
     SyncCreateInv, SyncDeleteInv, SyncCloseInv, ClientExitInv
     DEF ClientBegins
<1> QED BY <1>1, <1>2, <1>3 DEF Next

\* The client keeps its books on every step of a client, a gateway or a fault.
THEOREM ClientInvariant == Spec => []Inv
<1>1. Init => Inv
  <2> SUFFICES ASSUME Init PROVE Inv
    OBVIOUS
  <2>1. Ready \in CallStates /\ Off \in RenewerStates
    BY DEF Ready, Off, CallStates, RenewerStates
  <2>2. Types
    BY <2>1, WorldsSayWhoCalls DEF Init, PoolInit, ClientInit, Types
  <2>3. TrackedRenewer /\ Halting
    BY DEF Init, ClientInit, TrackedRenewer, Halting, Ready, Off
  <2>4. Roles /\ Kept
    BY DEF Init, ClientInit, Roles, Kept, Returned, At, Ready, Off, NoEntry, Undoing
  <2> QED BY <2>2, <2>3, <2>4 DEF Inv
<1>2. Inv /\ [Next]_vars => Inv'
  <2>1. Inv /\ UNCHANGED vars => Inv'
    BY IdleClientKeepsInv DEF vars, poolVars, SameCalls, Inv, Types
  <2> QED BY <2>1, StepInv
<1> QED BY <1>1, <1>2, PTL DEF Spec

\* The client never renews a pool from two tasks or threads at once, for any
\* number of concurrent create_pool, delete_pool and close calls.
THEOREM OneRenewer == Spec => []AtMostOneRenewer
<1>1. Inv => AtMostOneRenewer
  BY DEF Inv, TrackedRenewer, AtMostOneRenewer, Tracking
<1> QED BY <1>1, ClientInvariant, PTL

\* Once a create_pool call returned, a task or thread renews the pool until
\* somebody deletes it or closes the client.
THEOREM CreatedIsRenewed == Spec => []CreatedPoolIsRenewed
<1>1. Inv => CreatedPoolIsRenewed
  BY DEF Inv, Kept, CreatedPoolIsRenewed, Undisturbed, Returned
<1> QED BY <1>1, ClientInvariant, PTL
===============================================================================
