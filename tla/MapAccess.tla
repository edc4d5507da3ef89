------------------------------ MODULE MapAccess ------------------------------
(***************************************************************************)
(* The lock discipline around the Go maps the redis server shares between  *)
(* connection goroutines: KvStore.values and KvStore.expiries under        *)
(* KvStore.mu (a sync.RWMutex, store/kv_store.go), and HostContext.TxQueue *)
(* under HostContext.mu (a sync.Mutex, cmd/main.go).                       *)
(*                                                                         *)
(* Each method is its program: the lock calls and map accesses it makes,   *)
(* in order.  An access takes two steps, its start and its end, so the     *)
(* accesses of two goroutines can overlap.  What the maps hold is left     *)
(* out; the Go runtime rule is that a map write overlapping any other      *)
(* access of that map is a fatal error.                                    *)
(***************************************************************************)
EXTENDS Integers, Sequences

CONSTANTS
    Procs,     \* connection goroutines
    Methods,   \* the methods they may call (names below)
    None       \* no goroutine / no access

Mutexes == {"store", "host"}
Maps == {"values", "expiries", "txQueue"}

RLock(mu) == [op |-> "rlock", mu |-> mu]
RUnlock(mu) == [op |-> "runlock", mu |-> mu]
Lock(mu) == [op |-> "lock", mu |-> mu]
Unlock(mu) == [op |-> "unlock", mu |-> mu]
Read(m) == [op |-> "access", map |-> m, write |-> FALSE]
Write(m) == [op |-> "access", map |-> m, write |-> TRUE]

(* KvStore.Get of a key whose expiry has passed: the delete of the expiry *)
(* happens under the read lock.                                            *)
GetExpired == <<RLock("store"), Read("expiries"), Write("expiries"), RUnlock("store")>>
GetLive == <<RLock("store"), Read("expiries"), Read("values"), RUnlock("store")>>
List == <<RLock("store"), Read("values"), RUnlock("store")>>
SetPx == <<Lock("store"), Write("expiries"), Write("values"), Unlock("store")>>
Set == <<Lock("store"), Write("values"), Unlock("store")>>
(* HostContext: IsInTransaction reads TxQueue without h.mu.               *)
IsInTransaction == <<Read("txQueue")>>
BeginTransaction == <<Lock("host"), Write("txQueue"), Unlock("host")>>
QueueCommand == <<Lock("host"), Read("txQueue"), Write("txQueue"), Unlock("host")>>
ConsumeTransactionQueue == <<Lock("host"), Read("txQueue"), Write("txQueue"), Unlock("host")>>

Program(name) ==
    CASE name = "GetExpired" -> GetExpired [] name = "GetLive" -> GetLive
      [] name = "List" -> List [] name = "SetPx" -> SetPx [] name = "Set" -> Set
      [] name = "IsInTransaction" -> IsInTransaction
      [] name = "BeginTransaction" -> BeginTransaction
      [] name = "QueueCommand" -> QueueCommand
      [] name = "ConsumeTransactionQueue" -> ConsumeTransactionQueue

VARIABLES
    prog,      \* [Procs -> the program of the method running, <<>> if none]
    ip,        \* [Procs -> index of its next instruction]
    accessing, \* [Procs -> the access under way, or None]
    readers,   \* [Mutexes -> goroutines holding the read lock]
    writer     \* [Mutexes -> the goroutine holding the lock, or None]

vars == <<prog, ip, accessing, readers, writer>>

Instr(p) == prog[p][ip[p]]

(* A goroutine between commands calls a method.                            *)
Call(p, name) ==
    /\ prog[p] = <<>>
    /\ prog' = [prog EXCEPT ![p] = Program(name)]
    /\ ip' = [ip EXCEPT ![p] = 1]
    /\ UNCHANGED <<accessing, readers, writer>>

Advance(p) ==
    IF ip[p] = Len(prog[p])
    THEN prog' = [prog EXCEPT ![p] = <<>>] /\ UNCHANGED ip
    ELSE ip' = [ip EXCEPT ![p] = @ + 1] /\ UNCHANGED prog

(* sync.RWMutex and sync.Mutex: RLock waits for no writer, Lock for no    *)
(* writer and no reader.                                                   *)
LockStep(p) ==
    LET i == Instr(p) IN
    /\ prog[p] # <<>>
    /\ i.op \in {"rlock", "runlock", "lock", "unlock"}
    /\ CASE i.op = "rlock" -> /\ writer[i.mu] = None
                              /\ readers' = [readers EXCEPT ![i.mu] = @ \cup {p}]
                              /\ UNCHANGED writer
         [] i.op = "runlock" -> readers' = [readers EXCEPT ![i.mu] = @ \ {p}]
                                /\ UNCHANGED writer
         [] i.op = "lock" -> /\ writer[i.mu] = None /\ readers[i.mu] = {}
                             /\ writer' = [writer EXCEPT ![i.mu] = p]
                             /\ UNCHANGED readers
         [] i.op = "unlock" -> writer' = [writer EXCEPT ![i.mu] = None]
                               /\ UNCHANGED readers
    /\ Advance(p)
    /\ UNCHANGED accessing

StartAccess(p) ==
    /\ prog[p] # <<>>
    /\ Instr(p).op = "access"
    /\ accessing[p] = None
    /\ accessing' = [accessing EXCEPT ![p] = [map |-> Instr(p).map, write |-> Instr(p).write]]
    /\ UNCHANGED <<prog, ip, readers, writer>>

EndAccess(p) ==
    /\ accessing[p] # None
    /\ accessing' = [accessing EXCEPT ![p] = None]
    /\ Advance(p)
    /\ UNCHANGED <<readers, writer>>

Init ==
    /\ prog = [p \in Procs |-> <<>>]
    /\ ip = [p \in Procs |-> 1]
    /\ accessing = [p \in Procs |-> None]
    /\ readers = [mu \in Mutexes |-> {}]
    /\ writer = [mu \in Mutexes |-> None]

Next ==
    \E p \in Procs :
        \/ \E name \in Methods : Call(p, name)
        \/ LockStep(p) \/ StartAccess(p) \/ EndAccess(p)

Spec == Init /\ [][Next]_vars

TypeOK ==
    /\ \A p \in Procs : accessing[p] = None \/ accessing[p].map \in Maps
    /\ \A mu \in Mutexes : readers[mu] \subseteq Procs /\ writer[mu] \in Procs \cup {None}

(* A map write never overlaps another access of the same map (the Go      *)
(* memory model; the runtime aborts the process on "concurrent map writes" *)
(* or "concurrent map read and map write").  KvStore.Get deletes an expiry *)
(* under the read lock, and IsInTransaction reads TxQueue without h.mu.    *)
MapAccessesExclusive ==
    \A p, q \in Procs :
        /\ p # q /\ accessing[p] # None /\ accessing[q] # None
        /\ accessing[p].map = accessing[q].map
        => ~accessing[p].write /\ ~accessing[q].write
=============================================================================
