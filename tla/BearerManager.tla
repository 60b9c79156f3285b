--------------------------- MODULE BearerManager ---------------------------
(* The admin bearer (internal/core/bearer, admin/settings.go): one value in  *)
(* memory, its predecessor for a grace window, and the row that survives a   *)
(* restart.  Rotations take no lock: each field is an atomic of its own, so  *)
(* a rotation is one step per store, and a caller's check one per load.      *)
EXTENDS Integers, FiniteSets

CONSTANTS
    Bearers,       \* the values in play
    Toml,          \* the one the configuration file holds
    Absent,        \* no row, no previous bearer
    Rotators,      \* concurrent POST /settings/bearer/rotate requests
    GraceWindow,   \* how long the replaced bearer stays valid
    MaxClock, MaxRotations, MaxBoots

ASSUME BearerAssumption ==
    /\ Toml \in Bearers /\ Absent \notin Bearers
    /\ IsFiniteSet(Rotators) /\ GraceWindow \in Nat \ {0} /\ MaxClock \in Nat
    /\ MaxRotations \in Nat /\ MaxBoots \in Nat

VARIABLES
    current, previous, prevExpiry,   \* Manager's atomics
    stored,        \* the system_settings row
    rot,           \* rotator -> [pc, new, old]
    check,         \* one caller presenting the bearer it knows to be current
    time, rotations, boots,
    lastCurrent,   \* bearer -> the last time it was current (history)
    crossed        \* two rotations were under way at once (history)

bearerVars == <<current, previous, prevExpiry, stored, rot, check, time,
                rotations, boots, lastCurrent, crossed>>

Idle == [pc |-> "idle", new |-> Toml, old |-> Toml]
NoCheck == [pc |-> "none", cand |-> Toml, live |-> FALSE, touched |-> 0]
Never == 0 - GraceWindow - 1     \* longer ago than any window reaches
Mid == {o \in Rotators: rot[o].pc # "idle"}
InMemory == {o \in Rotators: rot[o].pc \in {"prev", "expiry", "swap"}}

\* Load: the row when there is one, else the file's value.
Load(row) == IF row = Absent THEN Toml ELSE row

BearerInit ==
    /\ stored = Absent /\ current = Load(Absent)
    /\ previous = Absent /\ prevExpiry = 0
    /\ rot = [o \in Rotators |-> Idle] /\ check = NoCheck
    /\ time = 0 /\ rotations = 0 /\ boots = 0 /\ crossed = FALSE
    /\ lastCurrent = [b \in Bearers |-> IF b = Toml THEN 0 ELSE Never]

PreviousIfActive == IF time < prevExpiry THEN previous ELSE Absent
Accepts(b) == b = current \/ b = PreviousIfActive

\* RotateBearer: the body repeats an accepted bearer; the new one is supplied
\* or generated, and passed ValidateBearer.
RotateBearer(o, shown, new) ==
    /\ rot[o].pc = "idle" /\ rotations < MaxRotations
    /\ Accepts(shown)
    /\ rot' = [rot EXCEPT ![o] = [Idle EXCEPT !.pc = "persist", !.new = new]]
    /\ rotations' = rotations + 1
    /\ crossed' = (crossed \/ Mid # {})
    /\ UNCHANGED <<current, previous, prevExpiry, stored, check, time, boots, lastCurrent>>

Persist(o) ==
    /\ rot[o].pc = "persist"
    /\ stored' = rot[o].new
    /\ rot' = [rot EXCEPT ![o].pc = "old"]
    /\ UNCHANGED <<current, previous, prevExpiry, check, time, rotations, boots, lastCurrent, crossed>>

PersistFails(o) ==
    /\ rot[o].pc = "persist"
    /\ rot' = [rot EXCEPT ![o] = Idle]
    /\ UNCHANGED <<current, previous, prevExpiry, stored, check, time, rotations, boots, lastCurrent, crossed>>

ReadOld(o) ==
    /\ rot[o].pc = "old"
    /\ rot' = [rot EXCEPT ![o].pc = "prev", ![o].old = current]
    /\ UNCHANGED <<current, previous, prevExpiry, stored, check, time, rotations, boots, lastCurrent, crossed>>

Replaces(o) == rot[o].old # rot[o].new

StorePreviousAfterSwap(o) ==
    /\ rot[o].pc = "prev"
    /\ current' = rot[o].new
    /\ lastCurrent' = [lastCurrent EXCEPT ![current] = time, ![rot[o].new] = time]
    /\ previous' = previous
    /\ rot' = [rot EXCEPT ![o].pc = "expiry"]
    /\ check' = [check EXCEPT !.touched = IF @ < 2 THEN @ + 1 ELSE @]
    /\ UNCHANGED <<prevExpiry, stored, time, rotations, boots, crossed>>

StorePrevious(o) ==
    /\ rot[o].pc = "prev"
    /\ previous' = IF Replaces(o) THEN rot[o].old ELSE Absent
    /\ rot' = [rot EXCEPT ![o].pc = "expiry"]
    /\ check' = [check EXCEPT !.touched = IF @ < 2 THEN @ + 1 ELSE @]
    /\ UNCHANGED <<current, prevExpiry, stored, time, rotations, boots, lastCurrent, crossed>>

StoreExpiry(o) ==
    /\ rot[o].pc = "expiry"
    /\ prevExpiry' = IF Replaces(o) THEN time + GraceWindow ELSE 0
    /\ rot' = [rot EXCEPT ![o].pc = "swap"]
    /\ UNCHANGED <<current, previous, stored, check, time, rotations, boots, lastCurrent, crossed>>

SetCurrent(o) ==
    /\ rot[o].pc = "swap"
    /\ current' = rot[o].new
    /\ rot' = [rot EXCEPT ![o] = Idle]
    /\ lastCurrent' = [lastCurrent EXCEPT ![current] = time, ![rot[o].new] = time]
    /\ UNCHANGED <<previous, prevExpiry, stored, check, time, rotations, boots, crossed>>

\* Accepts, load by load: current, then the deadline, then the previous one.
\* The caller holds the bearer that is current when its request arrives.
CheckCurrent ==
    /\ check.pc \in {"none", "ok", "refused"}
    /\ check' = [pc |-> "current", cand |-> current, live |-> FALSE,
                 touched |-> Cardinality({o \in Rotators: rot[o].pc \in {"expiry", "swap"}})]
    /\ UNCHANGED <<current, previous, prevExpiry, stored, rot, time, rotations, boots, lastCurrent, crossed>>
CheckDeadline ==
    /\ check.pc = "current"
    /\ check' = [check EXCEPT !.pc = IF check.cand = current THEN "ok" ELSE "deadline"]
    /\ UNCHANGED <<current, previous, prevExpiry, stored, rot, time, rotations, boots, lastCurrent, crossed>>
CheckPrevious ==
    /\ check.pc = "deadline"
    /\ check' = [check EXCEPT !.pc = "previous", !.live = time < prevExpiry]
    /\ UNCHANGED <<current, previous, prevExpiry, stored, rot, time, rotations, boots, lastCurrent, crossed>>
CheckVerdict ==
    /\ check.pc = "previous"
    /\ check' = [check EXCEPT !.pc = IF check.live /\ previous = check.cand THEN "ok" ELSE "refused"]
    /\ UNCHANGED <<current, previous, prevExpiry, stored, rot, time, rotations, boots, lastCurrent, crossed>>

\* A clock unit is far longer than a run of loads and stores; only the
\* database write of a rotation takes time.
BearerTick ==
    /\ time < MaxClock /\ InMemory = {} /\ check.pc \notin {"current", "deadline", "previous"}
    /\ time' = time + 1
    /\ lastCurrent' = [lastCurrent EXCEPT ![current] = time + 1]
    /\ UNCHANGED <<current, previous, prevExpiry, stored, rot, check, rotations, boots, crossed>>

\* The process dies at any point and boots again from the row.
Reboot ==
    /\ boots < MaxBoots
    /\ boots' = boots + 1
    /\ current' = Load(stored) /\ previous' = Absent /\ prevExpiry' = 0
    /\ rot' = [o \in Rotators |-> Idle] /\ check' = NoCheck /\ crossed' = FALSE
    /\ lastCurrent' = [lastCurrent EXCEPT ![Load(stored)] = time]
    /\ UNCHANGED <<stored, time, rotations>>

BearerNext ==
    \/ \E o \in Rotators:
        \/ \E shown, new \in Bearers: RotateBearer(o, shown, new)
        \/ Persist(o) \/ PersistFails(o) \/ ReadOld(o)
        \/ StorePrevious(o) \/ StoreExpiry(o) \/ SetCurrent(o)
    \/ CheckCurrent \/ CheckDeadline \/ CheckPrevious \/ CheckVerdict
    \/ BearerTick \/ Reboot

\* The bearer by itself, as the proofs take it.
BearerSpec == BearerInit /\ [][BearerNext]_bearerVars
----------------------------------------------------------------------------
(* A bearer that is accepted without being current was current less than a *)
(* grace window ago: no interleaving of the unlocked stores of two          *)
(* rotations, and no restart, keeps a replaced bearer alive longer.         *)
GraceBounded ==
    \A b \in Bearers: Accepts(b) => b = current \/ time - lastCurrent[b] < GraceWindow

(* The order previous, expiry, current leaves no gap: a caller holding the  *)
(* bearer that was current when its request arrived is refused only if two  *)
(* rotations replaced bearers under it, or rotations ran at once.           *)
NoFalseRefusal == check.pc = "refused" => check.touched >= 2 \/ crossed

(* Between rotations the bearer in memory is the one a restart would load,  *)
(* unless two rotations ran at once: a failed write changes neither, and a  *)
(* crash between the write and the swap is healed by the boot.              *)
SurvivesRestart == Mid = {} /\ ~crossed => current = Load(stored)

(* A rotation neither keeps a bearer too long nor refuses one too soon, and *)
(* a restart in the middle of one changes nothing.                          *)
RotationSafe == GraceBounded /\ NoFalseRefusal /\ SurvivesRestart
============================================================================
