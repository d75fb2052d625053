--------------------------------- MODULE Ipmi ---------------------------------
(***************************************************************************)
(* Several calls of the IPMI service at once (services/ipmi.go, services/  *)
(* driver_registry.go, services/drivers/).  A call runs ipmitool once per  *)
(* command; the board obeys its own vendor's commands, and any command may *)
(* fail, with or without effect.  Readers share one reading of the speeds; *)
(* writes to an ASRock board carry the speeds of all its fans.  The        *)
(* service's lock is held for reading while a command runs, so a step that *)
(* takes it for writing waits for the commands, and no command starts while*)
(* one waits.  main gives the service a driver before any of these calls,  *)
(* so the paths without a driver are not modelled.                         *)
(***************************************************************************)
EXTENDS Integers, Sequences, FiniteSets

CONSTANTS
    Caller,         \* calls that may be under way together
    World           \* [vendor, hwmon, faults, calls]: see Init

Vendor == {"Hwmon", "ASRock", "Dell", "Supermicro", "Generic"}

\* What a board keeps a speed for: a fan of an ASRock board (3 stands for the
\* fans no zone has), a zone of a Dell or Supermicro board.
Cell == 0..3
Untouched == 20     \* what the firmware left in a cell

VARIABLES
    world,
    board,          \* speed of each cell, as its vendor's commands count it
    mode,           \* whether the board was told to leave the fans to us
    driver,         \* the service's driver
    active,         \* the registry's, whose zones profiles are validated with
    tracked,        \* the ASRock driver's currentSpeeds, in percent
    speeds, readings,          \* the caches: none, old or fresh
    inflight, waiters,         \* a read of the speeds is under way; who waits
    op, stage,      \* what each caller does, and where it is
    mine,           \* the driver it took
    todo,           \* the commands it has yet to run
    args,           \* the speeds of its ASRock command, as far as built
    failed,         \* history: who waited for a read that failed
    lone,           \* history: no other write was under way with its own
    last            \* history: the last write that ended with none under way

driverVars == <<driver, active>>
boardVars == <<board, mode>>
cacheVars == <<speeds, readings, inflight, waiters, failed>>
callVars == <<op, mine, todo, args>>
lastVars == <<lone, last>>
vars == <<world, boardVars, driverVars, tracked, cacheVars, callVars, stage, lastVars>>

Idle == [kind |-> "none"]
NoWrite == [kind |-> "none"]
Writes == {"zone", "all", "mode", "identify", "detect", "select"}
Writing(c) == op[c].kind \in Writes

\* The steps that take the service's lock for writing, once they ask for it.
Asked == [speeds |-> "speedsAsked", publish |-> "publishAsked",
          unlead |-> "unleadAsked", store |-> "storeAsked", install |-> "installAsked"]
Locking == {Asked[here] : here \in DOMAIN Asked}

At(c, here, there) == stage[c] = here /\ stage' = [stage EXCEPT ![c] = there]

-----------------------------------------------------------------------------
(* What may be asked of the service.                                       *)

ProperCall(o) ==
    /\ o.kind \in {"readings", "detect", "select", "zone", "all", "mode", "identify"}
    /\ o.kind = "select" => o.vendor \in Vendor
    /\ o.kind \in {"zone", "identify"} => o.zone \in Nat
    /\ o.kind \in {"zone", "all"} => o.percent \in Int
    /\ o.kind = "mode" => o.enabled \in BOOLEAN

\* A board is of one vendor; one of Dell or Supermicro has a cell for each zone
\* that is asked for.
ASSUME IpmiAssumption ==
    /\ IsFiniteSet(Caller)
    /\ \A w \in World :
          /\ w.vendor \in Vendor \ {"Hwmon"} /\ w.hwmon \in BOOLEAN /\ w.faults \in BOOLEAN
          /\ \A c \in Caller : \A o \in w.calls[c] :
                /\ ProperCall(o)
                /\ w.vendor \in {"Dell", "Supermicro"} /\ o.kind \in {"zone", "identify"} =>
                      o.zone \in Cell

-----------------------------------------------------------------------------
(* Commands.                                                               *)

\* Hardware speeds of the Dell and Supermicro commands: 0 to 255.
Byte(percent) == (percent * 255) \div 100
Clamped(percent) == IF percent < 0 THEN 0 ELSE IF percent > 100 THEN 100 ELSE percent

Speed(v, cells, value) == [vendor |-> v, kind |-> "speed", cells |-> cells, value |-> value]
Mode(v, to) == [vendor |-> v, kind |-> "mode", value |-> to]
Read(v) == [vendor |-> v, kind |-> "read"]
Whole == [vendor |-> "ASRock", kind |-> "whole"]

\* A zone an ASRock board does not have means all of its fans that have one.
GetFansInZone(zone) == IF zone = 0 THEN {0} ELSE IF zone = 1 THEN {1, 2} ELSE {0, 1, 2}

\* The commands of each driver for a write; hwmon's are HwmonDriver's.  The
\* Supermicro driver loops over its zones, Generic has none of its own.
DellSpeed(zone, percent) == <<Speed("Dell", {zone}, Byte(percent))>>
DellAll(percent) == <<Speed("Dell", Cell, Byte(percent))>>
DellMode(enabled) == <<Mode("Dell", IF enabled THEN "manual" ELSE "auto")>>

SupermicroSpeed(zone, percent) == <<Speed("Supermicro", {zone}, Byte(percent))>>
SupermicroAll(percent) == [n \in 1..4 |-> SupermicroSpeed(n - 1, percent)[1]]
SupermicroMode(enabled) == <<Mode("Supermicro", IF enabled THEN "manual" ELSE "auto")>>

ASRockMode(enabled) == <<Mode("ASRock", IF enabled THEN "manual" ELSE "auto")>>
GenericAll(percent) == <<Speed("Generic", Cell, percent)>>

SetFanSpeed(v, zone, percent) ==
    CASE v = "ASRock" -> <<Whole>>
      [] v = "Dell" -> DellSpeed(zone, percent)
      [] v = "Supermicro" -> SupermicroSpeed(zone, percent)
      [] v = "Generic" -> GenericAll(percent)
      [] OTHER -> <<>>

SetAllFanSpeeds(v, percent) ==
    CASE v = "ASRock" -> <<Whole>>
      [] v = "Dell" -> DellAll(percent)
      [] v = "Supermicro" -> SupermicroAll(percent)
      [] v = "Generic" -> GenericAll(percent)
      [] OTHER -> <<>>

SetManualMode(v, enabled) ==
    CASE v = "ASRock" -> ASRockMode(enabled)
      [] v = "Dell" -> DellMode(enabled)
      [] v = "Supermicro" -> SupermicroMode(enabled)
      [] OTHER -> <<>>

\* CanDetect of each driver, which together are a detection's probes: an ASRock
\* board gives a name and, unless that says it, its duties; a Dell or Supermicro
\* board obeys one of two commands, both of them writes.
Name == [vendor |-> "ASRock", kind |-> "name"]
ASRockProbes == <<Name, Read("ASRock")>>
DellProbes == <<Mode("Dell", "manual"), Speed("Dell", {0}, 50)>>
SupermicroProbes == <<Mode("Supermicro", "manual"), Speed("Supermicro", {0}, 50)>>
CanDetect == ASRockProbes \o DellProbes \o SupermicroProbes

\* What the commands of a write are.
Plan(v, o) ==
    CASE o.kind = "zone" -> SetFanSpeed(v, o.zone, Clamped(o.percent))
      [] o.kind = "all" -> SetAllFanSpeeds(v, Clamped(o.percent))
      [] o.kind = "mode" -> SetManualMode(v, o.enabled)
      [] o.kind = "identify" -> SetManualMode(v, TRUE)

\* Reading the sensors and the management controller is no vendor's own.
Obeyed(cmd) == cmd.vendor \in {"any", world.vendor}

\* What a command does to the board.
Apply(c, cmd) ==
    CASE cmd.kind = "speed" ->
             /\ board' = [f \in Cell |-> IF f \in cmd.cells THEN cmd.value ELSE board[f]]
             /\ UNCHANGED mode
      [] cmd.kind = "whole" -> board' = [f \in Cell |-> args[c][f + 1]] /\ UNCHANGED mode
      [] cmd.kind = "mode" -> mode' = cmd.value /\ UNCHANGED board
      [] cmd.kind \in {"read", "name"} -> UNCHANGED boardVars

-----------------------------------------------------------------------------
(* A call begins and ends.                                                 *)

\* Lone writes are what the properties are about.
Begins(c, o) ==
    /\ op' = [op EXCEPT ![c] = o]
    /\ IF o.kind \in Writes
       THEN /\ last' = NoWrite
            /\ lone' = IF \E d \in Caller : Writing(d)
                       THEN [d \in Caller |-> FALSE] ELSE [lone EXCEPT ![c] = TRUE]
       ELSE UNCHANGED lastVars

\* Its results are of no use to the next call.
Forgets(c, ok) ==
    /\ op' = [op EXCEPT ![c] = Idle]
    /\ mine' = [mine EXCEPT ![c] = "none"]
    /\ todo' = [todo EXCEPT ![c] = <<>>]
    /\ args' = [args EXCEPT ![c] = <<>>]
    /\ failed' = failed \ {c}
    /\ lone' = [lone EXCEPT ![c] = FALSE]
    /\ last' = IF ~lone[c] THEN last
               ELSE [kind |-> op[c].kind, call |-> op[c], driver |-> mine[c], ok |-> ok]

Ends(c, ok) == stage' = [stage EXCEPT ![c] = "idle"] /\ Forgets(c, ok)

Call(c) ==
    /\ stage[c] = "idle"
    /\ \E o \in world.calls[c] :
           /\ Begins(c, o)
           /\ stage' = [stage EXCEPT ![c] =
                 CASE o.kind = "readings" -> "cached" [] o.kind = "detect" -> "probe"
                   [] o.kind = "select" -> "install" [] OTHER -> "take"]
           /\ mine' = IF o.kind = "select" THEN [mine EXCEPT ![c] = o.vendor] ELSE mine
    /\ UNCHANGED <<world, boardVars, driverVars, tracked, cacheVars, todo, args>>

-----------------------------------------------------------------------------
(* Commands run.                                                           *)

\* No command starts while a step waits for the lock; those that would are let
\* in when it is released, before the next such step (sync.RWMutex).
Run(c) ==
    /\ At(c, "ready", IF \E d \in Caller : stage[d] \in Locking THEN "blocked" ELSE "running")
    /\ UNCHANGED <<world, boardVars, driverVars, tracked, cacheVars, callVars, lastVars>>

AskLock(c) ==
    /\ \E here \in DOMAIN Asked : At(c, here, Asked[here])
    /\ UNCHANGED <<world, boardVars, driverVars, tracked, cacheVars, callVars, lastVars>>

\* The steps that have the lock wait for the commands that run.
Locked(c, here) == stage[c] = Asked[here] /\ \A d \in Caller : stage[d] # "running"

Unlock(stages) ==
    stage' = [d \in Caller |-> IF stages[d] = "blocked" THEN "running" ELSE stages[d]]

\* The caller's command ends with this outcome.
Outcome(c, ok) ==
    /\ stage[c] = "running"
    /\ LET cmd == Head(todo[c])
       IN  IF ok
           THEN Obeyed(cmd) /\ Apply(c, cmd)
           ELSE \/ (Obeyed(cmd) => world.faults) /\ UNCHANGED boardVars
                \/ Obeyed(cmd) /\ world.faults /\ Apply(c, cmd)

Quiet == <<world, driverVars, tracked>>

\* A write goes on to its next command; the last one ends the call, or the mode
\* of an identification is followed by its zone at full speed.
WriteSucceeds(c) ==
    /\ op[c].kind \in {"zone", "all", "mode", "identify"}
    /\ Outcome(c, TRUE)
    /\ CASE Len(todo[c]) > 1 ->
              /\ todo' = [todo EXCEPT ![c] = Tail(@)]
              /\ stage' = [stage EXCEPT ![c] = "ready"]
              /\ UNCHANGED <<op, mine, args, failed, lastVars>>
         [] Len(todo[c]) = 1 /\ op[c].kind = "identify" ->
              /\ op' = [op EXCEPT ![c] = [kind |-> "zone", zone |-> @.zone, percent |-> 100]]
              /\ stage' = [stage EXCEPT ![c] = "take"]
              /\ todo' = [todo EXCEPT ![c] = <<>>]
              /\ UNCHANGED <<mine, args, failed, lastVars>>
         [] OTHER -> Ends(c, TRUE)
    /\ UNCHANGED <<Quiet, speeds, readings, inflight, waiters>>

\* The first failure ends it.
WriteFails(c) ==
    /\ op[c].kind \in {"zone", "all", "mode", "identify"}
    /\ Outcome(c, FALSE)
    /\ Ends(c, FALSE)
    /\ UNCHANGED <<Quiet, speeds, readings, inflight, waiters>>

-----------------------------------------------------------------------------
(* Writing.                                                                *)

\* The driver the service has now.  A driver with nothing to send is done, and
\* an identification without a mode to set goes on to its zone.
Take(c) ==
    /\ stage[c] = "take"
    /\ \E plan \in {Plan(driver, op[c])} :
          IF plan = <<>> /\ op[c].kind = "identify" /\ driver # "Hwmon"
          THEN /\ op' = [op EXCEPT ![c] = [kind |-> "zone", zone |-> @.zone, percent |-> 100]]
               /\ UNCHANGED <<stage, mine, todo, args, failed, lastVars>>
          ELSE IF plan = <<>>
          THEN Ends(c, TRUE)
          ELSE /\ mine' = [mine EXCEPT ![c] = driver]
               /\ todo' = [todo EXCEPT ![c] = plan]
               /\ stage' = [stage EXCEPT ![c] = IF Head(plan) = Whole THEN "build" ELSE "ready"]
               /\ UNCHANGED <<op, args, failed, lastVars>>
    /\ UNCHANGED <<Quiet, boardVars, speeds, readings, inflight, waiters>>

\* Faulty: the driver does not note what it sends.
BuildForgets(c) ==
    /\ stage[c] = "build"
    /\ LET fan == Len(args[c])
           target == IF op[c].kind = "all" THEN Cell ELSE GetFansInZone(op[c].zone)
           value == IF fan \in target THEN Clamped(op[c].percent) ELSE tracked[fan]
       IN  /\ args' = [args EXCEPT ![c] = Append(@, value)]
           /\ tracked' = tracked
           /\ stage' = [stage EXCEPT ![c] = IF fan = 3 THEN "ready" ELSE "build"]
    /\ UNCHANGED <<world, boardVars, driverVars, cacheVars, op, mine, todo, lastVars>>

\* One fan of an ASRock command after the other, from what the driver tracks
\* without a lock: the fans it is about take their new speed there already.
Build(c) ==
    /\ stage[c] = "build"
    /\ LET fan == Len(args[c])
           target == IF op[c].kind = "all" THEN Cell ELSE GetFansInZone(op[c].zone)
           value == IF fan \in target THEN Clamped(op[c].percent) ELSE tracked[fan]
       IN  /\ args' = [args EXCEPT ![c] = Append(@, value)]
           /\ tracked' = [tracked EXCEPT ![fan] = value]
           /\ stage' = [stage EXCEPT ![c] = IF fan = 3 THEN "ready" ELSE "build"]
    /\ UNCHANGED <<world, boardVars, driverVars, cacheVars, op, mine, todo, lastVars>>

-----------------------------------------------------------------------------
(* Detecting the driver, choosing it.                                      *)

\* DetectBestDriver asks hwmon first, which runs no command.
Probe(c) ==
    /\ stage[c] = "probe"
    /\ IF world.hwmon
       THEN /\ mine' = [mine EXCEPT ![c] = "Hwmon"]
            /\ stage' = [stage EXCEPT ![c] = "activate"]
            /\ UNCHANGED todo
       ELSE /\ todo' = [todo EXCEPT ![c] = CanDetect]
            /\ stage' = [stage EXCEPT ![c] = "ready"]
            /\ UNCHANGED mine
    /\ UNCHANGED <<Quiet, boardVars, cacheVars, op, args, lastVars>>

Found(c, vendor) ==
    /\ mine' = [mine EXCEPT ![c] = vendor]
    /\ todo' = [todo EXCEPT ![c] = <<>>]
    /\ stage' = [stage EXCEPT ![c] = "activate"]

ProbesOn(c, probes) ==
    /\ probes # <<>>
    /\ todo' = [todo EXCEPT ![c] = probes]
    /\ stage' = [stage EXCEPT ![c] = "ready"]
    /\ UNCHANGED mine

ProbeSucceeds(c) ==
    /\ op[c].kind = "detect"
    /\ Outcome(c, TRUE)
    /\ \/ Found(c, Head(todo[c]).vendor)
       \/ (Head(todo[c]) = Name /\ ProbesOn(c, Tail(todo[c])))
    /\ UNCHANGED <<Quiet, cacheVars, op, args, lastVars>>

\* A board without a name is not asked for duties; when all fail, the driver is
\* Generic.
ProbeFails(c) ==
    /\ op[c].kind = "detect"
    /\ Outcome(c, FALSE)
    /\ LET rest == SubSeq(todo[c], IF Head(todo[c]) = Name THEN 3 ELSE 2, Len(todo[c]))
       IN  ProbesOn(c, rest) \/ (rest = <<>> /\ Found(c, "Generic"))
    /\ UNCHANGED <<Quiet, cacheVars, op, args, lastVars>>

\* Faulty: only a driver that answered becomes the registry's.
ActivateAnswered(c) ==
    /\ At(c, "activate", "install")
    /\ active' = IF mine[c] = "Generic" THEN active ELSE mine[c]
    /\ UNCHANGED <<world, boardVars, driver, tracked, cacheVars, callVars, lastVars>>

Activate(c) ==
    /\ At(c, "activate", "install")
    /\ active' = mine[c]
    /\ UNCHANGED <<world, boardVars, driver, tracked, cacheVars, callVars, lastVars>>

\* DetectAndSetDriver's last step, and SetDriver.
Install(c) ==
    /\ Locked(c, "install")
    /\ driver' = mine[c]
    /\ Unlock([stage EXCEPT ![c] = "idle"]) /\ Forgets(c, TRUE)
    /\ UNCHANGED <<world, boardVars, active, tracked, speeds, readings, inflight, waiters>>

-----------------------------------------------------------------------------
(* Reading (GetFanReadings, GetFanSpeeds).                                 *)

\* What a reader leaves alone.
Elsewhere == <<world, boardVars, driverVars, tracked, op, lastVars>>

\* The readings' own cache; hwmon reads its channels at once.
Cached(c) ==
    /\ stage[c] = "cached"
    /\ IF readings = "fresh" THEN Ends(c, TRUE)
       ELSE /\ stage' = [stage EXCEPT ![c] = IF driver = "Hwmon" THEN "store" ELSE "speeds"]
            /\ UNCHANGED <<op, mine, todo, args, failed, lastVars>>
    /\ UNCHANGED <<Quiet, boardVars, speeds, readings, inflight, waiters>>

\* The speeds' cache is read again under the lock.
FreshSpeeds(c) ==
    /\ Locked(c, "speeds") /\ speeds = "fresh"
    /\ Unlock([stage EXCEPT ![c] = "duties"])
    /\ UNCHANGED <<Elsewhere, cacheVars, mine, todo, args>>

\* Those that come while another reads wait for it.
Wait(c) ==
    /\ Locked(c, "speeds") /\ speeds # "fresh" /\ inflight
    /\ Unlock([stage EXCEPT ![c] = "waiting"])
    /\ waiters' = waiters \cup {c}
    /\ UNCHANGED <<Elsewhere, speeds, readings, inflight, failed, mine, todo, args>>

\* Faulty: each reader reads.
LeadAlways(c) ==
    /\ Locked(c, "speeds") /\ speeds # "fresh"
    /\ inflight' = TRUE
    /\ mine' = [mine EXCEPT ![c] = driver]
    /\ todo' = [todo EXCEPT ![c] = IF driver = "Hwmon" THEN <<>> ELSE <<Read("any")>>]
    /\ Unlock([stage EXCEPT ![c] = IF driver = "Hwmon" THEN "publish" ELSE "ready"])
    /\ UNCHANGED <<Elsewhere, speeds, readings, waiters, failed, args>>

\* Hwmon reads its channels without a command.
Lead(c) ==
    /\ Locked(c, "speeds") /\ speeds # "fresh" /\ ~inflight
    /\ inflight' = TRUE
    /\ mine' = [mine EXCEPT ![c] = driver]
    /\ todo' = [todo EXCEPT ![c] = IF driver = "Hwmon" THEN <<>> ELSE <<Read("any")>>]
    /\ Unlock([stage EXCEPT ![c] = IF driver = "Hwmon" THEN "publish" ELSE "ready"])
    /\ UNCHANGED <<Elsewhere, speeds, readings, waiters, failed, args>>

\* The command for the speeds, or the one for the duties: a reader goes on
\* without those.
ReadEnds(c) ==
    /\ op[c].kind = "readings"
    /\ \E ok \in BOOLEAN :
           /\ Outcome(c, ok)
           /\ stage' = [stage EXCEPT ![c] =
                 IF Head(todo[c]) # Read("any") THEN "store"
                 ELSE IF ok THEN "publish" ELSE "unlead"]
    /\ todo' = [todo EXCEPT ![c] = <<>>]
    /\ UNCHANGED <<Quiet, cacheVars, op, mine, args, lastVars>>

\* The waiters' channels are closed; the leader goes on.
WakeAll(c, there) ==
    /\ Unlock([d \in Caller |-> IF d = c THEN there
                                ELSE IF d \in waiters THEN "woken" ELSE stage[d]])
    /\ waiters' = {}
    /\ inflight' = FALSE

\* Faulty: the waiters are woken before the answer is there.
PublishLate(c) ==
    /\ Locked(c, "publish")
    /\ \/ /\ inflight
          /\ WakeAll(c, "publish")
          /\ UNCHANGED speeds
       \/ /\ ~inflight
          /\ speeds' = "fresh"
          /\ Unlock([stage EXCEPT ![c] = "duties"])
          /\ UNCHANGED <<waiters, inflight>>
    /\ UNCHANGED <<Elsewhere, readings, failed, mine, todo, args>>

Publish(c) ==
    /\ Locked(c, "publish")
    /\ speeds' = "fresh"
    /\ WakeAll(c, "duties")
    /\ UNCHANGED <<Elsewhere, readings, failed, mine, todo, args>>

\* Faulty: those who wait for a reading that fails are not told.
UnleadSilent(c) ==
    /\ Locked(c, "unlead")
    /\ Unlock([stage EXCEPT ![c] = "failing"])
    /\ waiters' = {} /\ inflight' = FALSE
    /\ failed' = failed \cup waiters
    /\ UNCHANGED <<Elsewhere, speeds, readings, mine, todo, args>>

\* A reading that failed leaves the cache as it was, for those who wait too.
Unlead(c) ==
    /\ Locked(c, "unlead")
    /\ WakeAll(c, "failing")
    /\ failed' = failed \cup waiters
    /\ UNCHANGED <<Elsewhere, speeds, readings, mine, todo, args>>

\* A waiter takes what the cache holds, of whatever age.
Woken(c) ==
    /\ At(c, "woken", "duties")
    /\ failed' = failed \ {c}
    /\ UNCHANGED <<Elsewhere, speeds, readings, inflight, waiters, mine, todo, args>>

\* The request a waiter belongs to is gone, or its leader returns its error.
GiveUp(c) ==
    /\ stage[c] \in {"waiting", "failing"}
    /\ Ends(c, FALSE)
    /\ waiters' = waiters \ {c}
    /\ UNCHANGED <<Quiet, boardVars, speeds, readings, inflight>>

\* Only ASRock boards are asked for duties.
Duties(c) ==
    /\ stage[c] = "duties"
    /\ todo' = [todo EXCEPT ![c] = IF driver = "ASRock" THEN <<Read("ASRock")>> ELSE <<>>]
    /\ stage' = [stage EXCEPT ![c] = IF driver = "ASRock" THEN "ready" ELSE "store"]
    /\ UNCHANGED <<Elsewhere, cacheVars, mine, args>>

Store(c) ==
    /\ Locked(c, "store")
    /\ readings' = "fresh"
    /\ Unlock([stage EXCEPT ![c] = "idle"]) /\ Forgets(c, TRUE)
    /\ UNCHANGED <<Quiet, boardVars, speeds, inflight, waiters>>

\* Three seconds pass for one cache, which takes longer than waking up.
Expire ==
    /\ \A c \in Caller : stage[c] # "woken"
    /\ \/ speeds = "fresh" /\ speeds' = "old" /\ UNCHANGED readings
       \/ readings = "fresh" /\ readings' = "old" /\ UNCHANGED speeds
    /\ UNCHANGED <<world, boardVars, driverVars, tracked, inflight, waiters, failed,
                   callVars, stage, lastVars>>

-----------------------------------------------------------------------------
\* main has detected a driver; the caches are empty.
Init ==
    /\ world \in World
    /\ driver = IF world.hwmon THEN "Hwmon" ELSE world.vendor
    /\ active = driver
    /\ board = [f \in Cell |-> Untouched]
    /\ mode = "manual"
    /\ tracked = [f \in Cell |-> 30]
    /\ speeds = "none" /\ readings = "none"
    /\ inflight = FALSE /\ waiters = {} /\ failed = {}
    /\ op = [c \in Caller |-> Idle] /\ stage = [c \in Caller |-> "idle"]
    /\ mine = [c \in Caller |-> "none"]
    /\ todo = [c \in Caller |-> <<>>] /\ args = [c \in Caller |-> <<>>]
    /\ lone = [c \in Caller |-> FALSE] /\ last = NoWrite

\* What a call does once it has begun; a request that gives up is not certain to.
Step(c) ==
    \/ Run(c) \/ AskLock(c) \/ WriteSucceeds(c) \/ WriteFails(c) \/ Take(c) \/ Build(c)
    \/ Probe(c) \/ ProbeSucceeds(c) \/ ProbeFails(c) \/ Activate(c) \/ Install(c)
    \/ Cached(c) \/ FreshSpeeds(c) \/ Wait(c) \/ Lead(c) \/ ReadEnds(c) \/ Publish(c)
    \/ Unlead(c) \/ Woken(c) \/ Duties(c) \/ Store(c)
    \/ stage[c] = "failing" /\ GiveUp(c)

Next == \/ \E c \in Caller : Call(c) \/ Step(c) \/ GiveUp(c)
        \/ Expire

Spec == Init /\ [][Next]_vars
\* Each call's goroutine runs on, its commands end, and none waits for the lock
\* for ever while others have it.
FairSpec ==
    Spec /\ \A c \in Caller :
        /\ WF_vars(Step(c))
        /\ SF_vars(\E here \in DOMAIN Asked : Locked(c, here) /\ Step(c))

-----------------------------------------------------------------------------
Leading(c) == \/ stage[c] \in {"publish", Asked.publish, "unlead", Asked.unlead}
              \/ todo[c] = <<Read("any")>>

\* Type invariant: callers are where their kind of call can be, the mark of a
\* read under way stands exactly while one caller reads, and those who wait for
\* it are those the service knows of (GetFanSpeeds).
TypeOK ==
    /\ world \in World
    /\ board \in [Cell -> 0..255] /\ mode \in {"manual", "auto"}
    /\ driver \in Vendor /\ active \in Vendor
    /\ tracked \in [Cell -> 0..100]
    /\ speeds \in {"none", "old", "fresh"} /\ readings \in {"none", "old", "fresh"}
    /\ inflight \in BOOLEAN /\ failed \subseteq Caller
    /\ waiters = {c \in Caller : stage[c] = "waiting"}
    /\ Cardinality({c \in Caller : Leading(c)}) = (IF inflight THEN 1 ELSE 0)
    /\ \A c \in Caller :
          /\ stage[c] \in {"ready", "blocked", "running"} <=> todo[c] # <<>> /\ stage[c] # "build"
          /\ stage[c] = "idle" <=> op[c] = Idle
          /\ stage[c] \in {"cached", "waiting", "woken", "failing", "duties", "speeds",
                           "publish", "unlead", "store"} => op[c].kind = "readings"
          /\ stage[c] = "blocked" => \E d \in Caller : stage[d] \in Locking

\* A reader that waited has the answer of the read it waited for, unless that
\* read failed: then it is given what the cache holds, without an error.
WaitersAnswered ==
    \A c \in Caller : stage[c] = "woken" => speeds = "fresh" \/ c \in failed

Aimed(v, o) ==
    IF o.kind = "all" \/ v = "Generic" THEN Cell
    ELSE IF v = "ASRock" THEN GetFansInZone(o.zone) ELSE {o.zone}

\* What a percentage is on the wire.
Sent(v, percent) ==
    IF v \in {"Dell", "Supermicro"} THEN Byte(Clamped(percent)) ELSE Clamped(percent)

\* A write that succeeded on the driver's own board, with no other beside it,
\* left every cell it was aimed at where it was to be, though it takes several
\* commands on some boards; and an ASRock board, all of whose fans each of its
\* commands carries, as the driver tracks it, whatever failed or raced before:
\* the next write to one zone then leaves the others alone.
LoneWriteHolds ==
    last.kind \in {"zone", "all"} /\ last.ok /\ last.driver = world.vendor =>
        /\ \A f \in Aimed(last.driver, last.call) : board[f] = Sent(last.driver, last.call.percent)
        /\ last.driver = "ASRock" => board = tracked

\* A detection with no other beside it leaves the service and the validation of
\* profiles with one driver, and the board's own when no command failed.
DetectedIsDriven ==
    last.kind = "detect" =>
        /\ active = driver
        /\ ~world.faults => driver = IF world.hwmon THEN "Hwmon" ELSE world.vendor

\* No call waits for ever: for a reading under way, for the lock or for a call
\* that waits for it.
EveryCallReturns == \A c \in Caller : op[c] # Idle ~> op[c] = Idle
=============================================================================
