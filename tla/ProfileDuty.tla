----------------------------- MODULE ProfileDuty -----------------------------
(***************************************************************************)
(* One profile over its life: users edit, activate and deactivate it       *)
(* (services/profiles.go, api/profiles.go), and each control cycle that    *)
(* finds it active computes its duty from the readings of that cycle and   *)
(* from what earlier cycles left behind (services/controller.go): the last *)
(* input, for hysteresis, and the algorithm instance with the state of the *)
(* PID controller.                                                         *)
(*                                                                         *)
(* Cycles that cannot load the profiles, and those of an emergency or of a *)
(* sensor loss while the profile is active, change none of this: they are  *)
(* stuttering steps.  A FanController keeps its maps when it is stopped    *)
(* and started, so that is one too.                                        *)
(***************************************************************************)
EXTENDS Curves

CONSTANTS
    Created,  \* settings profiles are created with
    Edit,     \* what users send: records with some of the settings' fields
    Reading   \* what the sensors may show

VARIABLES
    profile,   \* the settings in the database
    active,    \* is_active
    reading,   \* what the sensors show
    lastInput, \* profileLastInput, a sequence of at most one value
    algo,      \* algoInstances and algoSig
    duty,      \* the duty computed last
    seen       \* history: the settings, reading and input value of the cycle that
               \* computed duty, while no cycle found the profile inactive since

vars == <<profile, active, reading, lastInput, algo, duty, seen>>

Fields == {"algorithm", "params", "hysteresis", "inputs"}

ASSUME ProfileDutyAssumption ==
    /\ Created # {} /\ Reading # {}
    /\ \A p \in Created : DOMAIN p = Fields /\ ValidProfile(p)
    /\ \A e \in Edit : DOMAIN e \subseteq Fields
    /\ \A e \in Created \cup Edit :
          /\ "params" \in DOMAIN e => ProperParams(e.params)
          /\ "inputs" \in DOMAIN e => ProperInputs(e.inputs)
    /\ \A r \in Reading : \A s \in DOMAIN r : r[s] \in Int

NoAlgo == [sig |-> <<>>, iTerm |-> 0, lastTemp |-> 0]

Init ==
    /\ profile \in Created
    /\ active = FALSE
    /\ reading \in Reading
    /\ lastInput = <<>> /\ algo = NoAlgo
    /\ duty = 0 /\ seen = <<>>

-----------------------------------------------------------------------------
(* Users and sensors.                                                      *)

Merged(settings, edit) ==
    [f \in DOMAIN settings |-> IF f \in DOMAIN edit THEN edit[f] ELSE settings[f]]

\* The profile is validated as it will be, not the fields that were sent.
Update(edit) ==
    /\ ValidProfile(Merged(profile, edit))
    /\ profile' = Merged(profile, edit)
    /\ UNCHANGED <<active, reading, lastInput, algo, duty, seen>>

SetActive(on) ==
    /\ active' = on
    /\ UNCHANGED <<profile, reading, lastInput, algo, duty, seen>>

Sense ==
    /\ reading' \in Reading
    /\ UNCHANGED <<profile, active, lastInput, algo, duty, seen>>

-----------------------------------------------------------------------------
(* The control cycle.                                                      *)

Sig(settings) == <<settings.algorithm, settings.params>>

\* Faulty: every cycle makes a new instance.
NewAlgorithm(settings) == [NoAlgo EXCEPT !.sig = Sig(settings)]

\* The instance is kept while the algorithm and its parameters are the same.
GetAlgorithm(settings) ==
    IF algo.sig # Sig(settings) THEN [NoAlgo EXCEPT !.sig = Sig(settings)] ELSE algo

AbsDiff(a, b) == IF a < b THEN b - a ELSE a - b

\* Faulty: a falling input never counts as a change.
HeldInputUpOnly(settings, value) ==
    IF /\ settings.algorithm # "pid" /\ settings.hysteresis > 0
       /\ lastInput # <<>> /\ value - lastInput[1] < settings.hysteresis
    THEN lastInput[1] ELSE value

\* Hysteresis: small changes of the input are ignored, but not by a PID.
HeldInput(settings, value) ==
    IF /\ settings.algorithm # "pid" /\ settings.hysteresis > 0
       /\ lastInput # <<>> /\ AbsDiff(value, lastInput[1]) < settings.hysteresis
    THEN lastInput[1] ELSE value

\* What the algorithm makes of the input; only the PID's instance changes.
Calculate(settings, instance, input) ==
    CASE settings.algorithm = "linear" -> LinearSpeed(settings.params, input)
      [] settings.algorithm = "step" -> StepSpeed(settings.params, input)
      [] settings.algorithm = "pid" ->
             PidSpeed(settings.params, instance.iTerm, instance.lastTemp, input)

Updated(settings, instance, input) ==
    IF settings.algorithm = "pid"
    THEN [instance EXCEPT
            !.iTerm = Integrated(settings.params, @,
                                 input - Param(settings.params, "setpoint", 700)),
            !.lastTemp = input]
    ELSE instance

\* (\E binds the value once, where LET would let TLC evaluate it at every use.)
Compute ==
    \E value \in {CalculateInputValue(profile, reading)} :
    \E input \in {HeldInput(profile, value)} :
        LET instance == GetAlgorithm(profile)
        IN  /\ active
            /\ lastInput' = <<input>>
            /\ duty' = Calculate(profile, instance, input)
            /\ algo' = Updated(profile, instance, input)
            /\ seen' = <<[settings |-> profile, reading |-> reading, value |-> value]>>
            /\ UNCHANGED <<profile, active, reading>>

\* Faulty: forgets the input but not the instance.
PruneInput ==
    /\ ~active
    /\ lastInput' = <<>>
    /\ seen' = <<>>
    /\ UNCHANGED <<profile, active, reading, duty, algo>>

\* A cycle that finds the profile inactive forgets it.
Prune ==
    /\ ~active
    /\ algo' = NoAlgo /\ lastInput' = <<>>
    /\ seen' = <<>>
    /\ UNCHANGED <<profile, active, reading, duty>>

Next ==
    \/ \E e \in Edit : Update(e)
    \/ \E on \in BOOLEAN : SetActive(on)
    \/ Sense
    \/ Compute
    \/ Prune

\* The loop ticks for ever, database errors and emergencies do not last.
Spec == Init /\ [][Next]_vars /\ SF_vars(Compute)

-----------------------------------------------------------------------------
(* Properties.                                                             *)

\* Whatever was accepted, the duty is a percentage and the PID's integral term
\* stays within its windup limit, and the history belongs to the last cycle.
TypeOK ==
    /\ active \in BOOLEAN
    /\ ValidProfile(profile)
    /\ duty \in 0..100
    /\ algo.iTerm <= 10000 /\ -algo.iTerm <= 10000
    /\ Len(lastInput) <= 1 /\ Len(seen) <= 1
    /\ (lastInput = <<>>) = (algo = NoAlgo)

\* The curves that rise with the temperature.
Rises(settings) ==
    LET p == settings.params
    IN  CASE settings.algorithm = "linear" -> p.min_speed <= p.max_speed
          [] settings.algorithm = "step" ->
                 \A i, j \in DOMAIN p.steps :
                     p.steps[i].temp <= p.steps[j].temp => p.steps[i].speed <= p.steps[j].speed
          [] OTHER -> FALSE

\* The reading q shows the same sensors of the profile as r, none of them lower.
Hotter(settings, r, q) ==
    /\ Present(settings, r) = Present(settings, q)
    /\ \A s \in Present(settings, r) : r[s] <= q[s]

\* Between two cycles of an unchanged profile whose curve rises, a reading that is
\* nowhere lower never gives a lower duty: neither the projection of loads, nor
\* the aggregation, nor hysteresis turns the order round.
HotterNeverSlower ==
    [][ /\ seen # <<>> /\ seen' # <<>>
        /\ seen[1].settings = seen'[1].settings
        /\ Rises(seen[1].settings)
        /\ Hotter(seen[1].settings, seen[1].reading, seen'[1].reading)
        => duty' >= duty ]_vars

\* Hysteresis holds the input back by less than its own width, however the input
\* drifts and whatever edit came before: the duty is that of an input which is the
\* real one, or nearer to it than the profile's hysteresis.
DutyFollowsInput ==
    seen # <<>> /\ seen[1].settings.algorithm # "pid" =>
        LET settings == seen[1].settings
            slack == Max({0, settings.hysteresis - 1})
        IN  \E input \in (seen[1].value - slack)..(seen[1].value + slack) :
                duty = Calculate(settings, NoAlgo, input)

\* A PID that was edited, or inactive in some cycle, starts without memory: its
\* first duty depends on its settings and on the input only.
FreshStart ==
    [][ /\ seen' # <<>> /\ seen' # seen
        /\ seen'[1].settings.algorithm = "pid"
        /\ seen = <<>> \/ Sig(seen[1].settings) # Sig(seen'[1].settings)
        => duty' = Calculate(seen'[1].settings, NoAlgo, seen'[1].value) ]_vars

\* Once nobody changes the profile and the sensors stay put, a PID with an integral
\* gain ends up giving all it has when it is too hot and its lowest speed when it is
\* too cold: the windup clamp is wide enough to get there from any past.
AtRest == <>[][FALSE]_<<profile, active, reading>>

Settled ==
    LET p == profile.params
    IN  active /\ profile.algorithm = "pid" /\ p.ki > 0 =>
            /\ seen # <<>>
            /\ seen[1].settings = profile /\ seen[1].reading = reading
            /\ seen[1].value > p.setpoint => duty = MaxSpeed(p)
            /\ seen[1].value < p.setpoint => duty = MinSpeed(p)

PidSettles == AtRest => <>[]Settled
=============================================================================
