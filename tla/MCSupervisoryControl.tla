------------------------ MODULE MCSupervisoryControl ------------------------
(***************************************************************************)
(* Constants for model-checking SupervisoryControl on small buildings.     *)
(* Temperatures are in 0.05 K: 0 is the designed setpoint, +-20 one kelvin.*)
(***************************************************************************)
EXTENDS SupervisoryControl, TLC

Limits(on, interval) ==
    [enabled |-> on, maxDeviationK |-> 40, maxStepK |-> 20,
     minIntervalS |-> interval, defaultDurationS |-> 2, maxDurationS |-> 2,
     commandTtlS |-> 1]

AlwaysOn == {Limits(TRUE, 0)}
Switchable == {Limits(b, 0) : b \in BOOLEAN}
Limited == {Limits(TRUE, 1)}
Narrow == {[Limits(TRUE, 0) EXCEPT !.maxDeviationK = 20]}

DefaultDuration == {Null}

OneStep == {20}
ThereAndBack == {0, 20}
Walk == {0, 20, 40}

OperatorOnly == {"operator"}
Revocable == {"admin", Null}

Designed == {0}
MaybeDesigned == {0, Null}
Healthy == {{"operational"}}
Faulty == {{"operational"}, {"operational", "fault"}}
Good == {"good"}
AnyQuality == {"good", "bad"}

(* Users, gateways and command ids are interchangeable.                    *)
Symmetry == Permutations(Users) \cup Permutations(Gateways)
            \cup Permutations(Commands)
=============================================================================
