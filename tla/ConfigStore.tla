---------------------------- MODULE ConfigStore -----------------------------
(***************************************************************************)
(* What the controller promises, without its tasks, its channel and its    *)
(* attach sequence: requests that it has accepted are carried out one at a *)
(* time, in the order in which they were accepted, each once; and a        *)
(* controller that dies takes its maps and all it has accepted with it.    *)
(* BpfActor implements it; Tool is run against it.                         *)
(***************************************************************************)
EXTENDS ConfigMaps

VARIABLES
  maps,     \* the configuration maps
  waiting   \* requests accepted and not yet carried out

\* The maps after a request has been carried out.
Written(ms, m) ==
  IF m.type = "GetStats" THEN ms ELSE [ms EXCEPT ![Target(m)] = Meaning(m)]

Init == maps = ZeroMaps /\ waiting = <<>>

Accept(m) == waiting' = Append(waiting, m) /\ UNCHANGED maps

Apply ==
  /\ waiting # <<>>
  /\ maps' = Written(maps, Head(waiting))
  /\ waiting' = Tail(waiting)

Lose == maps' = ZeroMaps /\ waiting' = <<>>

Next == (\E m \in Message : Accept(m)) \/ Apply \/ Lose

Spec == Init /\ [][Next]_<<maps, waiting>>
=============================================================================
