----------------------------- MODULE Scheduler -----------------------------
(***************************************************************************)
(* The systems of an engine and the loop that runs them (ecsvm.c): the     *)
(* registry, the cached pipeline, ticks, and the two hosts that loop over  *)
(* ticks, ecsvm_engine_run and the loop of ecsvm_run_project, which may    *)
(* register and unregister systems between two ticks.                      *)
(***************************************************************************)
EXTENDS PipelineOrder

CONSTANTS
  Definitions  \* the definitions ecsvm_engine_register_system is called with

ASSUME DefinitionsAssumption ==
  \A d \in Definitions : {"name", "before", "after"} \subseteq DOMAIN d

VARIABLES
  systems,  \* engine->systems[0 .. system_count - 1]
  pipeline, \* engine->system_pipeline: indices into systems
  dirty,    \* engine->pipeline_dirty
  stop,     \* engine->stop_requested
  active,   \* index of engine->active_system, 0 for NULL
  at,       \* how many systems of the pipeline this tick has called
  phase,    \* "idle": no tick; "ticking"; "between": two ticks of a host's loop
  host,     \* "none", "engine_run" or "run_project"
  reply     \* what the last call or tick returned

registry == <<systems, pipeline, dirty>>
loop == <<stop, active, at, phase, host>>
vars == <<registry, loop, reply>>

TypeOK ==
  /\ systems \in Seq(Definitions)
  /\ pipeline \in Seq(Nat)
  /\ dirty \in BOOLEAN /\ stop \in BOOLEAN
  /\ active \in 0 .. Len(systems)
  /\ at \in 0 .. Len(pipeline)
  /\ phase \in {"idle", "ticking", "between"}
  /\ host \in {"none", "engine_run", "run_project"}
  /\ reply \in {"OK", "EXISTS", "NOT_FOUND", "MEMORY", "ARGUMENT", "CALLBACK"}

Init ==
  /\ systems = <<>> /\ pipeline = <<>>
  /\ dirty = FALSE /\ stop = FALSE
  /\ active = 0 /\ at = 0
  /\ phase = "idle" /\ host = "none"
  /\ reply = "OK"

-----------------------------------------------------------------------------
Holders(n) == {i \in Slots(systems) : systems[i].name = n}

\* Faulty: the cached pipeline is kept.
KeepPipeline == UNCHANGED dirty

\* The next tick builds a new pipeline.
Invalidate == dirty' = TRUE

\* A host that loops registers nothing while ecsvm_engine_run is in charge.
MayChange ==
  \/ phase = "idle"
  \/ phase = "between" /\ host = "run_project"

(* ecsvm_engine_register_system: the table, the copy of the name and the   *)
(* copies of the two lists may each fail, and nothing is added then.       *)
Register(d) ==
  /\ MayChange
  /\ IF Holders(d.name) # {}
     THEN reply' = "EXISTS" /\ UNCHANGED registry
     ELSE \/ /\ systems' = Append(systems, d)
             /\ Invalidate
             /\ reply' = "OK"
             /\ UNCHANGED pipeline
          \/ reply' = "MEMORY" /\ UNCHANGED registry
  /\ UNCHANGED loop

\* The entries behind the removed one move down.
Without(i) == [k \in 1 .. Len(systems) - 1 |-> IF k < i THEN systems[k] ELSE systems[k + 1]]

\* ecsvm_engine_unregister_system.
Unregister(n) ==
  /\ MayChange
  /\ IF Holders(n) = {}
     THEN reply' = "NOT_FOUND" /\ UNCHANGED <<registry, active>>
     ELSE \E i \in Holders(n) :
            /\ systems' = Without(i)
            /\ active' = IF active = i THEN 0 ELSE active
            /\ Invalidate
            /\ reply' = "OK"
            /\ UNCHANGED pipeline
  /\ UNCHANGED <<stop, at, phase, host>>

-----------------------------------------------------------------------------
\* The loop of a host starts by forgetting earlier requests to stop.
Start(h) ==
  /\ phase = "idle"
  /\ host' = h
  /\ stop' = FALSE
  /\ phase' = "between"
  /\ UNCHANGED <<registry, active, at, reply>>

\* Faulty: active_system is not reset.
ReturnActive(s) ==
  /\ reply' = s
  /\ at' = 0 /\ UNCHANGED active
  /\ IF s = "OK" /\ host # "none" THEN phase' = "between" /\ UNCHANGED host
     ELSE phase' = "idle" /\ host' = "none"

\* A tick, or the whole loop around it, returns status s.
Return(s) ==
  /\ reply' = s
  /\ active' = 0 /\ at' = 0
  /\ IF s = "OK" /\ host # "none" THEN phase' = "between" /\ UNCHANGED host
     ELSE phase' = "idle" /\ host' = "none"

\* Faulty: the loop does not look for a request to stop.
MayTickOn == phase = "idle" \/ phase = "between"

\* ecsvm_engine_tick may be called by a host's loop or, once, by any caller.
MayTick ==
  \/ phase = "idle"
  \/ phase = "between" /\ ~stop

(* ecsvm_engine_ensure_pipeline keeps the old pipeline, and stays dirty,   *)
(* when the new one cannot be built.                                       *)
BeginTick ==
  /\ MayTick
  /\ dirty => ~Cyclic(systems)
  /\ pipeline' = IF dirty THEN RegistrationOrder(systems) ELSE pipeline
  /\ dirty' = FALSE
  /\ phase' = "ticking" /\ at' = 0
  /\ UNCHANGED <<systems, stop, active, host, reply>>

RefuseTick ==
  /\ MayTick
  /\ dirty /\ systems # <<>>
  /\ \/ Cyclic(systems) /\ Return("ARGUMENT")
     \/ Return("MEMORY")
  /\ UNCHANGED <<registry, stop>>

\* One system's main, which may request a stop and may fail.
CallSystem ==
  /\ phase = "ticking" /\ at < Len(pipeline)
  /\ stop' \in {stop, TRUE}
  /\ \/ /\ at' = at + 1
        /\ active' = pipeline[at + 1]
        /\ UNCHANGED <<phase, host, reply>>
     \/ Return("CALLBACK")
  /\ UNCHANGED registry

EndTick ==
  /\ phase = "ticking" /\ at = Len(pipeline)
  /\ Return("OK")
  /\ UNCHANGED <<registry, stop>>

\* The loop sees the request.
Leave ==
  /\ phase = "between" /\ stop
  /\ phase' = "idle" /\ host' = "none"
  /\ UNCHANGED <<registry, stop, active, at, reply>>

Next ==
  \/ \E d \in Definitions : Register(d) \/ Unregister(d.name)
  \/ \E h \in {"engine_run", "run_project"} : Start(h)
  \/ BeginTick \/ RefuseTick \/ CallSystem \/ EndTick \/ Leave

Spec == Init /\ [][Next]_vars

(* The loop of a host keeps going: nothing in it waits.  Nothing obliges a *)
(* caller to start one or to register systems.                             *)
FairSpec == Spec /\ WF_vars(phase # "idle" /\ (BeginTick \/ RefuseTick \/ CallSystem \/ EndTick \/ Leave))

-----------------------------------------------------------------------------
T == INSTANCE Ticks WITH
  ticking <- phase = "ticking",
  queue <- IF phase = "ticking"
           THEN [k \in 1 .. Len(pipeline) - at |-> systems[pipeline[at + k]].name]
           ELSE <<>>

(* However registrations and removals come between two ticks, also after   *)
(* ticks that were refused, the cached pipeline never shows: each tick     *)
(* runs what is registered then, in order.                                 *)
ImplementsTicks == T!Spec

(* A request to stop made by a system ends the loop that runs it, unless   *)
(* the loop ended already: the request is not lost between two ticks.      *)
StopEndsLoop == (stop /\ host # "none") ~> (host = "none")
=============================================================================
