--------------------------- MODULE NativeSystems ---------------------------
(***************************************************************************)
(* The native systems of a project (system_time.c, system_window.c,        *)
(* system_renderer.c) over the ticks and reloads of ecsvm_run_project: the *)
(* entities they own, and the way a window closes.  Each registration of a *)
(* native system starts from a fresh state, and a reload that gets as far  *)
(* as the system table registers all of them anew.  Managed systems are    *)
(* any that spawn entities and set Window rows; sizes, durations and what  *)
(* is drawn are left out, and no managed system writes Time rows.          *)
(***************************************************************************)
EXTENDS PipelineOrder

CONSTANTS
  Modules,     \* modules a build can produce
  MaxEntities, \* bound: entities a run creates
  MaxReloads   \* bound: reloads of a run

\* A module's managed systems and, of the two below, the components it declares.
ASSUME ModulesAssumption ==
  /\ MaxEntities \in Nat /\ MaxReloads \in Nat
  /\ \A m \in Modules :
       /\ {"managed", "declares"} \subseteq DOMAIN m
       /\ m.managed \in Seq({m.managed[i] : i \in Slots(m.managed)})
       /\ \A i \in Slots(m.managed) : {"name", "before", "after"} \subseteq DOMAIN m.managed[i]
       /\ m.declares \subseteq {"core.Time", "core.ui.Window"}

(* No build has two systems of one name.  Modules are taken not to name    *)
(* their own after a native system: with that one registered they would    *)
(* be refused.                                                             *)
ASSUME NamesAssumption ==
  \A m \in Modules : \A i \in Slots(m.managed) :
    /\ m.managed[i].name \notin {"core.Time", "core.Window", "core.Renderer"}
    /\ \A j \in Slots(m.managed) : m.managed[i].name = m.managed[j].name => i = j

VARIABLES
  module,     \* runtime->module
  known,      \* registered components, of core.Time and core.ui.Window
  systems,    \* engine->systems, but for the watcher
  pipeline,   \* the names of systems in the order a tick calls them
  queue,      \* names of the systems this tick has still to run
  phase,      \* "between" two ticks, "ticking" or "ended"
  stop,       \* engine->stop_requested
  entities,   \* engine->entity_count: the entities are 1 .. entities
  windowRows, \* entity to closing, for the rows of core.ui.Window
  timeRows,   \* the entities with a core.Time row
  time,       \* state of the time system: its time_entity, 0 for none
  window,     \* state of the window system
  reloads,    \* reloads so far
  heard,      \* history: managed systems called since close_pending was set
  made        \* history: entities the window system made

runtime == <<module, known, systems, pipeline, reloads>>
ecs == <<entities, windowRows, timeRows>>
natives == <<time, window>>
vars == <<runtime, queue, phase, stop, ecs, natives, heard, made>>

-----------------------------------------------------------------------------
Native(n, after) == [name |-> n, before |-> {}, after |-> after]

\* Faulty: the renderer is not held back.
RendererAnywhere == Native("core.Renderer", {})

Renderer == Native("core.Renderer", {"core.Window"})

\* ecsvm_module_references_system_dependency, in a Before or an After.
References(m, n) ==
  \E i \in Slots(m.managed) : n \in m.managed[i].before \cup m.managed[i].after

When(needed, s) == IF needed THEN <<s>> ELSE <<>>

(* ecsvm_register_native_systems goes first, in this order; the renderer   *)
(* needs the window.                                                       *)
NativeTable(m, components) ==
  When("core.Time" \in components, Native("core.Time", {}))
  \o When(References(m, "core.Window") \/ References(m, "core.Renderer"), Native("core.Window", {}))
  \o When(References(m, "core.Renderer"), Renderer)

NamesOf(table) == {table[i].name : i \in Slots(table)}
ManagedNames == NamesOf(module.managed)

Components == {"core.Time", "core.ui.Window"}
Table(m, components) == NativeTable(m, components) \o m.managed

(* What ecsvm_engine_ensure_pipeline will build, at the latest when the    *)
(* next tick begins; <<>> if it refuses a cycle.                           *)
Pipeline(table) ==
  LET order == RegistrationOrder(table)
  IN IF Cyclic(table) THEN <<>> ELSE [k \in 1 .. Len(order) |-> table[order[k]].name]

Refused == systems # <<>> /\ pipeline = <<>>

NoWindow == [entity |-> 0, initialized |-> FALSE, close_pending |-> FALSE, should_close |-> FALSE]

TypeOK ==
  /\ module \in Modules
  /\ known \subseteq Components
  /\ ManagedNames \subseteq NamesOf(systems)
  /\ NamesOf(systems) \subseteq ManagedNames \cup NamesOf(NativeTable(module, known))
  /\ pipeline \in Seq(NamesOf(systems)) /\ queue \in Seq(NamesOf(systems))
  /\ phase \in {"between", "ticking", "ended"} /\ stop \in BOOLEAN
  /\ entities \in 0 .. MaxEntities /\ reloads \in 0 .. MaxReloads
  /\ DOMAIN windowRows \subseteq 1 .. entities /\ timeRows \subseteq 1 .. entities
  /\ \A e \in DOMAIN windowRows : windowRows[e] \in BOOLEAN
  /\ time \in {0} \cup timeRows
  /\ window \in [entity : {0} \cup DOMAIN windowRows, initialized : BOOLEAN,
                 close_pending : BOOLEAN, should_close : BOOLEAN]
  /\ heard \subseteq ManagedNames
  /\ made \subseteq DOMAIN windowRows

Init ==
  /\ module \in Modules
  /\ known = module.declares
  /\ systems = Table(module, known) /\ pipeline = Pipeline(systems)
  /\ queue = <<>> /\ phase = "between" /\ stop = FALSE
  /\ entities = 0
  /\ windowRows = [e \in {} |-> FALSE] /\ timeRows = {}
  /\ time = 0 /\ window = NoWindow
  /\ reloads = 0 /\ heard = {} /\ made = {}

End == phase' = "ended"

-----------------------------------------------------------------------------
(***************************************************************************)
(* The loop of ecsvm_run_project.                                          *)
(***************************************************************************)
BeginTick ==
  /\ phase = "between" /\ ~stop
  /\ ~Refused
  /\ phase' = "ticking"
  /\ queue' = pipeline
  /\ UNCHANGED <<runtime, stop, ecs, natives, heard, made>>

\* A request to stop was seen, or the systems have no order.
Leave ==
  /\ phase = "between" /\ (stop \/ Refused)
  /\ End
  /\ UNCHANGED <<runtime, queue, stop, ecs, natives, heard, made>>

EndTick ==
  /\ phase = "ticking" /\ queue = <<>>
  /\ phase' = "between"
  /\ UNCHANGED <<runtime, queue, stop, ecs, natives, heard, made>>

\* The old native systems are disposed of, those of m start afresh.
Install(m) ==
  /\ module' = m
  /\ systems' = Table(m, known') /\ pipeline' = Pipeline(systems')
  /\ time' = 0 /\ window' = NoWindow
  /\ heard' = {}

(* The tick asked for a reload, and the new module is taken over, refused  *)
(* before the systems are touched, or refused after: the old module is     *)
(* then registered again, and the run ends if that fails.  What it         *)
(* declares may be registered even if it is refused.                       *)
Reload(next) ==
  /\ phase = "ticking" /\ queue = <<>>
  /\ reloads < MaxReloads /\ reloads' = reloads + 1
  /\ \/ known' = known \cup next.declares /\ Install(next) /\ phase' = "between"
     \/ known' = known \cup next.declares /\ Install(module) /\ phase' = "between"
     \/ /\ known' \in {known \cup c : c \in SUBSET next.declares}
        /\ phase' = "between" /\ UNCHANGED <<module, systems, pipeline, natives, heard>>
     \/ End /\ UNCHANGED <<module, known, systems, pipeline, natives, heard>>
  /\ UNCHANGED <<queue, stop, ecs, made>>

-----------------------------------------------------------------------------
(***************************************************************************)
(* The systems a tick calls.                                               *)
(***************************************************************************)
Runs(n) == phase = "ticking" /\ queue # <<>> /\ Head(queue) = n
Goes == queue' = Tail(queue) /\ UNCHANGED phase

(* Any system may fail: SDL, an allocation or the interpreter does.  The   *)
(* run ends then, whatever the system did before.                          *)
Fail ==
  /\ phase = "ticking" /\ queue # <<>>
  /\ End
  /\ UNCHANGED <<runtime, queue, stop, ecs, natives, heard, made>>

(* A managed system spawns entities, adds Window rows, which nothing       *)
(* removes again, sets or clears closing anywhere and may ask for a stop.  *)
CallManaged ==
  /\ phase = "ticking" /\ queue # <<>> /\ Head(queue) \in ManagedNames
  /\ Goes
  /\ entities' \in entities .. MaxEntities
  /\ \E rows \in SUBSET (1 .. entities') :
       /\ DOMAIN windowRows \subseteq rows
       /\ "core.ui.Window" \notin known => rows = {}
       /\ windowRows' \in [rows -> BOOLEAN]
  /\ stop' \in {stop, TRUE}
  /\ heard' = heard \cup {Head(queue)}
  /\ UNCHANGED <<runtime, timeRows, natives, made>>

\* Faulty: a row that is not there yet is not added.
WithKept(rows, e, value) == [rows EXCEPT ![e] = value]

With(rows, e, value) == [x \in DOMAIN rows \cup {e} |-> IF x = e THEN value ELSE rows[x]]

\* Faulty: the entity is not kept.
ForgetsTime(e) == time' = 0

RemembersTime(e) == time' = e

\* ecsvm_time_system_main: the first call creates the entity.
CallTime ==
  /\ Runs("core.Time") /\ Goes
  /\ IF time # 0
     THEN UNCHANGED <<time, timeRows, entities>>
     ELSE /\ entities < MaxEntities /\ entities' = entities + 1
          /\ timeRows' = timeRows \cup {entities'}
          /\ RemembersTime(entities')
  /\ UNCHANGED <<runtime, stop, windowRows, window, heard, made>>

\* Faulty: a registration does not look for a row that is already there.
OwnWindow == IF window.entity \in DOMAIN windowRows THEN window.entity ELSE entities + 1

(* window_ensure_component: the entity it knows, else the first that has a *)
(* Window row, else a new one.                                             *)
WindowEntity ==
  IF window.entity \in DOMAIN windowRows THEN window.entity
  ELSE IF DOMAIN windowRows # {} THEN Lowest(DOMAIN windowRows)
  ELSE entities + 1

\* Faulty: a request of this very tick counts as confirmed.
ConfirmedNow(closing, requested) == (window.close_pending /\ closing) \/ requested

\* The request was there at the end of the last call, and still is.
Confirmed(closing, requested) == window.close_pending /\ closing

\* Faulty: what another system wrote is not waited on.
PendingRequest(closing, requested) == requested

Pending(closing, requested) == closing \/ requested

WindowIs(e, pending, close) ==
  /\ window' = [entity |-> e, initialized |-> TRUE, close_pending |-> pending,
                should_close |-> window.should_close \/ close]
  /\ stop' = (stop \/ close)
  /\ heard' = IF pending /\ ~window.close_pending THEN {} ELSE heard

(* ecsvm_window_system_main with the component: requested says whether the *)
(* user asked, by a quit event or the escape key.                          *)
UpdateWindow(e, requested) ==
  LET closing == e \in DOMAIN windowRows /\ windowRows[e]
  IN /\ e <= MaxEntities
     /\ entities' = IF e > entities THEN e ELSE entities
     /\ windowRows' = With(windowRows, e, closing \/ requested)
     /\ made' = IF e > entities THEN made \cup {e} ELSE made
     /\ WindowIs(e, Pending(closing, requested), Confirmed(closing, requested))

\* Without the component nobody can object.
UpdateBareWindow(requested) ==
  /\ WindowIs(0, requested, requested)
  /\ UNCHANGED <<entities, windowRows, made>>

CallWindow ==
  /\ Runs("core.Window") /\ Goes
  /\ \E requested \in BOOLEAN :
       IF "core.ui.Window" \in known
       THEN UpdateWindow(WindowEntity, requested)
       ELSE UpdateBareWindow(requested)
  /\ UNCHANGED <<runtime, timeRows, time>>

\* It draws with the renderer of the window system it finds by name.
CallRenderer ==
  /\ Runs("core.Renderer") /\ Goes
  /\ UNCHANGED <<runtime, stop, ecs, natives, heard, made>>

Loop ==
  BeginTick \/ EndTick \/ Leave \/ CallManaged \/ CallTime \/ CallWindow \/ CallRenderer \/ Fail

Next == Loop \/ \E next \in Modules : Reload(next)

(* The loop never waits.  Nobody has to edit the project, and MaxReloads   *)
(* says that edits pause in the end: a reload in every tick would keep     *)
(* discarding the request.                                                 *)
Spec == Init /\ [][Next]_vars /\ WF_vars(Loop)

-----------------------------------------------------------------------------
Closes == ~window.should_close /\ window'.should_close

(* The window closes the program only after every managed system was       *)
(* called at least once since it saw the request, whichever of them run    *)
(* before or after the window and whatever reloads came in between: each   *)
(* has had its say (system_window.c:329).                                  *)
ClosingIsConfirmed ==
  [][Closes /\ "core.ui.Window" \in known => ManagedNames \subseteq heard]_vars

(* Reloads do not multiply windows: the window system makes an entity at   *)
(* most once in a run and finds it again after a reload                    *)
(* (window_ensure_component).                                              *)
OneWindowIsMade == Cardinality(made) <= 1

(* Whenever the renderer is called the window system has made the SDL      *)
(* window, also in the first tick after a reload (system_renderer.c:225).  *)
WindowBeforeRenderer == Runs("core.Renderer") => window.initialized

(* Time rows are made by registrations and not by ticks: one for the start *)
(* and one for each reload, also for one that was rolled back              *)
(* (system_time.c:73).                                                     *)
TimeRowsOfRegistrations == Cardinality(timeRows) <= reloads + 1

(* A request to close the only window, made by the user or by a managed    *)
(* system, is decided: the run ends or a system withdraws the request,     *)
(* unless a reload removes the window system or another row appears.       *)
CloseIsDecided ==
  \A e \in 1 .. MaxEntities :
    (DOMAIN windowRows = {e} /\ windowRows[e])
      ~> \/ phase = "ended"
         \/ DOMAIN windowRows # {e} \/ ~windowRows[e]
         \/ "core.Window" \notin NamesOf(systems)
=============================================================================
