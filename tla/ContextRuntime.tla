---------------------------- MODULE ContextRuntime ----------------------------
(* What happens inside a daemon between its locks: storage and the port are  *)
(* opened, the capture adapters are started one after another, each caught   *)
(* up before the next begins, and everything is stopped again               *)
(* (runtime/context-runtime.ts, runtime/capture-adapter-runner.ts), while    *)
(* /healthz is answered from the first moment (runtime/health.ts,            *)
(* mcp/server.ts).  An adapter is what the runner sees of an extractor: the  *)
(* state getHealth tells, whether initialCatchUp has settled, and whether it *)
(* is writing; CaptureQueue has its inside.                                  *)
EXTENDS Integers, Sequences

CONSTANTS
  Adapters,   \* captureRegistrations, in the order of their priorities
  None,       \* no component, no handle
  MaxFailures \* bound: calls that throw and adapters that fail

VARIABLES
  phase,     \* where startContextRuntime, or stop, is
  enabled,   \* the adapters the configuration asks for
  status,    \* HealthTracker's status
  component, \* HealthTracker's components, of the adapters
  turn,      \* the registration the runner is at
  troubled,  \* startupUnhealthy
  health,    \* per adapter: what its handle tells, None without a handle
  caught,    \* the adapters whose initialCatchUp has settled
  writing,   \* the adapters with a handler under way
  unstopped, \* the adapters whose stop has thrown
  storage,   \* open or closed
  mcp,       \* the port is served
  failures

adapters == <<health, caught, writing>>
vars == <<phase, enabled, status, component, turn, troubled, adapters, unstopped,
          storage, mcp, failures>>

Ids == {Adapters[i] : i \in DOMAIN Adapters}

Ending == {"stopping", "failing"}

(* What the handle of an adapter tells.                                      *)
Healths == {"starting", "catching_up", "healthy", "unhealthy", "stopped"}

(* A registration is found by its id: no two have the same one.              *)
RuntimeBounds ==
  /\ Adapters \in Seq(Ids)
  /\ \A i, j \in DOMAIN Adapters : Adapters[i] = Adapters[j] => i = j
  /\ None \notin Healths
  /\ MaxFailures \in Nat

Init ==
  /\ phase = "storage"
  /\ enabled \in SUBSET Ids
  /\ status = "starting"
  /\ component = [a \in Ids |-> None]
  /\ turn = 1 /\ troubled = FALSE
  /\ health = [a \in Ids |-> None]
  /\ caught = {} /\ writing = {} /\ unstopped = {}
  /\ storage = "closed" /\ mcp = FALSE
  /\ failures = 0

Faulty == failures < MaxFailures /\ failures' = failures + 1

-------------------------------------------------------------------------------
(* The answer of /healthz.                                                   *)

(* A handle that has stopped is only in order while the daemon stops.        *)
Observed(a) ==
  IF health[a] # "stopped" THEN health[a]
  ELSE IF status = "stopping" THEN "stopping" ELSE "unhealthy"

(* Mutant: the components are observed, the status is the tracker's own.     *)
TrackedStatus == status

(* observe: an adapter that has a handle speaks for itself, but only a       *)
(* healthy status is lowered.                                                *)
ObservedStatus ==
  LET seen == {Observed(a) : a \in {b \in Ids : health[b] # None}}
  IN  CASE status # "healthy" -> status
        [] "unhealthy" \in seen -> "unhealthy"
        [] seen \cap {"starting", "catching_up"} # {} -> "catching_up"
        [] OTHER -> status

ObservedComponent(a) == IF health[a] = None THEN component[a] ELSE Observed(a)

(* handleHealthz: 200 or 503.                                                *)
AnswersOk == mcp /\ ObservedStatus = "healthy"

-------------------------------------------------------------------------------
(* startContextRuntime                                                       *)

(* The PID lock is held; the ledger is opened and its row acquired.          *)
OpenStorage ==
  /\ phase = "storage"
  /\ storage' = "open" /\ phase' = "mcp"
  /\ UNCHANGED <<enabled, status, component, turn, troubled, adapters, unstopped,
                 mcp, failures>>

(* startMcpServer: the port answers before anything is captured.             *)
Listen ==
  /\ phase = "mcp"
  /\ mcp' = TRUE /\ phase' = "adapter"
  /\ UNCHANGED <<enabled, status, component, turn, troubled, adapters, unstopped,
                 storage, failures>>

Current == Adapters[turn]

(* The runner's loop, up to the start of an enabled adapter.                 *)
NextAdapter ==
  /\ phase = "adapter" /\ turn <= Len(Adapters)
  /\ \/ /\ Current \notin enabled
        /\ component' = [component EXCEPT ![Current] = "healthy"]
        /\ turn' = turn + 1
        /\ UNCHANGED <<phase, status>>
     \/ /\ Current \in enabled
        /\ status' = "catching_up"
        /\ component' = [component EXCEPT ![Current] = "starting"]
        /\ phase' = "starting"
        /\ UNCHANGED turn
  /\ UNCHANGED <<enabled, troubled, adapters, unstopped, storage, mcp, failures>>

StartAdapter ==
  /\ phase = "starting"
  /\ health' = [health EXCEPT ![Current] = "starting"]
  /\ component' = [component EXCEPT ![Current] = "catching_up"]
  /\ phase' = "catchUp"
  /\ UNCHANGED <<enabled, status, turn, troubled, caught, writing, unstopped,
                 storage, mcp, failures>>

(* Mutant: the next adapter is started without waiting for this one.         *)
CaughtUpAnyhow ==
  /\ phase = "catchUp"
  /\ component' = [component EXCEPT ![Current] = Observed(Current)]
  /\ troubled' = (troubled \/ Observed(Current) = "unhealthy")
  /\ turn' = turn + 1 /\ phase' = "adapter"
  /\ UNCHANGED <<enabled, status, adapters, unstopped, storage, mcp, failures>>

CaughtUp ==
  /\ phase = "catchUp" /\ Current \in caught
  /\ component' = [component EXCEPT ![Current] = Observed(Current)]
  /\ troubled' = (troubled \/ Observed(Current) = "unhealthy")
  /\ turn' = turn + 1 /\ phase' = "adapter"
  /\ UNCHANGED <<enabled, status, adapters, unstopped, storage, mcp, failures>>

Started ==
  /\ phase = "adapter" /\ turn > Len(Adapters)
  /\ status' = IF troubled THEN "unhealthy" ELSE "healthy"
  /\ phase' = "running"
  /\ UNCHANGED <<enabled, component, turn, troubled, adapters, unstopped, storage,
                 mcp, failures>>

(* The ledger, the port or an adapter does not open: the catch block.        *)
StartFails ==
  /\ phase \in {"storage", "mcp", "starting"} /\ Faulty
  /\ status' = "unhealthy"
  /\ phase' = "failing" /\ turn' = Len(Adapters)
  /\ UNCHANGED <<enabled, component, troubled, adapters, unstopped, storage, mcp>>

-------------------------------------------------------------------------------
(* stop, and the rest of the catch block.                                    *)

Stop ==
  /\ phase = "running"
  /\ status' = "stopping"
  /\ phase' = "stopping" /\ turn' = Len(Adapters)
  /\ UNCHANGED <<enabled, component, troubled, adapters, unstopped, storage, mcp,
                 failures>>

(* The runner's stop takes the handles in reverse: a handle is told, and     *)
(* returns when its catch-up and its handler have ended.                     *)
StopAdapter ==
  /\ phase \in Ending /\ turn > 0 /\ health[Current] \notin {None, "stopped"}
  /\ health' = [health EXCEPT ![Current] = "stopped"]
  /\ UNCHANGED <<phase, enabled, status, component, turn, troubled, caught, writing,
                 unstopped, storage, mcp, failures>>

(* Mutant: a handle is told to stop and not waited for.                      *)
AdapterToldToStop ==
  /\ phase \in Ending /\ turn > 0 /\ health[Current] \in {None, "stopped"}
  /\ turn' = turn - 1
  /\ UNCHANGED <<phase, enabled, status, component, troubled, adapters, unstopped,
                 storage, mcp, failures>>

AdapterStopped ==
  /\ phase \in Ending /\ turn > 0
  /\ \/ health[Current] = None
     \/ health[Current] = "stopped" /\ Current \in caught /\ Current \notin writing
  /\ turn' = turn - 1
  /\ UNCHANGED <<phase, enabled, status, component, troubled, adapters, unstopped,
                 storage, mcp, failures>>

(* onStopError: the error is logged, and the next handle is stopped.         *)
StopThrows ==
  /\ phase \in Ending /\ turn > 0 /\ health[Current] = "stopped" /\ Faulty
  /\ unstopped' = unstopped \cup {Current}
  /\ turn' = turn - 1
  /\ UNCHANGED <<phase, enabled, status, component, troubled, adapters, storage, mcp>>

(* A daemon that stops closes the port after its adapters, one that could    *)
(* not start at the same time.                                               *)
CloseMcp ==
  /\ mcp /\ (phase = "failing" \/ (phase = "stopping" /\ turn = 0))
  /\ mcp' = FALSE
  /\ UNCHANGED <<phase, enabled, status, component, turn, troubled, adapters,
                 unstopped, storage, failures>>

CloseStorage ==
  /\ phase \in Ending /\ turn = 0 /\ ~mcp
  /\ storage' = "closed" /\ phase' = "closed"
  /\ UNCHANGED <<enabled, status, component, turn, troubled, adapters, unstopped,
                 mcp, failures>>

-------------------------------------------------------------------------------
(* What an extractor does on its own.                                        *)

Unless(a, old, new) == health' = [health EXCEPT ![a] = IF @ \in old THEN @ ELSE new]

(* The watcher is ready.                                                     *)
Scans(a) ==
  /\ health[a] = "starting"
  /\ health' = [health EXCEPT ![a] = "catching_up"]
  /\ UNCHANGED <<caught, writing, failures>>

(* initialCatchUp settles: it never rejects, and does not undo a failure.    *)
Settles(a) ==
  /\ health[a] \notin {None, "starting"} /\ a \notin caught /\ a \notin writing
  /\ caught' = caught \cup {a}
  /\ Unless(a, {"unhealthy", "stopped"}, "healthy")
  /\ UNCHANGED <<writing, failures>>

HandlerBegins(a) ==
  /\ health[a] \notin {None, "stopped"} /\ a \notin writing
  /\ writing' = writing \cup {a}
  /\ UNCHANGED <<health, caught, failures>>

HandlerEnds(a) ==
  /\ a \in writing
  /\ writing' = writing \ {a}
  /\ UNCHANGED <<health, caught, failures>>

(* lastError is set, and nothing clears it.                                  *)
Fails(a) ==
  /\ health[a] \notin {None, "stopped", "unhealthy"} /\ Faulty
  /\ health' = [health EXCEPT ![a] = "unhealthy"]
  /\ UNCHANGED <<caught, writing>>

Extractor(a) ==
  /\ Scans(a) \/ Settles(a) \/ HandlerBegins(a) \/ HandlerEnds(a) \/ Fails(a)
  /\ UNCHANGED <<phase, enabled, status, component, turn, troubled, unstopped,
                 storage, mcp>>

Runtime ==
  \/ OpenStorage \/ Listen \/ NextAdapter \/ StartAdapter \/ CaughtUp \/ Started
  \/ StartFails \/ Stop \/ StopAdapter \/ AdapterStopped \/ StopThrows
  \/ CloseMcp \/ CloseStorage

Next == Runtime \/ \E a \in Ids : Extractor(a)

Spec == Init /\ [][Next]_vars

-------------------------------------------------------------------------------
Ready(a) == a \in caught /\ health[a] = "healthy"

(* README: "Health stays starting or catching_up until that work completes." *)
(* Whoever is answered 200 may rely on a daemon that runs, with every        *)
(* enabled adapter caught up and none failed since, and what is said of one  *)
(* adapter holds of it.                                                      *)
HealthIsHonest ==
  /\ AnswersOk =>
       phase = "running" /\ storage = "open" /\ \A a \in enabled : Ready(a)
  /\ mcp => \A a \in enabled : ObservedComponent(a) = "healthy" => Ready(a)

(* context-runtime.ts:41: "started and caught up in sequence so cold-start   *)
(* work cannot multiply": an adapter begins when those before it have caught *)
(* up.                                                                       *)
OneCatchesUp ==
  \A i, j \in DOMAIN Adapters :
    i < j /\ health[Adapters[j]] # None /\ Adapters[i] \in enabled
      => Adapters[i] \in caught

(* The ledger is closed under no handler, however the daemon ends; only one  *)
(* whose stop has thrown is not waited for.                                  *)
ClosedAtRest == storage = "closed" => writing \subseteq unstopped

(* context-runtime.ts: start and stop keep their order, and health tells     *)
(* what is true of it.                                                       *)
RunsInOrder == HealthIsHonest /\ OneCatchesUp /\ ClosedAtRest
===============================================================================
