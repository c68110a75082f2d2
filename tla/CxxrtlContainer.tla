-------------------------- MODULE CxxrtlContainer --------------------------
(***************************************************************************)
(* The CXXRTL client of libsurfer (src/libsurfer/src/cxxrtl_container.rs): *)
(* the caller-side facade CxxrtlContainer, the shared CxxrtlData behind   *)
(* its RwLock, the command channel to the background CxxrtlWorker, the    *)
(* worker's FIFO callback_queue and the simulator at the other end of the  *)
(* ordered transport.                                                      *)
(*                                                                         *)
(* Every facade call takes the data lock for a short section; a section   *)
(* is one action.  query_variable takes the lock three times (status,     *)
(* item table, query) and the worker may apply responses in between, so   *)
(* it is three actions linked by the caller's program counter cpc.        *)
(* The worker and the simulator are not under src/: their actions follow *)
(* the protocol description of the repository (spec sections 4.3 and 6).  *)
(***************************************************************************)
EXTENDS Naturals, Sequences, SequencesExt, TLC

CONSTANTS
    Vars,          \* variable references the caller may load (model values)
    Scopes,        \* scopes whose item lists the caller may fetch
    None,          \* Option::None
    ChanCap,       \* capacity of the mpsc command channel (100 in the code)
    Quantum,       \* run quantum added by unpause (100_000_000 fs in the code)
    LoadInputs,    \* the variable sequences a load_variables call may pass
    MaxLoads,      \* bound on load_variables calls
    MaxPauses,     \* bound on pause calls
    MaxUnpauses,   \* bound on unpause calls
    MaxErrors,     \* bound on responses of the wrong variant
    ErrorKinds,    \* commands the simulator may answer with a wrong variant
    CallerOps      \* the facade calls the caller makes

ASSUME /\ ChanCap \in Nat \ {0}
       /\ Quantum \in Nat \ {0}
       /\ LoadInputs \subseteq Seq(Vars)
       /\ {MaxLoads, MaxPauses, MaxUnpauses, MaxErrors} \subseteq Nat

VARIABLES
    \* CxxrtlData, the state behind the RwLock
    scopesCache, allItemsCache, moduleItemCache, queryResult,
    intervalQueryCache, loadedSignals, signalIndexMap, simulationStatus,
    \* the command channel, the worker's callback_queue, the byte stream
    commandChannel, callbackQueue, toSim, fromSim,
    \* the simulator behind the transport
    sim,
    \* the caller's position inside query_variable and its local max_timestamp
    cpc, qvMax,
    \* the bounds on the caller's calls and on faulty responses
    loads, pauses, unpauses, errors

dataVars == <<scopesCache, allItemsCache, moduleItemCache, queryResult,
              intervalQueryCache, loadedSignals, signalIndexMap,
              simulationStatus>>
pipeVars == <<commandChannel, callbackQueue, toSim, fromSim>>
callerVars == <<cpc, qvMax, loads, pauses, unpauses>>
vars == <<dataVars, pipeVars, sim, callerVars, errors>>

-----------------------------------------------------------------------------
(* CachedData<T>: Uncached{prev}, Waiting{prev}, Filled(v).  An Arc held   *)
(* as prev or as the filled value is the cell's val.                       *)

Uncached(p) == [st |-> "Uncached", val |-> p]
Waiting(p) == [st |-> "Waiting", val |-> p]
Filled(v) == [st |-> "Filled", val |-> v]

\* CachedData::empty
EmptyCell == Uncached(None)

\* make_uncached: every state keeps its value as prev
MakeUncached(c) == Uncached(c.val)

\* fetch_if_needed that calls f on every miss, Waiting included
NeedsFetchOnMiss(c) == c.st # "Filled"
\* fetch_if_needed calls f only on Uncached, and then moves to Waiting
NeedsFetch(c) == c.st = "Uncached"
AfterFetch(c) == IF c.st = "Uncached" THEN Waiting(c.val) ELSE c

\* get / the value fetch_if_needed returns: prev, prev, or the filled value
Get(c) == c.val

Cell(V) == [st : {"Uncached", "Waiting"}, val : V \cup {None}]
           \cup [st : {"Filled"}, val : V]

-----------------------------------------------------------------------------
(* Payloads.  The design's scope list and item table never change, so a   *)
(* filled value is a token; statuses and timestamps are kept exactly.      *)

ScopeList == "scope_list"
ItemTable == "item_table"
StatusValue == [status : {"running", "paused"}, latest : Nat]
NoInterval == [signals |-> <<>>, columns |-> <<>>, window |-> 0]

(* Commands (CxxrtlCommand) and callbacks (the closures given to           *)
(* run_command, as the tagged pending operation they capture).             *)
ListScopes == [kind |-> "list_scopes"]
\* list_items built as the list_scopes variant
ListItemsAsScopes(s) == [kind |-> "list_scopes"]
ListItems(s) == [kind |-> "list_items", scope |-> s]
ReferenceItems(l) == [kind |-> "reference_items", items |-> l]
QueryInterval(t) == [kind |-> "query_interval", end |-> t]
GetSimulationStatus == [kind |-> "get_simulation_status"]
RunSimulation(t) == [kind |-> "run_simulation", until |-> t]
PauseSimulation == [kind |-> "pause_simulation"]

CmdKinds == {"list_scopes", "list_items", "reference_items",
             "query_interval", "get_simulation_status", "run_simulation",
             "pause_simulation"}

\* A channel without backpressure: the send never waits for room
RunCommandsUnbounded(pairs) ==
    /\ commandChannel' = commandChannel \o pairs

\* run_command: block_on(command_channel.send(..)) for each pair in order;
\* the caller waits while the channel has no room
RunCommands(pairs) ==
    /\ Len(commandChannel) + Len(pairs) <= ChanCap
    /\ commandChannel' = commandChannel \o pairs

RunCommand(cmd, cb) == RunCommands(<<[cmd |-> cmd, cb |-> cb]>>)

-----------------------------------------------------------------------------
Init ==
    /\ scopesCache = EmptyCell
    /\ allItemsCache = EmptyCell
    /\ moduleItemCache = [s \in Scopes |-> EmptyCell]
    /\ queryResult = EmptyCell
    /\ intervalQueryCache = NoInterval
    /\ loadedSignals = <<>>
    /\ signalIndexMap = [v \in {} |-> 0]
    /\ simulationStatus = EmptyCell
    /\ commandChannel = <<>>
    /\ callbackQueue = <<>>
    /\ toSim = <<>>
    /\ fromSim = <<>>
    /\ sim = [status |-> "paused", time |-> 0, until |-> 0, ref |-> <<>>]
    /\ cpc = "idle"
    /\ qvMax = 0
    /\ loads = 0 /\ pauses = 0 /\ unpauses = 0 /\ errors = 0

-----------------------------------------------------------------------------
(* Facade calls (the caller's thread).                                     *)

\* get_scopes (and modules, root_modules, module_exists, child_scopes)
GetScopes ==
    /\ cpc = "idle"
    /\ NeedsFetch(scopesCache)
    /\ RunCommand(ListScopes, [op |-> "scopes"])
    /\ scopesCache' = AfterFetch(scopesCache)
    /\ UNCHANGED <<allItemsCache, moduleItemCache, queryResult,
                   intervalQueryCache, loadedSignals, signalIndexMap,
                   simulationStatus, callbackQueue, toSim, fromSim, sim,
                   callerVars, errors>>

\* fetch_item / fetch_all_items (variable_meta): the whole item table
FetchAllItems ==
    /\ cpc = "idle"
    /\ NeedsFetch(allItemsCache)
    /\ RunCommand(ListItems(None), [op |-> "all_items"])
    /\ allItemsCache' = AfterFetch(allItemsCache)
    /\ UNCHANGED <<scopesCache, moduleItemCache, queryResult,
                   intervalQueryCache, loadedSignals, signalIndexMap,
                   simulationStatus, callbackQueue, toSim, fromSim, sim,
                   callerVars, errors>>

\* fetch_items_in_module (variables_in_module, no_variables_in_module)
FetchItemsInModule(s) ==
    /\ cpc = "idle"
    /\ NeedsFetch(moduleItemCache[s])
    /\ RunCommand(ListItems(s), [op |-> "module_items", scope |-> s])
    /\ moduleItemCache' = [moduleItemCache EXCEPT ![s] = AfterFetch(@)]
    /\ UNCHANGED <<scopesCache, allItemsCache, queryResult,
                   intervalQueryCache, loadedSignals, signalIndexMap,
                   simulationStatus, callbackQueue, toSim, fromSim, sim,
                   callerVars, errors>>

\* The lock section of raw_simulation_status: fetch_if_needed on the status
FetchStatus ==
    \/ /\ NeedsFetch(simulationStatus)
       /\ RunCommand(GetSimulationStatus, [op |-> "status"])
       /\ simulationStatus' = AfterFetch(simulationStatus)
    \/ /\ ~NeedsFetch(simulationStatus)
       /\ UNCHANGED <<simulationStatus, commandChannel>>

\* raw_simulation_status on its own (simulation_status, max_timestamp)
RawSimulationStatus ==
    /\ cpc = "idle"
    /\ NeedsFetch(simulationStatus)
    /\ FetchStatus
    /\ UNCHANGED <<scopesCache, allItemsCache, moduleItemCache, queryResult,
                   intervalQueryCache, loadedSignals, signalIndexMap,
                   callbackQueue, toSim, fromSim, sim, callerVars, errors>>

(* query_variable, first lock section: max_timestamp().  With no status   *)
(* yet the call returns None; otherwise the latest time is kept in qvMax. *)
QvStatus ==
    /\ cpc = "idle"
    /\ FetchStatus
    /\ \/ /\ Get(simulationStatus) = None
          /\ UNCHANGED <<cpc, qvMax>>
       \/ /\ Get(simulationStatus) # None
          /\ cpc' = "qv_items"
          /\ qvMax' = Get(simulationStatus).latest
    /\ UNCHANGED <<scopesCache, allItemsCache, moduleItemCache, queryResult,
                   intervalQueryCache, loadedSignals, signalIndexMap,
                   callbackQueue, toSim, fromSim, sim, loads, pauses,
                   unpauses, errors>>

(* query_variable, second lock section: fetch_all_items()?                 *)
QvItems ==
    /\ cpc = "qv_items"
    /\ \/ /\ NeedsFetch(allItemsCache)
          /\ RunCommand(ListItems(None), [op |-> "all_items"])
          /\ allItemsCache' = AfterFetch(allItemsCache)
       \/ /\ ~NeedsFetch(allItemsCache)
          /\ UNCHANGED <<allItemsCache, commandChannel>>
    /\ cpc' = IF Get(allItemsCache) = None THEN "idle" ELSE "qv_query"
    /\ UNCHANGED <<scopesCache, moduleItemCache, queryResult,
                   intervalQueryCache, loadedSignals, signalIndexMap,
                   simulationStatus, callbackQueue, toSim, fromSim, sim,
                   qvMax, loads, pauses, unpauses, errors>>

\* A query section that marks the cell Waiting but never sends the command
QvQueryUnsent ==
    /\ cpc = "qv_query"
    /\ queryResult' = AfterFetch(queryResult)
    /\ cpc' = "idle"
    /\ UNCHANGED <<scopesCache, allItemsCache, moduleItemCache,
                   intervalQueryCache, loadedSignals, signalIndexMap,
                   simulationStatus, pipeVars, sim, qvMax, loads, pauses,
                   unpauses, errors>>

(* query_variable, last lock section: the loaded_signals snapshot and      *)
(* fetch_if_needed on query_result with a query_interval over [0, qvMax]. *)
(* The callback captures qvMax and the snapshot (the move closure).       *)
QvQuery ==
    /\ cpc = "qv_query"
    /\ \/ /\ NeedsFetch(queryResult)
          /\ RunCommand(QueryInterval(qvMax),
                        [op |-> "query", max |-> qvMax,
                         signals |-> loadedSignals])
          /\ queryResult' = AfterFetch(queryResult)
       \/ /\ ~NeedsFetch(queryResult)
          /\ UNCHANGED <<queryResult, commandChannel>>
    /\ cpc' = "idle"
    /\ UNCHANGED <<scopesCache, allItemsCache, moduleItemCache,
                   intervalQueryCache, loadedSignals, signalIndexMap,
                   simulationStatus, callbackQueue, toSim, fromSim, sim,
                   qvMax, loads, pauses, unpauses, errors>>

\* A load loop that pushes without looking the variable up first
LoadOneUnchecked(acc, v) ==
    [seq |-> Append(acc.seq, v), map |-> acc.map @@ (v :> Len(acc.seq))]

\* One iteration of load_variables' loop: a new variable gets the next index
LoadOne(acc, v) ==
    IF v \in DOMAIN acc.map
    THEN acc
    ELSE [seq |-> Append(acc.seq, v),
          map |-> acc.map @@ (v :> Len(acc.seq))]

(* load_variables: register the variables, then (still under the lock)    *)
(* send reference_items with every loaded signal.                          *)
LoadVariables(vs) ==
    LET new == FoldLeft(LoadOne,
                        [seq |-> loadedSignals, map |-> signalIndexMap], vs)
    IN /\ cpc = "idle"
       /\ loads < MaxLoads
       /\ loadedSignals' = new.seq
       /\ signalIndexMap' = new.map
       /\ RunCommand(ReferenceItems(new.seq), [op |-> "reference"])
       /\ loads' = loads + 1
       /\ UNCHANGED <<scopesCache, allItemsCache, moduleItemCache,
                      queryResult, intervalQueryCache, simulationStatus,
                      callbackQueue, toSim, fromSim, sim, cpc, qvMax,
                      pauses, unpauses, errors>>

\* pause
Pause ==
    /\ cpc = "idle"
    /\ pauses < MaxPauses
    /\ RunCommand(PauseSimulation, [op |-> "pause"])
    /\ pauses' = pauses + 1
    /\ UNCHANGED <<dataVars, callbackQueue, toSim, fromSim, sim, cpc, qvMax,
                   loads, unpauses, errors>>

\* unpause: raw_simulation_status, then run until latest_time + quantum
\* (quantum alone when no status is known)
UnpauseTarget(st) == IF st = None THEN Quantum ELSE st.latest + Quantum

Unpause ==
    LET run == [cmd |-> RunSimulation(UnpauseTarget(Get(simulationStatus))),
                cb |-> [op |-> "unpause"]]
    IN /\ cpc = "idle"
       /\ unpauses < MaxUnpauses
       /\ \/ /\ NeedsFetch(simulationStatus)
             /\ RunCommands(<<[cmd |-> GetSimulationStatus,
                               cb |-> [op |-> "status"]], run>>)
             /\ simulationStatus' = AfterFetch(simulationStatus)
          \/ /\ ~NeedsFetch(simulationStatus)
             /\ RunCommands(<<run>>)
             /\ UNCHANGED simulationStatus
       /\ unpauses' = unpauses + 1
       /\ UNCHANGED <<scopesCache, allItemsCache, moduleItemCache,
                      queryResult, intervalQueryCache, loadedSignals,
                      signalIndexMap, callbackQueue, toSim, fromSim, sim,
                      cpc, qvMax, loads, pauses, errors>>

-----------------------------------------------------------------------------
(* The callbacks, run by the worker with the data lock held.  Those that   *)
(* use expect_response! return without any change on another variant.     *)

\* invalidate_query_result
InvalidateQueryResult ==
    queryResult' = MakeUncached(queryResult)

\* on_simulation_status_update: fill the status, invalidate the query
OnSimulationStatusUpdate(s) ==
    /\ simulationStatus' = Filled(s)
    /\ InvalidateQueryResult

ScopesCallback(resp) ==
    /\ resp.kind = "list_scopes"
    /\ scopesCache' = Filled(ScopeList)
    /\ UNCHANGED <<allItemsCache, moduleItemCache, queryResult,
                   intervalQueryCache, loadedSignals, signalIndexMap,
                   simulationStatus>>

AllItemsCallback(resp) ==
    /\ resp.kind = "list_items"
    /\ allItemsCache' = Filled(ItemTable)
    /\ UNCHANGED <<scopesCache, moduleItemCache, queryResult,
                   intervalQueryCache, loadedSignals, signalIndexMap,
                   simulationStatus>>

ModuleItemsCallback(s, resp) ==
    /\ resp.kind = "list_items"
    /\ moduleItemCache' = [moduleItemCache EXCEPT ![s] = Filled(ItemTable)]
    /\ UNCHANGED <<scopesCache, allItemsCache, queryResult,
                   intervalQueryCache, loadedSignals, signalIndexMap,
                   simulationStatus>>

\* A query callback that decodes against the loaded_signals of the moment
\* the response arrives instead of the captured snapshot
QueryCallbackLive(cb, resp) ==
    /\ resp.kind = "query_interval"
    /\ queryResult' = Filled(cb.max)
    /\ intervalQueryCache' = [signals |-> loadedSignals,
                              columns |-> resp.columns,
                              window |-> resp.end]
    /\ UNCHANGED <<scopesCache, allItemsCache, moduleItemCache,
                   loadedSignals, signalIndexMap, simulationStatus>>

\* query_result is filled with the captured max_timestamp and the samples
\* are decoded column by column against the captured loaded_signals
QueryCallback(cb, resp) ==
    /\ resp.kind = "query_interval"
    /\ queryResult' = Filled(cb.max)
    /\ intervalQueryCache' = [signals |-> cb.signals,
                              columns |-> resp.columns,
                              window |-> resp.end]
    /\ UNCHANGED <<scopesCache, allItemsCache, moduleItemCache,
                   loadedSignals, signalIndexMap, simulationStatus>>

\* A reference callback that forgets to invalidate the query result
ReferenceCallbackKeep(resp) ==
    UNCHANGED dataVars

\* load_variables' callback ignores the response
ReferenceCallback(resp) ==
    /\ InvalidateQueryResult
    /\ UNCHANGED <<scopesCache, allItemsCache, moduleItemCache,
                   intervalQueryCache, loadedSignals, signalIndexMap,
                   simulationStatus>>

StatusCallback(resp) ==
    /\ resp.kind = "get_simulation_status"
    /\ OnSimulationStatusUpdate([status |-> resp.status, latest |-> resp.time])
    /\ UNCHANGED <<scopesCache, allItemsCache, moduleItemCache,
                   intervalQueryCache, loadedSignals, signalIndexMap>>

\* unpause's callback ignores the response and sets running at time zero
UnpauseCallback(resp) ==
    /\ simulationStatus' = Filled([status |-> "running", latest |-> 0])
    /\ UNCHANGED <<scopesCache, allItemsCache, moduleItemCache, queryResult,
                   intervalQueryCache, loadedSignals, signalIndexMap>>

PauseCallback(resp) ==
    /\ resp.kind = "pause_simulation"
    /\ OnSimulationStatusUpdate([status |-> "paused", latest |-> resp.time])
    /\ UNCHANGED <<scopesCache, allItemsCache, moduleItemCache,
                   intervalQueryCache, loadedSignals, signalIndexMap>>

\* expect_response!: the variant does not match, log and return
Expected(op) ==
    CASE op = "scopes" -> "list_scopes"
      [] op = "all_items" -> "list_items"
      [] op = "module_items" -> "list_items"
      [] op = "query" -> "query_interval"
      [] op = "status" -> "get_simulation_status"
      [] op = "pause" -> "pause_simulation"
      [] OTHER -> None

UnexpectedResponse(cb, resp) ==
    /\ Expected(cb.op) # None
    /\ resp.kind # Expected(cb.op)
    /\ UNCHANGED dataVars

ApplyCallback(cb, resp) ==
    \/ cb.op = "scopes" /\ ScopesCallback(resp)
    \/ cb.op = "all_items" /\ AllItemsCallback(resp)
    \/ cb.op = "module_items" /\ ModuleItemsCallback(cb.scope, resp)
    \/ cb.op = "query" /\ QueryCallback(cb, resp)
    \/ cb.op = "reference" /\ ReferenceCallback(resp)
    \/ cb.op = "status" /\ StatusCallback(resp)
    \/ cb.op = "unpause" /\ UnpauseCallback(resp)
    \/ cb.op = "pause" /\ PauseCallback(resp)
    \/ UnexpectedResponse(cb, resp)

-----------------------------------------------------------------------------
(* The worker (CxxrtlWorker): outbound writes the channel's oldest command *)
(* and queues its callback; inbound pops the oldest callback for the next *)
(* response and runs it under the data lock.                               *)

WorkerSend ==
    /\ commandChannel # <<>>
    /\ LET e == Head(commandChannel)
       IN /\ toSim' = Append(toSim, e.cmd)
          /\ callbackQueue' = Append(callbackQueue,
                                     [cb |-> e.cb, for |-> e.cmd.kind])
    /\ commandChannel' = Tail(commandChannel)
    /\ UNCHANGED <<dataVars, fromSim, sim, callerVars, errors>>

WorkerDispatch ==
    /\ fromSim # <<>>
    /\ callbackQueue # <<>>
    /\ ApplyCallback(Head(callbackQueue).cb, Head(fromSim))
    /\ callbackQueue' = Tail(callbackQueue)
    /\ fromSim' = Tail(fromSim)
    /\ UNCHANGED <<commandChannel, toSim, sim, callerVars, errors>>

-----------------------------------------------------------------------------
(* The simulator: answers commands in order.                               *)

Answer(c) ==
    CASE c.kind = "query_interval" ->
              [kind |-> c.kind, columns |-> sim.ref, end |-> c.end]
      [] c.kind = "get_simulation_status" ->
              [kind |-> c.kind, status |-> sim.status, time |-> sim.time]
      [] c.kind = "pause_simulation" ->
              [kind |-> c.kind, time |-> sim.time]
      [] OTHER -> [kind |-> c.kind]

Effect(c) ==
    CASE c.kind = "reference_items" -> [sim EXCEPT !.ref = c.items]
      [] c.kind = "run_simulation" ->
              [sim EXCEPT !.status = "running", !.until = c.until]
      [] c.kind = "pause_simulation" -> [sim EXCEPT !.status = "paused"]
      [] OTHER -> sim

SimHandle ==
    /\ toSim # <<>>
    /\ fromSim' = Append(fromSim, Answer(Head(toSim)))
    /\ sim' = Effect(Head(toSim))
    /\ toSim' = Tail(toSim)
    /\ UNCHANGED <<dataVars, commandChannel, callbackQueue, callerVars,
                   errors>>

\* The simulator answers with another variant (an error) and changes nothing
SimError ==
    /\ toSim # <<>>
    /\ Head(toSim).kind \in ErrorKinds
    /\ errors < MaxErrors
    /\ fromSim' = Append(fromSim, [kind |-> "error", to |-> Head(toSim).kind])
    /\ toSim' = Tail(toSim)
    /\ errors' = errors + 1
    /\ UNCHANGED <<dataVars, commandChannel, callbackQueue, sim, callerVars>>

SimAdvance ==
    /\ sim.status = "running"
    /\ sim.time < sim.until
    /\ sim' = [sim EXCEPT !.time = @ + 1]
    /\ UNCHANGED <<dataVars, pipeVars, callerVars, errors>>

SimReachUntil ==
    /\ sim.status = "running"
    /\ sim.time >= sim.until
    /\ sim' = [sim EXCEPT !.status = "paused"]
    /\ UNCHANGED <<dataVars, pipeVars, callerVars, errors>>

-----------------------------------------------------------------------------
Caller ==
    \/ "get_scopes" \in CallerOps /\ GetScopes
    \/ "fetch_all_items" \in CallerOps /\ FetchAllItems
    \/ "fetch_items_in_module" \in CallerOps
         /\ \E s \in Scopes : FetchItemsInModule(s)
    \/ "simulation_status" \in CallerOps /\ RawSimulationStatus
    \/ "query_variable" \in CallerOps /\ (QvStatus \/ QvItems \/ QvQuery)
    \/ "load_variables" \in CallerOps
         /\ \E vs \in LoadInputs : LoadVariables(vs)
    \/ "pause" \in CallerOps /\ Pause
    \/ "unpause" \in CallerOps /\ Unpause

Worker == WorkerSend \/ WorkerDispatch

Simulator == SimHandle \/ SimError \/ SimAdvance \/ SimReachUntil

Next == Caller \/ Worker \/ Simulator

(* The worker task runs whenever it has work, and the simulator is assumed *)
(* to answer and to run; the caller (the UI) may stop calling at any time. *)
Fairness ==
    /\ WF_vars(WorkerSend)
    /\ WF_vars(WorkerDispatch)
    /\ WF_vars(SimHandle)
    /\ WF_vars(SimAdvance)
    /\ WF_vars(SimReachUntil)

Spec == Init /\ [][Next]_vars /\ Fairness
-----------------------------------------------------------------------------
(* Properties                                                              *)

Callbacks ==
    [op : {"scopes", "all_items", "reference", "status", "unpause", "pause"}]
    \cup [op : {"query"}, max : Nat, signals : Seq(Vars)]
    \cup [op : {"module_items"}, scope : Scopes]

TypeOK ==
    /\ scopesCache \in Cell({ScopeList})
    /\ allItemsCache \in Cell({ItemTable})
    /\ moduleItemCache \in [Scopes -> Cell({ItemTable})]
    /\ queryResult \in Cell(Nat)
    /\ intervalQueryCache \in [signals : Seq(Vars), columns : Seq(Vars),
                               window : Nat]
    /\ loadedSignals \in Seq(Vars)
    /\ DOMAIN signalIndexMap \subseteq Vars
    /\ simulationStatus \in Cell(StatusValue)
    /\ \A i \in DOMAIN commandChannel :
          /\ commandChannel[i].cmd.kind \in CmdKinds
          /\ commandChannel[i].cb \in Callbacks
    /\ Len(commandChannel) <= ChanCap
    /\ \A i \in DOMAIN callbackQueue : callbackQueue[i].cb \in Callbacks
    /\ \A i \in DOMAIN toSim : toSim[i].kind \in CmdKinds
    /\ \A i \in DOMAIN fromSim : fromSim[i].kind \in CmdKinds \cup {"error"}
    /\ sim.status \in {"running", "paused"}
    /\ sim.ref \in Seq(Vars)
    /\ cpc \in {"idle", "qv_items", "qv_query"}

\* Callbacks with the given op queued in the channel or in callback_queue
Pending(op) ==
    SelectSeq(commandChannel, LAMBDA e : e.cb.op = op)
      \o SelectSeq(callbackQueue, LAMBDA e : e.cb.op = op)

Outstanding(op) == Pending(op) # <<>>

\* The command kind a response answers
AnswersTo(resp) == IF resp.kind = "error" THEN resp.to ELSE resp.kind

(* Responses are matched to callbacks by position only (callback_queue is *)
(* FIFO, the wire is ordered): every callback the worker runs is given    *)
(* the answer to its own command, so expect_response! only ever returns   *)
(* early on an error answer, never on another command's answer.           *)
ResponseMatchesCallback ==
    [][callbackQueue # <<>> /\ Len(callbackQueue') < Len(callbackQueue)
         => /\ AnswersTo(Head(fromSim)) = Head(callbackQueue).for
            /\ Expected(Head(callbackQueue).cb.op)
                 \in {None, AnswersTo(Head(fromSim))}]_vars

(* The interval cache decodes each sample's columns in the order of the   *)
(* loaded_signals snapshot the query callback captured; the simulator     *)
(* produced them in the order of its reference.  They must agree.         *)
ColumnsMatch ==
    intervalQueryCache.signals = intervalQueryCache.columns

(* A filled query_result holds samples for exactly the loaded signals,    *)
(* unless a reference_items of load_variables is still unanswered (its   *)
(* callback will invalidate the query).                                   *)
QueryColumnsCoherent ==
    queryResult.st = "Filled" /\ ~Outstanding("reference")
        => intervalQueryCache.signals = loadedSignals

(* load_variables keeps loaded_signals and signal_index_map inverse: each *)
(* variable once, at the position it got when first loaded.               *)
IndexMapInverse ==
    /\ IsInjective(loadedSignals)
    /\ DOMAIN signalIndexMap = ToSet(loadedSignals)
    /\ \A v \in DOMAIN signalIndexMap :
          loadedSignals[signalIndexMap[v] + 1] = v

(* A query_interval request that was issued is eventually answered:       *)
(* query_result does not stay Waiting (liveness, no lost responses).      *)
QueryEventuallyAnswered ==
    queryResult.st = "Waiting" ~> queryResult.st # "Waiting"

(* At most one query_interval for query_result is in flight (spec: the    *)
(* cell moves to Refreshing once per miss).                               *)
OneOutstandingQuery ==
    Len(Pending("query")) <= 1

(* unpause asks the simulator to run to the latest time plus a quantum, so *)
(* a run target never lies before the previous one.                       *)
RunTargetsNeverRegress ==
    [][SimHandle /\ Head(toSim).kind = "run_simulation"
         => Head(toSim).until >= sim.until]_vars

(* Once every status-changing command is answered, the query window that  *)
(* is displayed (max_displayed_timestamp) ends at the latest time of the  *)
(* status (max_timestamp).                                                 *)
QueryWindowCoherent ==
    /\ queryResult.st = "Filled"
    /\ simulationStatus.st = "Filled"
    /\ \A op \in {"status", "pause", "unpause"} : ~Outstanding(op)
    => Get(queryResult) = Get(simulationStatus).latest

-----------------------------------------------------------------------------
(* Refinement: the static cells (scopes, all items, items per module)     *)
(* implement the cell contract of CachedCell, with Uncached, Waiting and  *)
(* Filled read as Absent, Refreshing and Filled.                           *)

AbsState(c) == CASE c.st = "Uncached" -> "Absent"
                 [] c.st = "Waiting" -> "Refreshing"
                 [] c.st = "Filled" -> "Filled"

\* The requests in flight for a per-module item table.
PendingModuleItems(s) ==
    SelectSeq(Pending("module_items"), LAMBDA e : e.cb.scope = s)

ScopesCell == INSTANCE CachedCell
    WITH Values <- {ScopeList}, st <- AbsState(scopesCache),
         val <- scopesCache.val, pending <- Len(Pending("scopes"))
AllItemsCell == INSTANCE CachedCell
    WITH Values <- {ItemTable}, st <- AbsState(allItemsCache),
         val <- allItemsCache.val, pending <- Len(Pending("all_items"))
ModuleItemsCell(s) == INSTANCE CachedCell
    WITH Values <- {ItemTable}, st <- AbsState(moduleItemCache[s]),
         val <- moduleItemCache[s].val, pending <- Len(PendingModuleItems(s))
\* The scope list, the item table and the per-module item tables are asked
\* for once per miss: fetch_if_needed sends no second list_scopes or
\* list_items while one is in flight (fetch_all_items and query_variable
\* both ask for the item table), and a cell is filled only by the answer
\* to a request it issued, even when an answer is an error variant or
\* arrives among the answers to loads, pauses and queries.
\* (simulation_status is left out: unpause fills it optimistically, as the
\* design's section 4.5 allows.)
StaticCellsRefineCachedCell ==
    /\ ScopesCell!Spec
    /\ AllItemsCell!Spec
    /\ \A s \in Scopes : ModuleItemsCell(s)!Init
    /\ [][\A s \in Scopes :
            [ModuleItemsCell(s)!Next]_<<moduleItemCache[s], Len(PendingModuleItems(s))>>]_vars


=============================================================================
