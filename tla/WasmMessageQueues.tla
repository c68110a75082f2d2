-------------------------- MODULE WasmMessageQueues --------------------------
(***************************************************************************)
(* The JavaScript-facing glue of the web build (wasm_api.rs).              *)
(*                                                                         *)
(* JavaScript calls exported async functions; each call is a task of the   *)
(* single-threaded wasm runtime, and tasks interleave only where they      *)
(* await.  They talk to the UI through two globals:                        *)
(*   - MESSAGE_QUEUE, a Vec<Message>: inject_message, start_cxxrtl,        *)
(*     start_wcp and draw_text_arrow push onto it;                         *)
(*   - QUERY_QUEUE, a VecDeque of callbacks, each with a oneshot sender:   *)
(*     id_of_name and perform_query (index_of_name, waves_loaded,          *)
(*     spade_loaded) push a callback and await the oneshot.                *)
(* A frame runs State::handle_wasm_external_messages: it pops messages     *)
(* with Vec::pop and applies each with State::update, then pops callbacks  *)
(* from the front, runs each on the state and fires its oneshot.  A frame  *)
(* runs when try_repaint asked for one (only once WebHandle::start has set *)
(* EGUI_CONTEXT) or when the user interacts with the page.                 *)
(*                                                                         *)
(* The UI state is abstracted to the log of messages State::update has     *)
(* applied.  A message is named by the task that pushed it.                *)
(***************************************************************************)
EXTENDS Naturals, Sequences, SequencesExt

CONSTANTS
    Tasks,     \* the JavaScript calls made
    Kind       \* Kind[t]: which exported function task t calls

Kinds == {"inject", "start_cxxrtl", "start_wcp", "query", "draw_text_arrow"}

ASSUME Kind \in [Tasks -> Kinds]

\* A query callback: the task and which of its queries (draw_text_arrow
\* asks id_of_name twice).
QueryIds == Tasks \X {1, 2}

VARIABLES
    pc,           \* pc[t]: where task t is
    msgQueue,     \* MESSAGE_QUEUE, bottom first
    queryQueue,   \* QUERY_QUEUE, front first
    executed,     \* queries whose oneshot has fired
    applied,      \* messages State::update has applied, in order
    ctx,          \* EGUI_CONTEXT is set
    repaint,      \* a repaint has been requested and not yet run
    pushed,       \* history: messages in the order they were pushed
    before,       \* history: before[q] = messages pushed before query q
    observed      \* history: observed[q] = messages applied when q ran

vars == <<pc, msgQueue, queryQueue, executed, applied, ctx, repaint,
          pushed, before, observed>>

Init ==
    /\ pc = [t \in Tasks |-> "start"]
    /\ msgQueue = <<>>
    /\ queryQueue = <<>>
    /\ executed = {}
    /\ applied = <<>>
    /\ ctx = FALSE
    /\ repaint = FALSE
    /\ pushed = <<>>
    /\ before = [q \in QueryIds |-> {}]
    /\ observed = [q \in QueryIds |-> {}]

\* try_repaint: request_repaint on the context, or a warning when
\* EGUI_CONTEXT is not set yet.
TryRepaint == repaint' = (repaint \/ ctx)

\* block_on(MESSAGE_QUEUE.lock()).push(m)
PushMessage(t) ==
    /\ msgQueue' = Append(msgQueue, t)
    /\ pushed' = Append(pushed, t)

\* QUERY_QUEUE.lock().await.push_back(Callback { .. })
PushQuery(q) ==
    /\ queryQueue' = Append(queryQueue, q)
    /\ before' = [before EXCEPT ![q] = ToSet(pushed)]

\* id_of_name: push a callback that looks the name up among the displayed
\* items, try_repaint, then await the oneshot.
IdOfName(q) == PushQuery(q) /\ TryRepaint

-----------------------------------------------------------------------------
(* WebHandle::start: the app creator stores the context in EGUI_CONTEXT;   *)
(* the runner then paints a first frame.                                   *)

Start ==
    /\ ~ctx
    /\ ctx' = TRUE
    /\ repaint' = TRUE
    /\ UNCHANGED <<pc, msgQueue, queryQueue, executed, applied, pushed,
                   before, observed>>

-----------------------------------------------------------------------------
(* The JavaScript tasks.                                                   *)

\* inject_message that pushes without asking for a repaint.
InjectMessageNoRepaint(t) ==
    /\ Kind[t] = "inject" /\ pc[t] = "start"
    /\ pc' = [pc EXCEPT ![t] = "done"]
    /\ \/ PushMessage(t) /\ UNCHANGED repaint
       \/ UNCHANGED <<msgQueue, pushed, repaint>>
    /\ UNCHANGED <<queryQueue, executed, applied, ctx, before, observed>>

\* inject_message: a message that deserialises is pushed and a repaint
\* requested; one that does not is logged and dropped.
InjectMessage(t) ==
    /\ Kind[t] = "inject" /\ pc[t] = "start"
    /\ pc' = [pc EXCEPT ![t] = "done"]
    /\ \/ PushMessage(t) /\ TryRepaint
       \/ UNCHANGED <<msgQueue, pushed, repaint>>
    /\ UNCHANGED <<queryQueue, executed, applied, ctx, before, observed>>

\* start_cxxrtl / start_wcp push their Setup message and return; they do
\* not call try_repaint.
StartChannel(t) ==
    /\ Kind[t] \in {"start_cxxrtl", "start_wcp"} /\ pc[t] = "start"
    /\ pc' = [pc EXCEPT ![t] = "done"]
    /\ PushMessage(t)
    /\ UNCHANGED <<queryQueue, executed, applied, ctx, repaint, before, observed>>

\* perform_query / id_of_name without the repaint request.
PerformQueryNoRepaint(t) ==
    /\ Kind[t] = "query" /\ pc[t] = "start"
    /\ pc' = [pc EXCEPT ![t] = "wait1"]
    /\ PushQuery(<<t, 1>>)
    /\ UNCHANGED <<msgQueue, executed, applied, ctx, repaint, pushed, observed>>

\* index_of_name, waves_loaded and spade_loaded call perform_query: push
\* the callback, try_repaint, then await the oneshot.  What the callback
\* reads from the state is abstracted away.
PerformQuery(t) ==
    /\ Kind[t] = "query" /\ pc[t] = "start"
    /\ pc' = [pc EXCEPT ![t] = "wait1"]
    /\ PushQuery(<<t, 1>>)
    /\ TryRepaint
    /\ UNCHANGED <<msgQueue, executed, applied, ctx, pushed, observed>>

\* rx.await returns once the callback ran; the task reads the result and
\* returns it.
QueryReturns(t) ==
    /\ Kind[t] = "query" /\ pc[t] = "wait1" /\ <<t, 1>> \in executed
    /\ pc' = [pc EXCEPT ![t] = "done"]
    /\ UNCHANGED <<msgQueue, queryQueue, executed, applied, ctx, repaint,
                   pushed, before, observed>>

\* draw_text_arrow: id_of_name(from_item).await ...
ArrowFromQuery(t) ==
    /\ Kind[t] = "draw_text_arrow" /\ pc[t] = "start"
    /\ pc' = [pc EXCEPT ![t] = "wait1"]
    /\ IdOfName(<<t, 1>>)
    /\ UNCHANGED <<msgQueue, executed, applied, ctx, pushed, observed>>

\* ... then id_of_name(to_item).await ...
ArrowToQuery(t) ==
    /\ Kind[t] = "draw_text_arrow" /\ pc[t] = "wait1" /\ <<t, 1>> \in executed
    /\ pc' = [pc EXCEPT ![t] = "wait2"]
    /\ IdOfName(<<t, 2>>)
    /\ UNCHANGED <<msgQueue, executed, applied, ctx, pushed, observed>>

\* ... and, if both names were found, push AddGraphic and try_repaint.
ArrowPush(t) ==
    /\ Kind[t] = "draw_text_arrow" /\ pc[t] = "wait2" /\ <<t, 2>> \in executed
    /\ pc' = [pc EXCEPT ![t] = "done"]
    /\ \/ PushMessage(t) /\ TryRepaint
       \/ UNCHANGED <<msgQueue, pushed, repaint>>
    /\ UNCHANGED <<queryQueue, executed, applied, ctx, before, observed>>

-----------------------------------------------------------------------------
(* A frame: handle_wasm_external_messages, atomic with respect to the      *)
(* JavaScript tasks on the one wasm thread.                                *)

\* The queries run before the messages.
HandleQueriesFirst ==
    LET qs == ToSet(queryQueue)
    IN /\ applied' = applied \o Reverse(msgQueue)
       /\ msgQueue' = <<>>
       /\ queryQueue' = <<>>
       /\ executed' = executed \cup qs
       /\ observed' = [q \in QueryIds |->
                         IF q \in qs THEN ToSet(applied) ELSE observed[q]]

\* while let Some(msg) = MESSAGE_QUEUE.pop() { update(msg) } drains the Vec
\* from its top; then every callback runs, front first, on the updated
\* state, and its oneshot fires.
HandleWasmExternalMessages ==
    LET qs == ToSet(queryQueue)
    IN /\ applied' = applied \o Reverse(msgQueue)
       /\ msgQueue' = <<>>
       /\ queryQueue' = <<>>
       /\ executed' = executed \cup qs
       /\ observed' = [q \in QueryIds |->
                         IF q \in qs THEN ToSet(applied') ELSE observed[q]]

\* A requested repaint runs.
RepaintFrame ==
    /\ ctx /\ repaint
    /\ repaint' = FALSE
    /\ HandleWasmExternalMessages
    /\ UNCHANGED <<pc, ctx, pushed, before>>

\* The user moves the mouse or presses a key: egui paints a frame.
InputFrame ==
    /\ ctx
    /\ HandleWasmExternalMessages
    /\ UNCHANGED <<pc, ctx, repaint, pushed, before>>

Task(t) ==
    \/ InjectMessage(t) \/ StartChannel(t)
    \/ PerformQuery(t) \/ QueryReturns(t)
    \/ ArrowFromQuery(t) \/ ArrowToQuery(t) \/ ArrowPush(t)

Next ==
    \/ Start
    \/ \E t \in Tasks : Task(t)
    \/ RepaintFrame
    \/ InputFrame

\* The page starts the app, the wasm executor polls every ready task, and a
\* requested repaint is painted.  User input is not assumed.
Spec ==
    /\ Init /\ [][Next]_vars
    /\ WF_vars(Start)
    /\ \A t \in Tasks : WF_vars(Task(t))
    /\ WF_vars(RepaintFrame)

-----------------------------------------------------------------------------
(* Properties.                                                             *)

\* A query callback sees the effect of every message pushed before the
\* query was: waves_loaded() called after inject_message(load) must see
\* the load.  handle_wasm_external_messages drains MESSAGE_QUEUE before it
\* runs QUERY_QUEUE.
QueryObservesEarlierMessages ==
    \A q \in executed : before[q] \subseteq observed[q]

\* State::update applies the messages in the order JavaScript pushed them.
MessagesInPushOrder == IsPrefix(applied, pushed)

\* Every awaiting perform_query / id_of_name call eventually returns.
QueriesReturn ==
    \A t \in Tasks : pc[t] \in {"wait1", "wait2"} ~> pc[t] = "done"

\* Every message pushed onto MESSAGE_QUEUE is eventually applied.
MessagesApplied ==
    \A t \in Tasks : (t \in ToSet(pushed)) ~> (t \in ToSet(applied))

\* A message pushed by a call that asks for a repaint (inject_message,
\* draw_text_arrow) is eventually applied without any user input, also
\* when it was pushed before WebHandle::start set EGUI_CONTEXT and
\* try_repaint only logged a warning: the first frame drains it.
RepaintedMessagesApplied ==
    \A t \in {u \in Tasks : Kind[u] \in {"inject", "draw_text_arrow"}} :
        (t \in ToSet(pushed)) ~> (t \in ToSet(applied))

=============================================================================
