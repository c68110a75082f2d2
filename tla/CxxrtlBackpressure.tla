------------------------- MODULE CxxrtlBackpressure -------------------------
(***************************************************************************)
(* The lock and channel discipline of the CXXRTL client, with the cached  *)
(* data abstracted away.                                                   *)
(*                                                                         *)
(* The facade (cxxrtl_container.rs) bridges into async code with           *)
(* futures::executor::block_on.  Two shapes of call submit commands:      *)
(*   - "locked" senders (get_scopes, fetch_item, fetch_all_items,          *)
(*     fetch_items_in_module, raw_simulation_status, query_variable,       *)
(*     load_variables) take block_on(self.data.write()) and call           *)
(*     run_command while the write guard is still alive;                   *)
(*   - "free" senders (pause, and the run command of unpause) call         *)
(*     run_command with no guard held.                                     *)
(* run_command blocks on the bounded tokio mpsc channel (capacity 100,     *)
(* CxxrtlContainer::new).  The worker is one task: it either forwards the *)
(* next command to the simulator, or takes a decoded response and awaits  *)
(* data.write() to run the oldest callback.  tokio's RwLock is fair: a     *)
(* waiter queued first is served first.                                    *)
(*                                                                         *)
(* The data is abstracted to counts: how many commands sit in the channel, *)
(* on the wire, and decoded but not yet applied.                           *)
(***************************************************************************)
EXTENDS Naturals

CONSTANTS
    ChanCap,         \* capacity of the command channel (100 in the code)
    MaxLockedSends,  \* bound on facade calls that send holding the lock
    MaxFreeSends     \* bound on facade calls that send without the lock

ASSUME ChanCap \in Nat \ {0} /\ MaxLockedSends \in Nat /\ MaxFreeSends \in Nat

VARIABLES
    lock,         \* holder of the CxxrtlData write lock: "free", "caller"
    callerPc,     \* "idle", "sending_locked", "sending_free"
    workerPc,     \* "select" or "awaiting_lock" (inbound branch, response in hand)
    channel,      \* commands queued in the mpsc channel
    wire,         \* commands written to the simulator, not yet answered
    inbox,        \* responses read but not yet given to their callback
    lockedSends,  \* locked sends started so far
    freeSends     \* free sends started so far

vars == <<lock, callerPc, workerPc, channel, wire, inbox, lockedSends, freeSends>>

Room == channel < ChanCap

Init ==
    /\ lock = "free"
    /\ callerPc = "idle"
    /\ workerPc = "select"
    /\ channel = 0
    /\ wire = 0
    /\ inbox = 0
    /\ lockedSends = 0
    /\ freeSends = 0

-----------------------------------------------------------------------------
(* The caller thread.                                                      *)

\* block_on(self.data.write()): the guard is taken and kept across the
\* cache transition and the run_command in the same statement.  A fair
\* RwLock serves the worker first when it is already queued.
AcquireAndSend ==
    /\ callerPc = "idle"
    /\ lockedSends < MaxLockedSends
    /\ lock = "free"
    /\ workerPc # "awaiting_lock"
    /\ lock' = "caller"
    /\ callerPc' = "sending_locked"
    /\ lockedSends' = lockedSends + 1
    /\ UNCHANGED <<workerPc, channel, wire, inbox, freeSends>>

\* run_command inside the guard: block_on(command_channel.send(..)) returns
\* once there is room; the guard is dropped at the end of the statement.
SendLocked ==
    /\ callerPc = "sending_locked"
    /\ Room
    /\ channel' = channel + 1
    /\ lock' = "free"
    /\ callerPc' = "idle"
    /\ UNCHANGED <<workerPc, wire, inbox, lockedSends, freeSends>>

\* pause / unpause call run_command with no guard held.
StartFreeSend ==
    /\ callerPc = "idle"
    /\ freeSends < MaxFreeSends
    /\ callerPc' = "sending_free"
    /\ freeSends' = freeSends + 1
    /\ UNCHANGED <<lock, workerPc, channel, wire, inbox, lockedSends>>

\* A send that ignores the channel's capacity.
SendFreeUnbounded ==
    /\ callerPc = "sending_free"
    /\ channel' = channel + 1
    /\ callerPc' = "idle"
    /\ UNCHANGED <<lock, workerPc, wire, inbox, lockedSends, freeSends>>

SendFree ==
    /\ callerPc = "sending_free"
    /\ Room
    /\ channel' = channel + 1
    /\ callerPc' = "idle"
    /\ UNCHANGED <<lock, workerPc, wire, inbox, lockedSends, freeSends>>

-----------------------------------------------------------------------------
(* The worker task and the simulator.                                      *)

\* Outbound branch: take a command off the channel and write it.
WorkerSend ==
    /\ workerPc = "select"
    /\ channel > 0
    /\ channel' = channel - 1
    /\ wire' = wire + 1
    /\ UNCHANGED <<lock, callerPc, workerPc, inbox, lockedSends, freeSends>>

\* Inbound branch with the lock free: the callback runs at once.
WorkerDispatch ==
    /\ workerPc = "select"
    /\ inbox > 0
    /\ lock = "free"
    /\ inbox' = inbox - 1
    /\ UNCHANGED <<lock, callerPc, workerPc, channel, wire, lockedSends, freeSends>>

\* Inbound branch with the lock held by the caller: the worker awaits it and
\* serves neither duty meanwhile.
WorkerAwaitLock ==
    /\ workerPc = "select"
    /\ inbox > 0
    /\ lock = "caller"
    /\ workerPc' = "awaiting_lock"
    /\ UNCHANGED <<lock, callerPc, channel, wire, inbox, lockedSends, freeSends>>

WorkerDispatchAfterWait ==
    /\ workerPc = "awaiting_lock"
    /\ lock = "free"
    /\ inbox' = inbox - 1
    /\ workerPc' = "select"
    /\ UNCHANGED <<lock, callerPc, channel, wire, lockedSends, freeSends>>

\* The simulator answers the oldest written command.
SimAnswer ==
    /\ wire > 0
    /\ wire' = wire - 1
    /\ inbox' = inbox + 1
    /\ UNCHANGED <<lock, callerPc, workerPc, channel, lockedSends, freeSends>>

Caller == AcquireAndSend \/ SendLocked \/ StartFreeSend \/ SendFree
Worker == WorkerSend \/ WorkerDispatch \/ WorkerAwaitLock \/ WorkerDispatchAfterWait

\* Once every bounded call has been made and answered the system is at rest.
Done ==
    /\ callerPc = "idle" /\ channel = 0 /\ wire = 0 /\ inbox = 0
    /\ UNCHANGED vars

Next == Caller \/ Worker \/ SimAnswer \/ Done

\* A blocked send completes when the channel has room (the tokio waker), the
\* worker task is polled by the runtime, and the simulator is trusted to
\* answer.  Starting a new call is the application's choice: no fairness.
Fairness ==
    /\ WF_vars(SendLocked) /\ WF_vars(SendFree)
    /\ WF_vars(Worker) /\ WF_vars(SimAnswer)

Spec == Init /\ [][Next]_vars /\ Fairness

-----------------------------------------------------------------------------
(* Properties.                                                             *)

TypeOK ==
    /\ lock \in {"free", "caller"}
    /\ callerPc \in {"idle", "sending_locked", "sending_free"}
    /\ workerPc \in {"select", "awaiting_lock"}
    /\ channel \in 0..ChanCap
    /\ wire \in Nat /\ inbox \in Nat
    /\ lockedSends \in 0..MaxLockedSends /\ freeSends \in 0..MaxFreeSends

\* The spec (concurrency section) says critical sections are "non-blocking
\* beyond lock acquisition".  The locked senders block on the channel inside
\* the guard: if the channel is full while the worker awaits that guard, the
\* caller waits for the worker to drain and the worker waits for the caller
\* to drop the guard.
NoCircularWait ==
    ~ /\ callerPc = "sending_locked"
      /\ ~Room
      /\ workerPc = "awaiting_lock"

=============================================================================
