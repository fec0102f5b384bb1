--------------------------- MODULE AuthorityServer ---------------------------
(***************************************************************************)
(* The lifecycle of the non-voting authority Server of                    *)
(* src/nonvoting/server/server.go: New, the fatal error watcher goroutine, *)
(* Shutdown through haltOnce, halt, and Wait.                              *)
(*                                                                         *)
(* Goroutines: "new" runs New (and its deferred Shutdown), "watcher" is    *)
(* the fatal error watcher New starts, "host" is the caller that received  *)
(* the Server and may call Shutdown and Wait.  Each step between two      *)
(* points where another goroutine can interleave is one action.           *)
(*                                                                         *)
(* The state worker (newState, state.Halt; not in this repository) is the *)
(* environment: once started it may report a fatal error by sending on    *)
(* s.fatalErrCh, and state.Halt closes the worker's halt channel and      *)
(* waits for it to exit.  WorkerSelects says whether the send is in a     *)
(* select that also takes the halt channel, or a bare send.               *)
(***************************************************************************)
EXTENDS Naturals, FiniteSets

CONSTANTS
    Addresses,   \* cfg.Authority.Addresses the config may list
    MaxFatal,    \* fatal errors the state worker may report
    EarlyFatal,  \* whether the worker may report one before New returns
    WorkerSelects \* whether its send also selects on its halt channel

ASSUME MaxFatal \in Nat /\ EarlyFatal \in BOOLEAN /\ WorkerSelects \in BOOLEAN

Goroutines == {"new", "watcher", "host"}

VARIABLES
    pc,            \* pc[g]: the statement goroutine g is at
    once,          \* s.haltOnce: "idle", "running" (halt in progress), "done"
    addrs,         \* addresses New's listener loop has still to visit
    slice,         \* addresses whose *http.Server is a non-nil s.listeners entry
    nListeners,    \* len(s.listeners)
    open,          \* addresses whose http.Server is serving
    stateSet,      \* s.state != nil
    worker,        \* the state worker goroutine
    haltSig,       \* state.Halt has closed the worker's halt channel
    fatalClosed,   \* close(s.fatalErrCh) has run
    haltedClosed,  \* close(s.haltedCh) has run
    newResult,     \* what New returned: "none", "ok" or "err"
    fatals,        \* fatal errors the worker has reported
    panicked       \* a send on, or close of, a closed channel panicked

vars == <<pc, once, addrs, slice, nListeners, open, stateSet, worker, haltSig,
          fatalClosed, haltedClosed, newResult, fatals, panicked>>

\* The statements of halt, run by whichever goroutine won haltOnce.
HaltLabels == {"closeListeners", "haltState", "joinWorker", "closeFatal",
               "closeHalted"}

\* Where each goroutine resumes when its call to Shutdown returns.
AfterShutdown(g) ==
    CASE g = "new"     -> "returned"   \* the deferred call; New returns
      [] g = "watcher" -> "exit"       \* the watcher goroutine ends
      [] g = "host"    -> "wait"       \* the host goes on to s.Wait()

Init ==
    /\ pc = [g \in Goroutines |->
               CASE g = "new" -> "init" [] g = "watcher" -> "none"
                 [] g = "host" -> "idle"]
    /\ once = "idle"
    /\ addrs \in SUBSET Addresses
    /\ slice = {}
    /\ nListeners = 0
    /\ open = {}
    /\ stateSet = FALSE
    /\ worker = "none"
    /\ haltSig = FALSE
    /\ fatalClosed = FALSE
    /\ haltedClosed = FALSE
    /\ newResult = "none"
    /\ fatals = 0
    /\ panicked = FALSE

Goto(g, l) == pc' = [pc EXCEPT ![g] = l]

-----------------------------------------------------------------------------
(***************************************************************************)
(* New.  Up to the fatal error watcher nothing runs concurrently, so the  *)
(* data directory, logging, identity key, GenerateOnly and whitelist      *)
(* checks are one step: each failure returns nil, err before the deferred *)
(* Shutdown is registered.  Otherwise the defer is registered and the      *)
(* watcher goroutine started.                                              *)
(***************************************************************************)
NewInit ==
    /\ pc["new"] = "init"
    /\ \/ /\ Goto("new", "returned")
          /\ newResult' = "err"
       \/ /\ pc' = [pc EXCEPT !["new"] = "newState", !["watcher"] = "recv"]
          /\ UNCHANGED newResult
    /\ UNCHANGED <<once, addrs, slice, nListeners, open, stateSet, worker,
                   haltSig, fatalClosed, haltedClosed, fatals, panicked>>

\* newState starts the state worker, or fails; on failure New returns and
\* the deferred Shutdown runs.
NewState ==
    /\ pc["new"] = "newState"
    /\ \/ /\ worker' = "running"
          /\ Goto("new", "assignState")
          /\ UNCHANGED newResult
       \/ /\ Goto("new", "shutdown")
          /\ newResult' = "err"
          /\ UNCHANGED worker
    /\ UNCHANGED <<once, addrs, slice, nListeners, open, stateSet, haltSig,
                   fatalClosed, haltedClosed, fatals, panicked>>

\* The assignment s.state = ... after newState has returned.
AssignState ==
    /\ pc["new"] = "assignState"
    /\ stateSet' = TRUE
    /\ Goto("new", "listen")
    /\ UNCHANGED <<once, addrs, slice, nListeners, open, worker, haltSig,
                   fatalClosed, haltedClosed, newResult, fatals, panicked>>

\* One iteration of the listener loop: initListener starts ListenAndServe
\* and never returns an error, so the listener is always appended.
Listen ==
    /\ pc["new"] = "listen"
    /\ \E a \in addrs :
          /\ addrs' = addrs \ {a}
          /\ slice' = slice \cup {a}
          /\ open' = open \cup {a}
          /\ nListeners' = nListeners + 1
    /\ UNCHANGED <<pc, once, stateSet, worker, haltSig, fatalClosed,
                   haltedClosed, newResult, fatals, panicked>>

\* After the loop: no listener means an error return (and the deferred
\* Shutdown); otherwise isOk = true and New returns s.
CheckListeners ==
    /\ pc["new"] = "listen"
    /\ addrs = {}
    /\ IF nListeners = 0
          THEN Goto("new", "shutdown") /\ newResult' = "err"
          ELSE Goto("new", "returned") /\ newResult' = "ok"
    /\ UNCHANGED <<once, addrs, slice, nListeners, open, stateSet, worker,
                   haltSig, fatalClosed, haltedClosed, fatals, panicked>>

-----------------------------------------------------------------------------
(***************************************************************************)
(* Shutdown: s.haltOnce.Do(halt).  The first caller runs halt; a caller    *)
(* that arrives while halt runs blocks until it has finished; a later      *)
(* caller returns at once.                                                 *)
(***************************************************************************)
Shutdown(g) ==
    /\ pc[g] = "shutdown"
    /\ \/ /\ once = "idle"
          /\ once' = "running"
          /\ Goto(g, "closeListeners")
       \/ /\ once = "done"
          /\ Goto(g, AfterShutdown(g))
          /\ UNCHANGED once
    /\ UNCHANGED <<addrs, slice, nListeners, open, stateSet, worker, haltSig,
                   fatalClosed, haltedClosed, newResult, fatals, panicked>>

\* Mutant of CloseListeners: the entries are set to nil without l.Close().
CloseListenersKeepOpen(g) ==
    /\ pc[g] = "closeListeners"
    /\ slice' = {}
    /\ Goto(g, "haltState")
    /\ UNCHANGED <<once, addrs, nListeners, open, stateSet, worker, haltSig,
                   fatalClosed, haltedClosed, newResult, fatals, panicked>>

\* halt: close every listener in s.listeners and set its entry to nil, then
\* s.WaitGroup.Wait() (no goroutine of this file adds to it).
CloseListeners(g) ==
    /\ pc[g] = "closeListeners"
    /\ open' = open \ slice
    /\ slice' = {}
    /\ Goto(g, "haltState")
    /\ UNCHANGED <<once, addrs, nListeners, stateSet, worker, haltSig,
                   fatalClosed, haltedClosed, newResult, fatals, panicked>>

\* Mutant of HaltState: the s.state.Halt() call is dropped.
HaltStateSkip(g) ==
    /\ pc[g] = "haltState"
    /\ Goto(g, "closeFatal")
    /\ UNCHANGED <<once, addrs, slice, nListeners, open, stateSet, worker,
                   haltSig, fatalClosed, haltedClosed, newResult, fatals,
                   panicked>>

\* halt: if s.state != nil, state.Halt() signals the worker to stop and
\* then waits for it (JoinWorker); a nil s.state is skipped.
HaltState(g) ==
    /\ pc[g] = "haltState"
    /\ IF stateSet
          THEN haltSig' = TRUE /\ Goto(g, "joinWorker")
          ELSE UNCHANGED haltSig /\ Goto(g, "closeFatal")
    /\ UNCHANGED <<once, addrs, slice, nListeners, open, stateSet, worker,
                   fatalClosed, haltedClosed, newResult, fatals, panicked>>

\* state.Halt returns once the worker has exited; then s.state = nil.
JoinWorker(g) ==
    /\ pc[g] = "joinWorker"
    /\ worker = "exited"
    /\ stateSet' = FALSE
    /\ Goto(g, "closeFatal")
    /\ UNCHANGED <<once, addrs, slice, nListeners, open, worker, haltSig,
                   fatalClosed, haltedClosed, newResult, fatals, panicked>>

\* halt: s.identityKey.Reset(); close(s.fatalErrCh).  Closing a closed
\* channel panics.
CloseFatal(g) ==
    /\ pc[g] = "closeFatal"
    /\ fatalClosed' = TRUE
    /\ panicked' = (panicked \/ fatalClosed)
    /\ Goto(g, "closeHalted")
    /\ UNCHANGED <<once, addrs, slice, nListeners, open, stateSet, worker,
                   haltSig, haltedClosed, newResult, fatals>>

\* halt: close(s.haltedCh); halt returns and haltOnce.Do with it.
CloseHalted(g) ==
    /\ pc[g] = "closeHalted"
    /\ haltedClosed' = TRUE
    /\ once' = "done"
    /\ Goto(g, AfterShutdown(g))
    /\ UNCHANGED <<addrs, slice, nListeners, open, stateSet, worker, haltSig,
                   fatalClosed, newResult, fatals, panicked>>

Halt(g) == CloseListeners(g) \/ HaltState(g) \/ JoinWorker(g)
           \/ CloseFatal(g) \/ CloseHalted(g)

-----------------------------------------------------------------------------
(***************************************************************************)
(* The fatal error watcher: err, ok := <-s.fatalErrCh.  A receive from the *)
(* worker's send leads to s.Shutdown(); a receive on the closed channel   *)
(* (ok false) ends the goroutine.                                          *)
(***************************************************************************)

\* Mutant of SendFatal: the watcher calls s.Wait() instead of s.Shutdown().
SendFatalToWait ==
    /\ worker = "sending"
    /\ IF fatalClosed
          THEN panicked' = TRUE /\ UNCHANGED <<pc, worker>>
          ELSE /\ pc["watcher"] = "recv"
               /\ worker' = "running"
               /\ Goto("watcher", "wait")
               /\ UNCHANGED panicked
    /\ UNCHANGED <<once, addrs, slice, nListeners, open, stateSet, haltSig,
                   fatalClosed, haltedClosed, newResult, fatals>>

\* The worker's send on s.fatalErrCh.  On the closed channel it panics,
\* select or not; otherwise it meets the watcher's receive, and the watcher
\* goes on to s.Shutdown().
SendFatal ==
    /\ worker = "sending"
    /\ IF fatalClosed
          THEN panicked' = TRUE /\ UNCHANGED <<pc, worker>>
          ELSE /\ pc["watcher"] = "recv"
               /\ worker' = "running"
               /\ Goto("watcher", "shutdown")
               /\ UNCHANGED panicked
    /\ UNCHANGED <<once, addrs, slice, nListeners, open, stateSet, haltSig,
                   fatalClosed, haltedClosed, newResult, fatals>>

WatcherExit ==
    /\ pc["watcher"] = "recv"
    /\ fatalClosed
    /\ Goto("watcher", "exit")
    /\ UNCHANGED <<once, addrs, slice, nListeners, open, stateSet, worker,
                   haltSig, fatalClosed, haltedClosed, newResult, fatals,
                   panicked>>

\* Wait: <-s.haltedCh, called by the host once New returned the Server.
Wait ==
    /\ pc["host"] \in {"idle", "wait"}
    /\ newResult = "ok"
    /\ haltedClosed
    /\ Goto("host", "exit")
    /\ UNCHANGED <<once, addrs, slice, nListeners, open, stateSet, worker,
                   haltSig, fatalClosed, haltedClosed, newResult, fatals,
                   panicked>>

-----------------------------------------------------------------------------
(* Environment: the state worker and the host's call to Shutdown.          *)

\* The worker hits a fatal error and starts its send on s.fatalErrCh.
WorkerFails ==
    /\ worker = "running"
    /\ fatals < MaxFatal
    /\ EarlyFatal \/ pc["new"] = "returned"
    /\ worker' = "sending"
    /\ fatals' = fatals + 1
    /\ UNCHANGED <<pc, once, addrs, slice, nListeners, open, stateSet,
                   haltSig, fatalClosed, haltedClosed, newResult, panicked>>

\* The worker sees its closed halt channel and returns; a bare send blocks
\* until the watcher receives.
WorkerStops ==
    /\ worker = "running" \/ (WorkerSelects /\ worker = "sending")
    /\ haltSig
    /\ worker' = "exited"
    /\ UNCHANGED <<pc, once, addrs, slice, nListeners, open, stateSet,
                   haltSig, fatalClosed, haltedClosed, newResult, fatals,
                   panicked>>

HostShutdown ==
    /\ pc["host"] = "idle"
    /\ newResult = "ok"
    /\ Goto("host", "shutdown")
    /\ UNCHANGED <<once, addrs, slice, nListeners, open, stateSet, worker,
                   haltSig, fatalClosed, haltedClosed, newResult, fatals,
                   panicked>>

-----------------------------------------------------------------------------
NewStep == NewInit \/ NewState \/ AssignState \/ Listen \/ CheckListeners

\* A panic ends the process: no goroutine takes another step.
Next ==
    /\ ~panicked
    /\ \/ NewStep
       \/ \E g \in Goroutines : Shutdown(g) \/ Halt(g)
       \/ SendFatal \/ WatcherExit \/ Wait
       \/ WorkerFails \/ WorkerStops \/ HostShutdown

Spec == Init /\ [][Next]_vars

\* Every goroutine is scheduled: weak fairness on each one's steps.  The
\* worker's errors and the host's decision to shut down are not forced.
FairSpec ==
    /\ Spec
    /\ WF_vars(~panicked /\ NewStep)
    /\ \A g \in Goroutines : WF_vars(~panicked /\ (Shutdown(g) \/ Halt(g)))
    /\ WF_vars(~panicked /\ SendFatal)
    /\ WF_vars(~panicked /\ WatcherExit)
    /\ WF_vars(~panicked /\ Wait)
    /\ WF_vars(~panicked /\ WorkerStops)

-----------------------------------------------------------------------------
HaltLabelsOr(S) == S \cup HaltLabels \cup {"shutdown"}

TypeOK ==
    /\ pc["new"] \in HaltLabelsOr({"init", "newState", "assignState",
                                   "listen", "returned"})
    /\ pc["watcher"] \in HaltLabelsOr({"none", "recv", "exit"})
    /\ pc["host"] \in HaltLabelsOr({"idle", "wait", "exit"})
    /\ once \in {"idle", "running", "done"}
    /\ addrs \subseteq Addresses /\ slice \subseteq Addresses
    /\ open \subseteq Addresses
    /\ nListeners \in 0..Cardinality(Addresses)
    /\ worker \in {"none", "running", "sending", "exited"}
    /\ newResult \in {"none", "ok", "err"}
    /\ fatals \in 0..MaxFatal
    /\ {stateSet, haltSig, fatalClosed, haltedClosed, panicked} \subseteq BOOLEAN

\* No goroutine panics: the worker never sends on s.fatalErrCh after halt
\* closed it, and halt's close(s.fatalErrCh) never runs twice.
NoSendOnClosed == ~panicked

\* Once s.haltedCh is closed (Wait has returned), halt has closed every
\* listener New started and the state worker has exited.
StoppedWhenHalted ==
    haltedClosed => open = {} /\ worker \in {"none", "exited"}

\* A fatal error the state worker reports eventually halts the server:
\* the watcher's Shutdown, or a halt already in progress, closes haltedCh.
FatalErrorHalts == (worker = "sending") ~> haltedClosed

====
