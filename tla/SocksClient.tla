----------------------------- MODULE SocksClient -----------------------------
(***************************************************************************)
(* The katzensocks client program of                                       *)
(* src/katzensocks/client/cmd/client/main.go: main starts the SOCKS5      *)
(* accept loop and the HTTP/3 (QUIC) server, each in a goroutine counted  *)
(* by the WaitGroup wg, and waits on wg.                                   *)
(*                                                                         *)
(* Connections are counted, not represented: a handler goroutine          *)
(* (c.SocksHandler) is not waited for by anyone.  A panic in main ends    *)
(* the process.                                                            *)
(***************************************************************************)
EXTENDS Naturals

CONSTANTS
    MaxAccepts,   \* connections the SOCKS listener may accept
    MaxRetries    \* temporary Accept errors the environment may inject

ASSUME MaxAccepts \in Nat /\ MaxRetries \in Nat

VARIABLES
    mainPc,    \* where main is
    socks,     \* the SOCKS accept loop goroutine
    quic,      \* the HTTP/3 server goroutine
    wg,        \* the WaitGroup counter
    lnOpen,    \* the SOCKS net.Listener is open
    accepted,  \* connections handed to c.SocksHandler
    retries    \* temporary Accept errors seen

vars == <<mainPc, socks, quic, wg, lnOpen, accepted, retries>>

Init ==
    /\ mainPc = "start"
    /\ socks = "none"
    /\ quic = "none"
    /\ wg = 0
    /\ lnOpen = FALSE
    /\ accepted = 0
    /\ retries = 0

-----------------------------------------------------------------------------
(***************************************************************************)
(* main up to the listeners: flag.Parse; with -list it runs showPKI and   *)
(* returns (or panics on a PKI error); otherwise GetSession and NewClient, *)
(* each of which panics on error.                                          *)
(***************************************************************************)
MainStart ==
    /\ mainPc = "start"
    /\ mainPc' \in {"exit", "panic", "listenSOCKS"}
    /\ UNCHANGED <<socks, quic, wg, lnOpen, accepted, retries>>

\* Mutant of ListenSOCKS: the wg.Add(1) for the accept loop is missing.
ListenSOCKSNoAdd ==
    /\ mainPc = "listenSOCKS"
    /\ \/ mainPc' = "panic" /\ UNCHANGED <<socks, lnOpen>>
       \/ /\ mainPc' = "listenQUIC"
          /\ lnOpen' = TRUE
          /\ socks' = "accepting"
    /\ UNCHANGED <<quic, wg, accepted, retries>>

\* listenSOCKS: net.Listen panics on error; otherwise wg.Add(1) and the
\* accept loop goroutine starts.
ListenSOCKS ==
    /\ mainPc = "listenSOCKS"
    /\ \/ mainPc' = "panic" /\ UNCHANGED <<socks, lnOpen, wg>>
       \/ /\ mainPc' = "listenQUIC"
          /\ lnOpen' = TRUE
          /\ wg' = wg + 1
          /\ socks' = "accepting"
    /\ UNCHANGED <<quic, accepted, retries>>

\* listenQUIC: address resolution and ListenUDP panic on error; otherwise
\* wg.Add(1) and the goroutine running server.Serve starts.
ListenQUIC ==
    /\ mainPc = "listenQUIC"
    /\ \/ mainPc' = "panic" /\ UNCHANGED <<quic, wg>>
       \/ /\ mainPc' = "wait"
          /\ wg' = wg + 1
          /\ quic' = "serving"
    /\ UNCHANGED <<socks, lnOpen, accepted, retries>>

\* wg.Wait() returns once the counter is zero; main returns.
MainWait ==
    /\ mainPc = "wait"
    /\ wg = 0
    /\ mainPc' = "exit"
    /\ UNCHANGED <<socks, quic, wg, lnOpen, accepted, retries>>

-----------------------------------------------------------------------------
(***************************************************************************)
(* socksAcceptLoop: one Accept per step.  A connection is handed to a new *)
(* handler goroutine; a temporary net.Error, or an error that is not a    *)
(* net.Error, continues the loop; a permanent net.Error returns, the      *)
(* deferred ln.Close runs, and the goroutine calls wg.Done().             *)
(***************************************************************************)
Accept ==
    /\ socks = "accepting"
    /\ \/ /\ accepted < MaxAccepts
          /\ accepted' = accepted + 1
          /\ UNCHANGED <<socks, lnOpen, wg, retries>>
       \/ /\ retries < MaxRetries
          /\ retries' = retries + 1
          /\ UNCHANGED <<socks, lnOpen, wg, accepted>>
       \/ /\ socks' = "done"
          /\ lnOpen' = FALSE
          /\ wg' = wg - 1
          /\ UNCHANGED <<accepted, retries>>
    /\ UNCHANGED <<mainPc, quic>>

\* server.Serve(conn) returns; the goroutine calls wg.Done().
QuicEnds ==
    /\ quic = "serving"
    /\ quic' = "done"
    /\ wg' = wg - 1
    /\ UNCHANGED <<mainPc, socks, lnOpen, accepted, retries>>

\* When main panics or returns, the process ends: no goroutine steps again.
Next ==
    /\ mainPc \notin {"exit", "panic"}
    /\ \/ MainStart \/ ListenSOCKS \/ ListenQUIC \/ MainWait
       \/ Accept \/ QuicEnds

Spec == Init /\ [][Next]_vars

-----------------------------------------------------------------------------
TypeOK ==
    /\ mainPc \in {"start", "listenSOCKS", "listenQUIC", "wait", "exit",
                   "panic"}
    /\ socks \in {"none", "accepting", "done"}
    /\ quic \in {"none", "serving", "done"}
    /\ wg \in 0..2
    /\ lnOpen \in BOOLEAN
    /\ accepted \in 0..MaxAccepts
    /\ retries \in 0..MaxRetries

\* main returns from wg.Wait only after both the SOCKS accept loop and the
\* HTTP/3 server have ended: the process never exits under a live listener.
MainExitsLast ==
    mainPc = "exit" /\ quic # "none" => socks = "done" /\ quic = "done"

====
