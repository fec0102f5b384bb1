# TLA+ models of the Reunion client Exchange, the authority server and the katzensocks client

This directory holds TLA+ models of the code in `src/`. The core modelled
here is the Reunion rendezvous client, `src/client/exchange.go`, with an
abstract specification it is shown to implement. The lifecycle of the
non-voting authority server (`src/nonvoting/server/server.go`) and the
katzensocks client program (`src/katzensocks/client/cmd/client/main.go`)
are modelled too. Every model is checked with TLC.

## 1. Inventory

### Components

| Component | Source | State it keeps | Operations |
|---|---|---|---|
| Exchange driver | `src/client/exchange.go` | `status`, `session`, `sentT1`, `sentT2Map`, `receivedT1s/T2s/T3s`, `repliedT1s/T2s`, `receivedT1Alphas`, `decryptedT1Betas`, `shutdownChan`, `updateChan` | `NewExchange`, `NewExchangeFromSnapshot`/`Unmarshal`, `Marshal`, `Run` with `sendT1`, `fetchState`/`processState`, `sendT2Messages`, `sendT3Messages`, `processT3Messages`, `sentUpdateOK`, `shouldStop` |
| Crypto Session | (package `crypto`, not in `src/`) | scalars, passphrase-derived keys | `GenerateType1Message`, `ProcessType1MessageAlpha`, `GetCandidateKey`, `DecryptT1Beta`, `ComposeType3Message`, `ProcessType3Message` |
| Reunion database (bulletin board) | (package `server`, not in `src/`) | the epoch's T1s and the T2/T3 messages | `Query(FetchState / SendT1 / SendT2 / SendT3)` |
| Host application | (not in `src/`) | the last `Serialized` update | drains `updateChan`, persists snapshots, re-creates Exchanges; the spec has it cancel Exchanges, which the code gives it no way to do |
| Non-voting authority server | `src/nonvoting/server/server.go` | listeners, state worker, `fatalErrCh`, `haltedCh`, `haltOnce` | `New`, `Shutdown`/`halt`, `Wait`, fatal-error watcher goroutine |
| Katzensocks client main | `src/katzensocks/client/cmd/client/main.go` | a WaitGroup of listeners | SOCKS accept loop, QUIC listener |
| Cashu token parsing | `src/unnamed/part_001` | none | `NewTokens` (base64 + JSON) |
| Tests, build files | `socks_test.go`, `part_003`, Makefiles, Dockerfiles, CI | | |

### How the parts interact

Each Exchange is driven by one goroutine running `Run`. It talks to the
world only through `db.Query` (the one blocking call), an unbuffered
`updateChan` (a `Serialized` snapshot after `sendT1` and after each of
`sendT2Messages` and `sendT3Messages`, and a `Result` when a T3 decrypts),
and `shutdownChan` (polled by `shouldStop` after each update and passed to
every query). Parties never talk to each other directly: party A posts its
T1; B fetches it and posts a T2 addressed to it; A fetches that T2 and, if
the passphrases match, posts a T3 to B; B, once it has decrypted A's beta from
A's T2, reads the payload from A's T3. A Run loop is fetch, send T2s,
update, send T3s, update, process T3s, and again.

### What is hard

* Interleaving of several parties' drivers, each suspended at every query.
* Queries that fail, both before and after the board stored the command, and
  the retries of the next loop that follow.
* Crash and restart: the host re-creates an Exchange from the last
  `Serialized` update. In-memory progress made since then is lost, but the
  board keeps it.
* Shutdown arriving mid-loop.
* An untrusted board: anyone may post malformed T1s, or T2/T3 messages
  under someone else's source hash, and the client keeps the first payload
  it sees per source.
* Termination: both partners must finish, although each leaves its loop as
  soon as it has a result.

### Properties that make it correct

* A party never answers its own T1 (spec §3, §8.2).
* Each SendT2/SendT3 is acknowledged at most once (§8.4), even across
  restarts (§4.4).
* A result comes only from another party with the same passphrase (§8.5, §8.6).
* A finished party has left its partner everything the partner needs.
* A T3 only answers a genuine T2, and a forged T3 never yields a result.
* Both partners eventually finish unless a driver stops (§8.5, S1).
* Every stop without a result is reported by a terminal error update (§4.4, §7).

`PROJECT.json` lists the hazards behind these properties. Each hazard is
given at the line where it bites.

## 2. Plan

1. **`ReunionExchange`** (done): N parties' Exchange drivers over a shared
   board, with query faults, shutdown and host restarts.
   `MCReunionExchange` instantiates it.
2. **`ReunionAbstract`** (done): the abstract rendezvous. `ReunionExchange`
   refines it through `INSTANCE ... WITH`, and `restart_safety` checks the
   abstract `Spec` as a PROPERTY.
3. **`AuthorityServer`** (done): the lifecycle of `server.go`.
4. **`SocksClient`** (done): `main`, the two listeners and the SOCKS accept
   loop of the katzensocks client.
5. **Adversarial board entries** (done): the board is untrusted (spec
   glossary). A `Forger` posts malformed T1s, and T2/T3 messages with a
   payload no Session accepts, under any source hash. This reaches the
   decode-error early returns (lines 348–352, 420–423, 430–437, 481–496) and
   the first-writer-wins merge in `processState` (lines 246–257).
   `untrusted_board` checks the refinement and `T3AnswersGenuineT2` with
   forged entries, and `liveness` has a malformed T1 on the board.

The cashu parser, the tests and the build files are not modelled.

## 3. Module `ReunionExchange`

State (`VARIABLES`):

* `ex[p]`: the Exchange struct of party `p`, plus `pc`, the step its `Run`
  goroutine is at, and `todo`, the entries its current map loop has not
  visited yet. The maps are sets of T1 hashes (see the abstraction below).
* `board`: the database, holding `t1s` and `msgs` (T2/T3 records `[type,
  src, dst, forged]`).
* `snapshot[p]`: the last `Serialized` update, which the host persists.
* `lastUpdate[p]`: the kind of the last update sent.
* `results[p]`: a bag of the T1s whose payload `p` received.
* `shutdown[p]`: whether `p`'s `shutdownChan` is closed.
* `sessions[p]`: how many Sessions `p`'s host has created.
* `okSends`: a bag of the commands acknowledged with OK.
* `faults`, `restarts`: counters for the bounded environment.

Actions, one per step of the code between two suspension points:

| Action | Code |
|---|---|
| `SendT1` | `sendT1` and the `initialState` case of `Run` |
| `Update` | `sentUpdateOK` followed by `shouldStop` (three call sites in `Run`) |
| `FetchState` | `fetchState` and `processState`, including the failure return of `Run` |
| `SendT2At(p, t)` / `EndSendT2` | one iteration of `sendT2Messages` for T1 `t` (a malformed T1 → return) / loop exit |
| `SendT3At(p, s)` / `EndSendT3` | one iteration of `sendT3Messages` for the T2 from `s` (missing T1 or alpha → return; forged T2 → return or continue; failed decrypt → continue; query) / loop exit |
| `MarshalFails` | `sentUpdateOK` when `Marshal` fails: the update carries the error, no snapshot, and `Run` returns (an injected fault) |
| `ProcessT3` | `processT3Messages` (a forged T3 with a beta → return false after the Results sent so far) and the loop `break` in `Run` |
| `ForgeT1`, `ForgeMsg` | the environment: any client posting a malformed T1, or a forged T2/T3, to the database |
| `CloseShutdown`, `Restart` | host: close `shutdownChan` (the spec's cancellation; no code in `src/` can do it); re-create through `NewExchangeFromSnapshot`, or through `NewExchange` when nothing was persisted |

Abstraction:

* A T1 hash is `<<owner, session>>`. A T2 or T3 is `<<src, dst>>`, and its
  bytes are taken as determined by those two hashes. SHA-256 is taken as
  injective.
* `DecryptT1Beta` succeeds exactly when both parties' passphrases are equal,
  and `ProcessType3Message` then yields the sender's payload.
* Go randomises map order, so a loop visits its entries in every order:
  `\E t \in todo`. The skip checks (`continue` on own hash, or on an entry
  already replied) are applied when the loop starts. Nothing else changes
  those maps during the loop.
* Malformed and forged entries.  A malformed T1 is `<<Forger, k>>`
  (`Junk`): `DecodeT1Message` rejects it.  `<<Forger, 0>>` (`Unknown`) is a
  hash of no T1.  A forged T2 or T3 has `forged = TRUE`; a forged T2 makes
  `GetCandidateKey` fail or `DecryptT1Beta` fail (both are possible), and a
  forged T3 makes `ProcessType3Message` fail.  `processState` keeps the
  first message per source hash in the database's order (`FirstForged`);
  `ex[p].badT2s` and `ex[p].badT3s` record the sources whose kept payload
  is forged, and are persisted with the maps they belong to.
  `ProcessType1MessageAlpha`, `ComposeType3Message` errors are not modelled:
  they depend on crypto internals outside `src/`. A `Marshal` error is an
  injected fault of `sentUpdateOK`.
* A query either succeeds, and then the command is stored, or fails. A
  failure may or may not have stored the command. It is an injected fault
  (at most `MaxFaults`) or the effect of a closed `shutdownChan`.

## 4. Runs

| Run | cfg | Checks | Bounds |
|---|---|---|---|
| `safety` | `MCSafety.cfg` | `TypeOK`, `AtMostOnceOkSend`, `PartnerCanFinish`, `ResultFromMatchingPeer` | parties a, b ("hello") and c ("other"); 1 fault; no restarts |
| `restart_safety` | `MCRestart.cfg` | `PartnerCanFinish`, `ImplementsAbstract` | a, b; 1 fault; 1 restart; 2 Sessions per party; both shutdown channels closable |
| `liveness` | `MCLiveness.cfg` | `MutualCompletion` under `FairSpec` | a, b; 1 fault; a's shutdown channel closable; 1 malformed T1 |
| `untrusted_board` | `MCUntrusted.cfg` | `T3AnswersGenuineT2`, `ImplementsAbstract` | a, b; 1 malformed T1; 2 forged T2/T3; no faults, no restarts |
| `silent_halt` (violation) | `MCSilentHalt.cfg` | `TerminalUpdate` | a, b; 1 fault |
| `restart_dup` (violation) | `MCDup.cfg` | `AtMostOnceOkSend` | a, b; 1 restart; no faults |
| `restart_self_reply` (violation) | `MCSelfReply.cfg` | `NoSelfReply` | a, b; 1 restart; 2 Sessions |
| `multi_result` (violation) | `MCMultiResult.cfg` | `AtMostOneResult` | a, b, c all "hello"; no faults, no restarts |
| `server_lifecycle` | `MCServer.cfg` | `TypeOK`, `NoSendOnClosed`, `FatalErrorHalts` under `FairSpec` | 2 addresses (any subset configured); 2 fatal errors after `New` returned |
| `server_startup_race` (violation) | `MCServerRace.cfg` | `NoSendOnClosed` | as above, fatal errors also while `New` runs |
| `server_early_halt` (violation) | `MCServerEarlyHalt.cfg` | `StoppedWhenHalted` | as `server_startup_race` |
| `socks_main` | `MCSocks.cfg` | `TypeOK`, `MainExitsLast` | 4 accepted connections, 3 temporary errors |

What the runs show:

* **Safety.** With a third party of another passphrase and one failed query
  anywhere, the four properties of `safety` hold. The failed query
  may be lost before or after the board stored it.
* **Isolation.** `ResultFromMatchingPeer` in `safety` covers scenario S2.
  Parties with different passphrases answer each other's T1s, but the T2s
  fail `DecryptT1Beta`, so no T3 and no result ever follow.
* **Restarts.** Restarts keep `PartnerCanFinish`. Two things about restarts
  are findings:
  * `restart_dup`: a restart from the snapshot taken before a
    `sendT2Messages` loop re-sends a T2 that was already acknowledged
    (line 390; it is persisted only at line 540).
  * `restart_self_reply`: a crash between `SendT1` and the first update
    makes the host create a fresh Session, and the new Exchange answers its
    own old T1 (line 338).
* **Liveness.** Both partners finish unless a driver halts. A failed SendT2
  or SendT3 stays unreplied and is retried on a later loop. A party cannot
  finish before its partner has its T2, because the partner's T3 requires
  that T2. A malformed T1 on the board ends `sendT2Messages` whenever the
  random map order visits it first; the partners still finish, under the
  strong fairness below.
* **Untrusted board.** A forged T2 or T3 may shadow a partner's genuine one
  for good, since `processState` never replaces a stored payload (line
  249). `untrusted_board` shows that this costs only progress: no driver
  sends a T3 except in answer to a genuine T2 on the board
  (`T3AnswersGenuineT2`), and the refinement holds, so nobody obtains a
  payload from a forged T3. Completion is not checked with forged messages:
  a shadowed genuine message is never read again, and spec §8.5 promises
  completion only with a cooperating database.
* **Refinement.** Under restarts, faults and shutdowns, every step of the
  Exchanges is a step of `ReunionAbstract` or a stutter. A T3 only goes from
  a posted T1 to another party's posted T1 with the same passphrase, and a
  Result only comes from a T3 sealed to the receiver's own T1.
* **Several results.** `multi_result` shows that a party whose passphrase is
  held by two peers emits two Result updates in one `processT3Messages`
  pass (line 497). Spec §4.4 and §7 require a single one.
* **Terminal update.** `silent_halt` shows that a failed query or a
  shutdown makes `Run` return with no error update (line 535). The spec
  (§4.4, §7) requires one.

Why these bounds are enough:

* One fault already reaches every failure path, because the model has only
  one failing call per step. Before or after storing, the retry paths are
  the same whichever query fails.
* Two same-passphrase parties are the protocol's unit. The third party of
  `safety` exercises the decrypt-failure
  `continue`.
* One restart reaches both kinds of re-creation.

* One malformed T1 and two forged messages reach every forged-entry branch:
  an unknown source (T1 missing), a malformed source (alpha missing), and a
  forged T2 or T3 under the partner's hash, shadowing or shadowed.

`MCSafety.cfg` and `MCUntrusted.cfg` use symmetry over {a, b}, which share a
passphrase (the Forger's choices are symmetric in a and b). They also use
`NoRestartView`. That view leaves out `snapshot` and `lastUpdate`,
which are read by no action enabled without restarts and by no property of
that run.

Fairness: `FairSpec` has weak fairness on each party's `Driver`. Each `Run`
is its own goroutine and its only blocking point is `Query`, which returns.
It also has strong fairness on `SendT2At(p, t)` for every party's T1 `t`:
Go starts each range over a map at a random entry, so an entry that can be
visited first in infinitely many passes eventually is. Weak fairness alone
is not enough once a malformed T1 is on the board: a schedule that always
visits it first ends every `sendT2Messages` pass before any reply.
Host actions (shutdown, restart) and the Forger have no fairness.

Deadlock checking is off in every cfg because each program really stops:

* `Run` returns when it has a result (`done`) or after an error (`halted`).
* The server's goroutines end after `halt`. A server that is never shut
  down waits in `Wait`.
* The katzensocks process ends when `main` returns or panics.

## 5. Module `ReunionAbstract`

What the rendezvous promises, with no sessions, maps, queries or failures.
`posted` is the set of T1s on the board. `sealed` holds pairs `<<s, d>>`:
the payload behind T1 `s` has been sealed to T1 `d` (a T3). `learned[p]` is
the set of T1s whose payload `p` has learned. `Seal` needs both T1s
posted, different owners and the same passphrase; `Learn(p, s)` needs `s`
sealed to one of `p`'s posted T1s.

The refinement mapping in `ReunionExchange` (`Abstract`) maps `posted` to
`board.t1s`, `sealed` to the source and destination of the board's T3s,
and `learned` to the set of distinct T1s in `results`. The mutant that lets
`sendT2Messages` answer its own T1 breaks it: the driver then sends a T3 to
itself.

## 6. Module `AuthorityServer`

Goroutines (`pc[g]`):

* `"new"` runs `New`, including its deferred `Shutdown`.
* `"watcher"` is the fatal error watcher (lines 233–240).
* `"host"` is the caller that got the Server and may call `Shutdown` and
  `Wait`.

Other state: `once` (`haltOnce`), the listeners (`slice` for the non-nil
entries of `s.listeners`, `nListeners` for its length, `open` for the
serving servers), `stateSet` (`s.state != nil`), the worker, and the two
channels' closed flags.

| Action | Code |
|---|---|
| `NewInit` | `New` up to starting the watcher (lines 167–240). Each early failure returns before the defer is registered |
| `NewState`, `AssignState` | `newState` starting the worker, or failing; then the assignment `s.state = ...` (line 243) |
| `Listen`, `CheckListeners` | one listener-loop iteration (`initListener` never fails); the `len(s.listeners) == 0` check and the return |
| `Shutdown(g)` | `haltOnce.Do(halt)`: run `halt`, block while it runs, or return |
| `CloseListeners` … `CloseHalted` | the statements of `halt` |
| `SendFatal`, `WatcherExit` | the worker's send meeting the watcher's receive (or panicking on the closed channel); the receive of a closed channel |
| `Wait` | `<-s.haltedCh` |

The state worker (`state.go`) is not in this repository, so it is the
environment. Once started, it may report up to `MaxFatal` fatal errors.
`state.Halt` signals it and waits for it to exit.

* `EarlyFatal` says whether an error may come before `New` returns.
* `WorkerSelects` says whether the worker's send also selects on its halt
  channel.

The fairness is weak fairness on every goroutine's steps. Errors and the
host's `Shutdown` are not forced.

Results:

* `server_lifecycle` runs with `EarlyFatal = FALSE` and
  `WorkerSelects = TRUE`. Everything holds: no panic, nothing left running
  and every fatal error halts the server. `StoppedWhenHalted` (nothing
  left running once `Wait` returns) is not checked there: with every halt
  after `New` it only restates `halt`'s statements.
* With `WorkerSelects = FALSE` (a bare send), `FatalErrorHalts` fails. A
  second fatal error, sent while the watcher is itself running `halt`,
  blocks the worker, `state.Halt`, `Shutdown` and `Wait` forever. Which
  send `state.go` uses cannot be read here. `PROJECT.json` lists this as a
  hazard.
* `server_startup_race` finds a bug in `server.go`. The watcher is started
  before `s.state` is assigned. A fatal error in that window makes `halt`
  see a nil `s.state`, skip `state.Halt` and close `fatalErrCh` under a
  running worker, whose next report panics. `New` then starts listeners
  after `halt` and returns success for a halted server.
* `server_early_halt` shows the same window without the panic: `halt`
  closes `haltedCh`, so `Wait` returns, while the state worker it never
  halted keeps running and `New` goes on to start listeners nothing will
  close (`StoppedWhenHalted`, line 153).

## 7. Module `SocksClient`

`mainPc` follows `main`. The `-list` path, `GetSession` and `NewClient` are
folded into `MainStart`, which can return, panic or go on. `ListenSOCKS`
and `ListenQUIC` each panic or call `wg.Add(1)` and start their goroutine.
`Accept` is one iteration of `socksAcceptLoop`: a connection for a handler
goroutine, a temporary error (`continue`), or a permanent error (return,
deferred `ln.Close`, `wg.Done`). `QuicEnds` is `server.Serve` returning.
`MainWait` is `wg.Wait`.

`MainExitsLast` checks that the process never exits while a server
goroutine still runs. The mutant that drops the SOCKS `wg.Add(1)` breaks
it. The accept loop's spinning on temporary errors has no back-off, but it
costs time, which the model does not measure.

## 8. Not modelled

* The Session cryptography and the CBOR codec, whose packages are not in
  `src/`. They are abstracted as described above.
* Truncated or invalid `FetchState` responses. They are folded into a
  failed query, which has the same effect on `Run`.
* A host that stops draining `updateChan`. `sentUpdateOK` sends without a
  `select` on `shutdownChan` (line 226), so such a host would leave `Run`
  blocked even after a shutdown. The host is not in `src/`; the model
  assumes it drains every update.
* The state worker, HTTP handlers and `config` of the authority (not in
  this repository); they are the environment of `AuthorityServer`.
* The katzensocks `client` package (SOCKS handling, QUIC streams); its
  connections are a count.
* The cashu token parser (`src/unnamed/part_001`). It is a pure base64 and
  JSON decode with no state or concurrency, so there is nothing for TLC to
  explore.
* The tests and build files.
