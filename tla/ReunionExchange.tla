--------------------------- MODULE ReunionExchange ---------------------------
(***************************************************************************)
(* The Reunion client Exchange of src/client/exchange.go: one Run driver  *)
(* goroutine per party, all posting to and polling one shared Reunion     *)
(* database (the bulletin board).                                          *)
(*                                                                         *)
(* Data abstraction.  A T1 is identified by its hash, modelled as the pair *)
(* <<owner, session>>: the party that generated it and which of its       *)
(* Sessions (NewExchange calls) did.  A T2 or T3 is identified by its      *)
(* source and destination T1 hashes; its bytes are taken as determined by *)
(* them, so the Go maps keyed by "src t1 hash" or "t2 hash" become sets of *)
(* T1 hashes.  The cryptography is abstracted to what decides control     *)
(* flow: DecryptT1Beta succeeds exactly when both Sessions were derived    *)
(* from the same passphrase, and ProcessType3Message then yields the      *)
(* payload of the T3's sender, represented by that sender's T1.           *)
(*                                                                         *)
(* Every db.Query is a suspension point: each query is one step, so the   *)
(* drivers of different parties interleave between queries.  A query may  *)
(* succeed, or fail with or without the board having stored the command   *)
(* (a rejected command, or a lost response).                               *)
(*                                                                         *)
(* The board is untrusted: a Forger (anyone who can post to the database) *)
(* may post T1s that DecodeT1Message rejects, and T2/T3 messages under    *)
(* any source hash whose payload no Session accepts.  A stored T2 or T3   *)
(* payload is then either the genuine one for its source or a forged one; *)
(* the sets badT2s and badT3s hold the sources whose stored payload is    *)
(* forged.                                                                 *)
(***************************************************************************)
EXTENDS Naturals, FiniteSets, Bags, BagsExt

CONSTANTS
    Parties,      \* one Exchange, driven by one Run goroutine, per party
    Passphrase,   \* Passphrase[p]: the passphrase p's Sessions are made from
    MaxSessions,  \* NewExchange calls (fresh Sessions) allowed per party
    MaxFaults,    \* failed database queries the environment may inject
    MaxRestarts,  \* host restarts of a driver (crash, then re-creation)
    Closable,     \* parties whose host may close shutdownChan
    NoT1,         \* model value: sentT1 is nil
    NoSnapshot,   \* model value: the host has persisted no snapshot yet
    Forger,       \* model value: the maker of malformed and forged entries
    JunkT1s,      \* malformed T1s the Forger may post
    MaxForged     \* forged T2/T3 messages the Forger may post

ASSUME /\ MaxSessions \in Nat \ {0}
       /\ MaxFaults \in Nat
       /\ MaxRestarts \in Nat
       /\ DOMAIN Passphrase = Parties
       /\ Closable \subseteq Parties
       /\ JunkT1s \in Nat /\ MaxForged \in Nat

VARIABLES
    ex,          \* ex[p]: the Exchange struct fields and the driver's position
    board,       \* the Reunion database: posted T1s and T2/T3 messages
    snapshot,    \* snapshot[p]: last Serialized update the host persisted
    lastUpdate,  \* lastUpdate[p]: kind of the last ReunionUpdate sent
    results,     \* results[p]: bag of T1 hashes whose payload p received
    shutdown,    \* shutdown[p]: p's shutdownChan has been closed
    sessions,    \* sessions[p]: Sessions created so far for p
    okSends,     \* bag of commands the database acknowledged with OK
    faults,      \* query failures injected so far
    restarts     \* host restarts so far

vars == <<ex, board, snapshot, lastUpdate, results, shutdown, sessions,
          okSends, faults, restarts>>

T1Hash == Parties \X (1..MaxSessions)
Owner(t) == t[1]

\* Hashes of the Forger's malformed T1s; <<Forger, 0>> is the hash of no T1.
Junk == {Forger} \X (1..JunkT1s)
Unknown == <<Forger, 0>>
AllT1 == T1Hash \cup Junk \cup {Unknown}

\* The T2/T3 messages on the board: SendT2 and SendT3 commands with their
\* src and dst T1 hashes, and whether the payload is a forged one.
Msg == [type : {"t2", "t3"}, src : AllT1, dst : T1Hash, forged : BOOLEAN]

\* Driver positions in Run: the query or update step each one performs.
PC == {"sendT1", "update1", "fetch", "sendT2", "update2", "sendT3",
       "update3", "processT3", "done", "halted"}

\* Mutant of Persisted: Marshal's field list not updated for the two last
\* maps added to Exchange (the "XXX fix me" of Marshal).
PersistedBeforeMaps == {"status", "session", "sentT1", "sentT2Map",
                        "receivedT1s", "receivedT2s", "receivedT3s",
                        "badT2s", "badT3s", "repliedT1s", "repliedT2s"}

\* The fields Marshal writes to the snapshot (serializableExchange);
\* badT2s and badT3s are part of the payloads of receivedT2s and receivedT3s.
Persisted == {"status", "session", "sentT1", "sentT2Map", "receivedT1s",
              "receivedT2s", "receivedT3s", "badT2s", "badT3s", "repliedT1s",
              "repliedT2s", "receivedT1Alphas", "decryptedT1Betas"}

\* Mutant of SamePassphrase: DecryptT1Beta's error is ignored.
IgnoreDecryptError(p, t) == TRUE

\* DecryptT1Beta with the candidate key succeeds: same passphrase.
SamePassphrase(p, t) == Passphrase[p] = Passphrase[Owner(t)]

(***************************************************************************)
(* A database query's outcome.  An OK response means the command was      *)
(* stored.  A failure is either an injected fault (bounded) or the effect  *)
(* of a closed shutdownChan, which Query observes.                         *)
(***************************************************************************)
Outcome == {o \in [ok : BOOLEAN, stored : BOOLEAN] : o.ok => o.stored}

Possible(p, ok) == ~ok => (shutdown[p] \/ faults < MaxFaults)

Charge(p, ok) == faults' = IF ~ok /\ ~shutdown[p] THEN faults + 1 ELSE faults

\* Mutant of Settle: the map is updated before the query's response.
SettleEarly(o, S, x) == S \cup {x}

\* A command's key moves into a replied/decrypted map only on an OK response.
Settle(o, S, x) == IF o.ok THEN S \cup {x} ELSE S

Acked(o, m) == IF o.ok THEN BagAdd(okSends, m) ELSE okSends

Post(o, m) == board' = [board EXCEPT !.msgs = IF o.stored THEN @ \cup {m} ELSE @]

\* NewExchange: a fresh Exchange with Session number s, status initialState.
NewExchange(p, s) ==
    [status |-> "initial", session |-> s, sentT1 |-> NoT1,
     sentT2Map |-> {}, receivedT1s |-> {}, receivedT2s |-> {},
     receivedT3s |-> {}, badT2s |-> {}, badT3s |-> {},
     repliedT1s |-> {}, repliedT2s |-> {},
     receivedT1Alphas |-> {}, decryptedT1Betas |-> {},
     pc |-> "sendT1", todo |-> {}]

\* Run's switch on e.status picks the first step.
RunEntry(status) == IF status = "initial" THEN "sendT1" ELSE "fetch"

\* NewExchangeFromSnapshot: Unmarshal the persisted fields, then Run.
FromSnapshot(snap) ==
    [f \in Persisted \cup {"pc", "todo"} |->
        CASE f = "pc"   -> RunEntry(snap.status)
          [] f = "todo" -> {}
          [] OTHER      -> snap[f]]

Init ==
    /\ ex = [p \in Parties |-> NewExchange(p, 1)]
    /\ board = [t1s |-> {}, msgs |-> {}]
    /\ snapshot = [p \in Parties |-> NoSnapshot]
    /\ lastUpdate = [p \in Parties |-> "none"]
    /\ results = [p \in Parties |-> EmptyBag]
    /\ shutdown = [p \in Parties |-> FALSE]
    /\ sessions = [p \in Parties |-> 1]
    /\ okSends = EmptyBag
    /\ faults = 0
    /\ restarts = 0

-----------------------------------------------------------------------------
(***************************************************************************)
(* sendT1: GenerateType1Message sets e.sentT1, then the SendT1 query.  On  *)
(* success Run sets status to t1MessageSentState; on any failure Run      *)
(* returns.                                                                *)
(***************************************************************************)
SendT1(p) ==
    LET t1 == <<p, ex[p].session>> IN
    /\ ex[p].pc = "sendT1"
    /\ \E o \in Outcome :
          /\ Possible(p, o.ok)
          /\ ex' = [ex EXCEPT ![p].sentT1 = t1,
                              ![p].status = IF o.ok THEN "t1Sent" ELSE @,
                              ![p].pc = IF o.ok THEN "update1" ELSE "halted"]
          /\ board' = [board EXCEPT !.t1s = IF o.stored THEN @ \cup {t1}
                                                        ELSE @]
          /\ Charge(p, o.ok)
    /\ UNCHANGED <<snapshot, lastUpdate, results, shutdown, sessions, okSends,
                   restarts>>

(***************************************************************************)
(* sentUpdateOK then shouldStop, after sendT1 and after each of            *)
(* sendT2Messages and sendT3Messages: the Serialized update is sent on    *)
(* updateChan (the host persists it), and a closed shutdownChan makes Run *)
(* return.  Entering sendT3Messages, the loop ranges over receivedT2s      *)
(* minus the ones whose t2 hash is in repliedT2s.  When Marshal fails     *)
(* (an injected fault) the update carries the error and no snapshot, and  *)
(* Run returns.                                                            *)
(***************************************************************************)
MarshalFails(p) ==
    /\ ex[p].pc \in {"update1", "update2", "update3"}
    /\ faults < MaxFaults
    /\ faults' = faults + 1
    /\ lastUpdate' = [lastUpdate EXCEPT ![p] = "error"]
    /\ ex' = [ex EXCEPT ![p].pc = "halted"]
    /\ UNCHANGED <<board, snapshot, results, shutdown, sessions, okSends,
                   restarts>>

Update(p) ==
    /\ ex[p].pc \in {"update1", "update2", "update3"}
    /\ snapshot' = [snapshot EXCEPT ![p] = [f \in Persisted |-> ex[p][f]]]
    /\ lastUpdate' = [lastUpdate EXCEPT ![p] = "serialized"]
    /\ ex' = [ex EXCEPT
                ![p].pc = IF shutdown[p] THEN "halted"
                          ELSE CASE ex[p].pc = "update1" -> "fetch"
                                 [] ex[p].pc = "update2" -> "sendT3"
                                 [] ex[p].pc = "update3" -> "processT3",
                ![p].todo = IF ex[p].pc = "update2"
                            THEN ex[p].receivedT2s \ ex[p].repliedT2s
                            ELSE {}]
    /\ UNCHANGED <<board, results, shutdown, sessions, okSends, faults,
                   restarts>>

\* The SendT2 or SendT3 command a driver sends from T1 src to T1 dst.
Reply(type, src, dst) ==
    [type |-> type, src |-> src, dst |-> dst, forged |-> FALSE]

\* processState: the source T1 hashes of the fetched T2 or T3 messages.
Sources(msgs, type) == {m.src : m \in {x \in msgs : x.type = type}}

\* The sources of the fetched forged (or genuine) T2 or T3 messages.
SourcesOf(msgs, type, forged) ==
    Sources({m \in msgs : m.forged = forged}, type)

(***************************************************************************)
(* processState keeps the first message of state.Messages per source hash *)
(* and ignores later ones.  The list order is the database's: for a new   *)
(* source with both a forged and a genuine message either may come first. *)
(* FirstForged is the set of possible sets of new sources whose kept      *)
(* payload is the forged one.                                              *)
(***************************************************************************)
FirstForged(msgs, type, known) ==
    LET new == Sources(msgs, type) \ known IN
    {B \in SUBSET new :
        /\ new \ SourcesOf(msgs, type, FALSE) \subseteq B
        /\ B \subseteq SourcesOf(msgs, type, TRUE)}

\* Mutants of Unreplied: the own-hash check, or the repliedT1s check, dropped.
UnrepliedWithOwn(e, t1s) == t1s \ e.repliedT1s
UnrepliedAgain(e, t1s) == t1s \ {e.sentT1}

\* The T1s sendT2Messages answers: not our own hash, not already replied.
Unreplied(e, t1s) == t1s \ ({e.sentT1} \cup e.repliedT1s)

(***************************************************************************)
(* fetchState and processState: FetchState for our T1 hash returns every  *)
(* T1 of the epoch and the messages addressed to our T1; entries not yet  *)
(* known are merged.  Any failed query makes Run return.  sendT2Messages   *)
(* then ranges over receivedT1s, skipping our own hash and repliedT1s.    *)
(***************************************************************************)
FetchState(p) ==
    LET mine == {m \in board.msgs : m.dst = ex[p].sentT1}
        t1s  == ex[p].receivedT1s \cup board.t1s
    IN
    /\ ex[p].pc = "fetch"
    /\ \E ok \in BOOLEAN,
          b2 \in FirstForged(mine, "t2", ex[p].receivedT2s),
          b3 \in FirstForged(mine, "t3", ex[p].receivedT3s) :
          /\ Possible(p, ok)
          /\ ex' = IF ok
                   THEN [ex EXCEPT
                           ![p].receivedT1s = t1s,
                           ![p].receivedT2s = @ \cup Sources(mine, "t2"),
                           ![p].receivedT3s = @ \cup Sources(mine, "t3"),
                           ![p].badT2s = @ \cup b2,
                           ![p].badT3s = @ \cup b3,
                           ![p].todo = Unreplied(ex[p], t1s),
                           ![p].pc = "sendT2"]
                   ELSE [ex EXCEPT ![p].pc = "halted"]
          /\ Charge(p, ok)
    /\ UNCHANGED <<board, snapshot, lastUpdate, results, shutdown, sessions,
                   okSends, restarts>>

(***************************************************************************)
(* One iteration of sendT2Messages for the foreign T1 t: the alpha is     *)
(* stored and the T2 recorded in sentT2Map before the SendT2 query; only  *)
(* an OK response adds t to repliedT1s.  A failure returns false, ending  *)
(* the loop (Run ignores the result and sends its update); so does a T1   *)
(* that DecodeT1Message rejects, before anything is stored.                *)
(***************************************************************************)
SendT2At(p, t) ==
    /\ ex[p].pc = "sendT2"
    /\ t \in ex[p].todo
    /\ \/ /\ t \in Junk
          /\ ex' = [ex EXCEPT ![p].todo = {}, ![p].pc = "update2"]
          /\ UNCHANGED <<board, okSends, faults>>
       \/ /\ t \in T1Hash
          /\ \E o \in Outcome :
                LET m == Reply("t2", ex[p].sentT1, t) IN
                /\ Possible(p, o.ok)
                /\ ex' = [ex EXCEPT
                            ![p].receivedT1Alphas = @ \cup {t},
                            ![p].sentT2Map = @ \cup {t},
                            ![p].repliedT1s = Settle(o, @, t),
                            ![p].todo = IF o.ok THEN @ \ {t} ELSE {},
                            ![p].pc = IF o.ok THEN "sendT2" ELSE "update2"]
                /\ Post(o, m)
                /\ okSends' = Acked(o, m)
                /\ Charge(p, o.ok)
    /\ UNCHANGED <<snapshot, lastUpdate, results, shutdown, sessions, restarts>>

\* The range over receivedT1s visits the entries in a random order.
SendT2(p) == \E t \in ex[p].todo : SendT2At(p, t)

\* sendT2Messages has visited every entry.
EndSendT2(p) ==
    /\ ex[p].pc = "sendT2"
    /\ ex[p].todo = {}
    /\ ex' = [ex EXCEPT ![p].pc = "update2"]
    /\ UNCHANGED <<board, snapshot, lastUpdate, results, shutdown, sessions,
                   okSends, faults, restarts>>

(***************************************************************************)
(* One iteration of sendT3Messages for the T2 from source T1 s.  A T1 or  *)
(* an alpha missing for s returns false.  A forged T2 makes either        *)
(* GetCandidateKey fail (return false) or DecryptT1Beta fail (continue),  *)
(* depending on its bytes; a genuine T2 decrypts exactly when the          *)
(* passphrases match.  Otherwise the T3 is sent, and only on OK are       *)
(* decryptedT1Betas and repliedT2s updated.                                *)
(***************************************************************************)
Abort3(p) ==
    /\ ex' = [ex EXCEPT ![p].todo = {}, ![p].pc = "update3"]
    /\ UNCHANGED <<board, okSends, faults>>

Skip3(p, s) ==
    /\ ex' = [ex EXCEPT ![p].todo = @ \ {s}]
    /\ UNCHANGED <<board, okSends, faults>>

\* Mutant of Decrypts: a forged T2 is taken for the genuine one.
DecryptsForged(p, s) == SamePassphrase(p, s)

\* GetCandidateKey and DecryptT1Beta succeed on the stored T2 from s.
Decrypts(p, s) == s \notin ex[p].badT2s /\ SamePassphrase(p, s)

SendT3At(p, s) ==
    /\ ex[p].pc = "sendT3"
    /\ s \in ex[p].todo
    /\ \/ s \notin ex[p].receivedT1s /\ Abort3(p)
       \/ s \in ex[p].receivedT1s \ ex[p].receivedT1Alphas /\ Abort3(p)
       \/ s \in ex[p].receivedT1Alphas \cap ex[p].badT2s /\ Abort3(p)
       \/ s \in ex[p].receivedT1Alphas /\ ~Decrypts(p, s) /\ Skip3(p, s)
       \/ /\ s \in ex[p].receivedT1Alphas
          /\ Decrypts(p, s)
          /\ \E o \in Outcome :
                LET m == Reply("t3", ex[p].sentT1, s) IN
                /\ Possible(p, o.ok)
                /\ ex' = [ex EXCEPT
                            ![p].decryptedT1Betas = Settle(o, @, s),
                            ![p].repliedT2s = Settle(o, @, s),
                            ![p].todo = IF o.ok THEN @ \ {s} ELSE {},
                            ![p].pc = IF o.ok THEN "sendT3" ELSE "update3"]
                /\ Post(o, m)
                /\ okSends' = Acked(o, m)
                /\ Charge(p, o.ok)
    /\ UNCHANGED <<snapshot, lastUpdate, results, shutdown, sessions, restarts>>

\* The range over receivedT2s visits the entries in a random order.
SendT3(p) == \E s \in ex[p].todo : SendT3At(p, s)

\* sendT3Messages has visited every entry.
EndSendT3(p) ==
    /\ ex[p].pc = "sendT3"
    /\ ex[p].todo = {}
    /\ ex' = [ex EXCEPT ![p].pc = "update3"]
    /\ UNCHANGED <<board, snapshot, lastUpdate, results, shutdown, sessions,
                   okSends, faults, restarts>>

\* Mutant of Opens: ProcessType3Message's error on a forged T3 is ignored.
OpensForged(e) == e.receivedT3s \cap e.decryptedT1Betas

\* The received T3s that ProcessType3Message opens with a decrypted beta.
Opens(e) == (e.receivedT3s \ e.badT3s) \cap e.decryptedT1Betas

(***************************************************************************)
(* processT3Messages ranges over receivedT3s in a random order, skipping  *)
(* sources without a decrypted beta.  Each T3 it opens is sent as a       *)
(* Result update.  A forged T3 with a beta makes ProcessType3Message fail *)
(* and the function return false, after the Results of the entries        *)
(* visited before it (sent: a subset of the others).  On true Run leaves  *)
(* its loop; on false it fetches again.  The T1 of a source with a beta   *)
(* is always present and decodable, so those early returns never happen.  *)
(***************************************************************************)
ProcessT3(p) ==
    LET bad == ex[p].badT3s \cap ex[p].decryptedT1Betas IN
    /\ ex[p].pc = "processT3"
    /\ \E sent \in IF bad = {} THEN {Opens(ex[p])} ELSE SUBSET Opens(ex[p]) :
          /\ results' = [results EXCEPT ![p] = @ (+) SetToBag(sent)]
          /\ lastUpdate' = IF sent = {} THEN lastUpdate
                           ELSE [lastUpdate EXCEPT ![p] = "result"]
          /\ ex' = [ex EXCEPT ![p].pc = IF sent = {} \/ bad # {}
                                         THEN "fetch" ELSE "done"]
    /\ UNCHANGED <<board, snapshot, shutdown, sessions, okSends, faults,
                   restarts>>

-----------------------------------------------------------------------------
(***************************************************************************)
(* The host.  Closing shutdownChan, and re-creating a driver after a       *)
(* crash: from the last persisted snapshot (NewExchangeFromSnapshot), or,  *)
(* when none was persisted, with a fresh Session (NewExchange).            *)
(***************************************************************************)
CloseShutdown(p) ==
    /\ p \in Closable
    /\ ~shutdown[p]
    /\ ex[p].pc \notin {"done", "halted"}
    /\ shutdown' = [shutdown EXCEPT ![p] = TRUE]
    /\ UNCHANGED <<ex, board, snapshot, lastUpdate, results, sessions,
                   okSends, faults, restarts>>

Restart(p) ==
    /\ restarts < MaxRestarts
    /\ snapshot[p] = NoSnapshot => sessions[p] < MaxSessions
    /\ ex' = [ex EXCEPT ![p] = IF snapshot[p] = NoSnapshot
                               THEN NewExchange(p, sessions[p] + 1)
                               ELSE FromSnapshot(snapshot[p])]
    /\ sessions' = [sessions EXCEPT ![p] = IF snapshot[p] = NoSnapshot
                                           THEN @ + 1 ELSE @]
    /\ shutdown' = [shutdown EXCEPT ![p] = FALSE]
    /\ restarts' = restarts + 1
    /\ UNCHANGED <<board, snapshot, lastUpdate, results, okSends, faults>>

-----------------------------------------------------------------------------
\* The steps of p's Run goroutine.
Driver(p) ==
    \/ SendT1(p)
    \/ Update(p)
    \/ MarshalFails(p)
    \/ FetchState(p)
    \/ SendT2(p)
    \/ EndSendT2(p)
    \/ SendT3(p)
    \/ EndSendT3(p)
    \/ ProcessT3(p)

Host(p) == CloseShutdown(p) \/ Restart(p)

-----------------------------------------------------------------------------
(***************************************************************************)
(* The Forger: anyone may post to the database.  It posts a malformed T1, *)
(* or a T2 or T3 addressed to a posted T1, under a posted source hash or  *)
(* one of no T1, with a payload no Session accepts.                        *)
(***************************************************************************)
ForgeT1 ==
    /\ \E j \in Junk \ board.t1s : board' = [board EXCEPT !.t1s = @ \cup {j}]
    /\ UNCHANGED <<ex, snapshot, lastUpdate, results, shutdown, sessions,
                   okSends, faults, restarts>>

ForgeMsg ==
    /\ Cardinality({m \in board.msgs : m.forged}) < MaxForged
    /\ \E type \in {"t2", "t3"}, s \in board.t1s \cup {Unknown},
          d \in board.t1s \cap T1Hash :
          board' = [board EXCEPT !.msgs = @ \cup
                      {[type |-> type, src |-> s, dst |-> d, forged |-> TRUE]}]
    /\ UNCHANGED <<ex, snapshot, lastUpdate, results, shutdown, sessions,
                   okSends, faults, restarts>>

Next == (\E p \in Parties : Driver(p) \/ Host(p)) \/ ForgeT1 \/ ForgeMsg

(***************************************************************************)
(* Each Run goroutine keeps being scheduled and its queries return.  Go   *)
(* starts each range over a map at a random entry, so an entry visited    *)
(* first in infinitely many passes is eventually visited first: strong    *)
(* fairness for visiting each entry of sendT2Messages' loop.               *)
(***************************************************************************)
Fairness ==
    \A p \in Parties :
        /\ WF_vars(Driver(p))
        /\ \A t \in T1Hash : SF_vars(SendT2At(p, t))

Spec == Init /\ [][Next]_vars

FairSpec == Spec /\ Fairness

-----------------------------------------------------------------------------
\* The record Marshal writes: serializableExchange.
SerializableExchange ==
    [status : {"initial", "t1Sent"}, session : 1..MaxSessions,
     sentT1 : T1Hash \cup {NoT1},
     sentT2Map : SUBSET T1Hash, receivedT1s : SUBSET AllT1,
     receivedT2s : SUBSET AllT1, receivedT3s : SUBSET AllT1,
     badT2s : SUBSET AllT1, badT3s : SUBSET AllT1,
     repliedT1s : SUBSET T1Hash, repliedT2s : SUBSET T1Hash,
     receivedT1Alphas : SUBSET T1Hash, decryptedT1Betas : SUBSET T1Hash]

\* The Exchange struct's modelled fields plus the driver's position.
DriverState ==
    [status : {"initial", "t1Sent"}, session : 1..MaxSessions,
     sentT1 : T1Hash \cup {NoT1},
     sentT2Map : SUBSET T1Hash, receivedT1s : SUBSET AllT1,
     receivedT2s : SUBSET AllT1, receivedT3s : SUBSET AllT1,
     badT2s : SUBSET AllT1, badT3s : SUBSET AllT1,
     repliedT1s : SUBSET T1Hash, repliedT2s : SUBSET T1Hash,
     receivedT1Alphas : SUBSET T1Hash, decryptedT1Betas : SUBSET T1Hash,
     pc : PC, todo : SUBSET AllT1]

TypeOK ==
    /\ ex \in [Parties -> DriverState]
    /\ snapshot \in [Parties -> SerializableExchange \cup {NoSnapshot}]
    /\ board \in [t1s : SUBSET (T1Hash \cup Junk), msgs : SUBSET Msg]
    /\ lastUpdate \in [Parties -> {"none", "serialized", "result", "error"}]
    /\ \A p \in Parties : IsABag(results[p]) /\ BagToSet(results[p]) \subseteq T1Hash
    /\ shutdown \in [Parties -> BOOLEAN]
    /\ sessions \in [Parties -> 1..MaxSessions]
    /\ IsABag(okSends) /\ BagToSet(okSends) \subseteq Msg
    /\ faults \in 0..MaxFaults
    /\ restarts \in 0..MaxRestarts

(***************************************************************************)
(* No self-reply (spec 3 and 8.2): no T2 or T3 on the board goes from a T1 *)
(* of a party to a T1 of the same party.  sendT2Messages skips only the    *)
(* hash of the current sentT1, so this is about which T1s a driver can    *)
(* ever see as foreign, across failures and re-creations.                  *)
(***************************************************************************)
NoSelfReply ==
    \A m \in board.msgs : ~m.forged => Owner(m.src) # Owner(m.dst)

(***************************************************************************)
(* At-most-once send (spec 8.4): each SendT2 and SendT3 command is         *)
(* acknowledged with OK at most once.  It rests on repliedT1s/repliedT2s   *)
(* being updated on OK and consulted before every send, including after   *)
(* failed queries and re-created drivers.                                  *)
(***************************************************************************)
AtMostOnceOkSend == \A m \in BagToSet(okSends) : CopiesIn(m, okSends) <= 1

(***************************************************************************)
(* Passphrase isolation and correct result (spec 8.5, 8.6): a Result       *)
(* update of p carries the payload of another party whose passphrase      *)
(* equals p's, never p's own and never a third party's.                   *)
(***************************************************************************)
ResultFromMatchingPeer ==
    \A p \in Parties : \A t \in BagToSet(results[p]) :
        Owner(t) # p /\ Passphrase[Owner(t)] = Passphrase[p]

(***************************************************************************)
(* A finished party leaves its partner able to finish: when p has the      *)
(* payload of T1 t, the board holds p's T2 and T3 to t, which t needs.    *)
(* processT3Messages may end p's Run as soon as a T3 decrypts, so this    *)
(* rests on decryptedT1Betas being set only after an OK SendT3, and on the *)
(* partner's T3 presupposing p's T2.                                       *)
(***************************************************************************)
PartnerCanFinish ==
    \A p \in Parties : \A t \in BagToSet(results[p]) :
        /\ Reply("t2", ex[p].sentT1, t) \in board.msgs
        /\ Reply("t3", ex[p].sentT1, t) \in board.msgs

(***************************************************************************)
(* A T3 answers a genuine T2 (spec 3, steps 4 to 6): a driver seals its   *)
(* payload to T1 d only if d's owner sent it a T2 on the board.  The      *)
(* merge keeps whichever T2 under d's hash the database lists first, so   *)
(* this rests on sendT3Messages never composing a T3 from a forged T2,    *)
(* also when the forged T2 shadows the genuine one.                        *)
(***************************************************************************)
T3AnswersGenuineT2 ==
    \A m \in board.msgs :
        m.type = "t3" /\ ~m.forged => Reply("t2", m.dst, m.src) \in board.msgs

\* A party that shares its passphrase with another party.
Partnered(p) == \E q \in Parties \ {p} : Passphrase[q] = Passphrase[p]

(***************************************************************************)
(* Mutual completion (spec 8.5, scenarios S1 and S3): unless some driver   *)
(* stops on an error or a shutdown, every party with a partner eventually  *)
(* receives a result, despite failed SendT2/SendT3 queries, whose commands *)
(* stay unreplied and are retried on the next loop.                        *)
(***************************************************************************)
MutualCompletion ==
    \/ <>(\A p \in Parties : Partnered(p) => results[p] # EmptyBag)
    \/ <>(\E p \in Parties : ex[p].pc = "halted")

(***************************************************************************)
(* Terminal update (spec 4.4 and 7): when Run stops without a result, the  *)
(* last update the host received says so with an error.                    *)
(***************************************************************************)
TerminalUpdate ==
    \A p \in Parties : ex[p].pc = "halted" => lastUpdate[p] = "error"

-----------------------------------------------------------------------------
(***************************************************************************)
(* Refinement.  The board's T1s are the posted T1s, its T3s are the seals *)
(* (a T3 from s to d reveals the payload behind s to the owner of d), and *)
(* the distinct T1s of a party's Result updates are what it has learned.  *)
(* The Forger's messages seal nothing: a party learns nothing from them.  *)
(***************************************************************************)
Abstract == INSTANCE ReunionAbstract WITH
    T1Hash  <- T1Hash \cup Junk,
    posted  <- board.t1s,
    sealed  <- {<<m.src, m.dst>> :
                   m \in {x \in board.msgs : x.type = "t3" /\ ~x.forged}},
    learned <- [p \in Parties |-> BagToSet(results[p])]

\* The Exchanges implement the abstract rendezvous: a T3 is only ever sent
\* from a posted T1 of one party to a posted T1 of another party with the
\* same passphrase, and processT3Messages emits a Result only for a T3
\* sealed to the receiver's own posted T1; results only accumulate, also
\* across restarts and failed queries.
ImplementsAbstract == Abstract!Spec


\* Spec sections 4.4 and 7: success surfaces a single result-bearing update,
\* after which the driver leaves its loop.  processT3Messages emits one
\* Result per decryptable T3 of the pass and keeps iterating, so a party
\* whose passphrase two peers hold can emit two.
AtMostOneResult == \A p \in Parties : BagCardinality(results[p]) <= 1

=============================================================================
