--------------------------- MODULE ReunionAbstract ---------------------------
(***************************************************************************)
(* What a Reunion rendezvous promises, without sessions, maps, queries or *)
(* failures (spec sections 2, 3 and 8).  Parties post T1s on a shared     *)
(* board.  The owner of a posted T1 s may seal its payload to another     *)
(* party's posted T1 d, and only if both were made from the same          *)
(* passphrase (the T3 from s to d).  A party learns the payload of s only *)
(* once s has been sealed to one of its own posted T1s.                   *)
(***************************************************************************)
CONSTANTS
    Parties,      \* the parties taking part in the epoch
    Passphrase,   \* Passphrase[p]: the passphrase p's T1s are made from
    T1Hash,       \* the T1s that can be posted, by parties or by others
    Owner(_)      \* Owner(t): who made T1 t

VARIABLES
    posted,   \* the T1s on the board
    sealed,   \* pairs <<s, d>>: the payload behind s is sealed to T1 d
    learned   \* learned[p]: the T1s whose payload p has learned

vars == <<posted, sealed, learned>>

Init ==
    /\ posted = {}
    /\ sealed = {}
    /\ learned = [p \in Parties |-> {}]

Post(t) ==
    /\ posted' = posted \cup {t}
    /\ UNCHANGED <<sealed, learned>>

\* Only between two different parties with the same passphrase.
Seal(s, d) ==
    /\ {s, d} \subseteq posted
    /\ {Owner(s), Owner(d)} \subseteq Parties
    /\ Owner(s) # Owner(d)
    /\ Passphrase[Owner(s)] = Passphrase[Owner(d)]
    /\ sealed' = sealed \cup {<<s, d>>}
    /\ UNCHANGED <<posted, learned>>

Learn(p, s) ==
    /\ \E d \in posted : Owner(d) = p /\ <<s, d>> \in sealed
    /\ learned' = [learned EXCEPT ![p] = @ \cup {s}]
    /\ UNCHANGED <<posted, sealed>>

Next ==
    \/ \E t \in T1Hash : Post(t)
    \/ \E s, d \in T1Hash : Seal(s, d)
    \/ \E p \in Parties, s \in T1Hash : Learn(p, s)

Spec == Init /\ [][Next]_vars

====
