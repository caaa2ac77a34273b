----------------------------- MODULE RelayConn -----------------------------
(***************************************************************************)
(* One relayConn of the pool of long-lived relay connections                *)
(* (packages/mirror/relaypool.go). RelayPool.Publish runs, for each of its   *)
(* callers (the heartbeat ticker, poll, updateAttestation), one goroutine    *)
(* per relay, and the calls of different callers overlap; the relays share   *)
(* nothing, so the pool is this module once per relay. relayConn.mu is held  *)
(* only for the single steps below, never while dialing or sending.          *)
(***************************************************************************)
EXTENDS Integers, FiniteSets

CONSTANTS
    Callers,   \* who calls Publish
    Conns,     \* names for connections; one is reused when nobody refers to it
    None

ASSUME NoneAssumption == None \notin Conns
ASSUME CallersAssumption == IsFiniteSet(Callers)

VARIABLES
    relay,   \* the field relayConn.relay
    conn,    \* each connection: never dialed, open, lost by the network, closed
    pc,      \* where the goroutine of a caller is
    held,    \* the connection that goroutine has in its hands
    closed   \* whether RelayPool.Close has been here

vars == <<relay, conn, pc, held, closed>>

PCs == {"idle", "get", "dial", "install", "send", "dead", "acked", "failed"}

TypeOK ==
    /\ relay \in Conns \cup {None}
    /\ conn \in [Conns -> {"new", "open", "lost", "closed"}]
    /\ pc \in [Callers -> PCs]
    /\ held \in [Callers -> Conns \cup {None}]
    /\ closed \in BOOLEAN
    /\ \A c \in Callers : pc[c] \in {"install", "send", "dead"} => held[c] # None

Init ==
    /\ relay = None /\ closed = FALSE
    /\ conn = [i \in Conns |-> "new"]
    /\ pc = [c \in Callers |-> "idle"]
    /\ held = [c \in Callers |-> None]

\* RelayPool.Publish starts the goroutine ...
Publish(c) ==
    /\ pc[c] = "idle"
    /\ pc' = [pc EXCEPT ![c] = "get"]
    /\ UNCHANGED <<relay, conn, held, closed>>

\* ... waits for it and for those of the other relays, and returns.
PublishReturns(c) ==
    /\ pc[c] \in {"acked", "failed"}
    /\ pc' = [pc EXCEPT ![c] = "idle"]
    /\ held' = [held EXCEPT ![c] = None]
    /\ UNCHANGED <<relay, conn, closed>>

\* A bug: the nil check forgotten.
GetLive_NoNilCheck(c) ==
    /\ pc[c] = "get"
    /\ pc' = [pc EXCEPT ![c] = "send"]
    /\ held' = [held EXCEPT ![c] = relay]
    /\ UNCHANGED <<relay, conn, closed>>

\* getOrConnect, first critical section: the connection of the pool, if any.
GetLive(c) ==
    /\ pc[c] = "get"
    /\ pc' = [pc EXCEPT ![c] = IF relay # None THEN "send" ELSE "dial"]
    /\ held' = [held EXCEPT ![c] = relay]
    /\ UNCHANGED <<relay, conn, closed>>

Unused(i) == conn[i] \in {"new", "closed"} /\ \A c \in Callers : held[c] # i

\* A bug: the field filled before the race is decided.
Dial_FillsField(c, i) ==
    /\ pc[c] = "dial" /\ Unused(i)
    /\ conn' = [conn EXCEPT ![i] = "open"]
    /\ held' = [held EXCEPT ![c] = i]
    /\ relay' = i
    /\ pc' = [pc EXCEPT ![c] = "install"]
    /\ UNCHANGED closed

\* nostr.RelayConnect, outside the mutex.
Dial(c, i) ==
    /\ pc[c] = "dial" /\ Unused(i)
    /\ conn' = [conn EXCEPT ![i] = "open"]
    /\ held' = [held EXCEPT ![c] = i]
    /\ pc' = [pc EXCEPT ![c] = "install"]
    /\ UNCHANGED <<relay, closed>>

DialFails(c) ==
    /\ pc[c] = "dial"
    /\ pc' = [pc EXCEPT ![c] = "failed"]
    /\ UNCHANGED <<relay, conn, held, closed>>

\* getOrConnect, second critical section: the winner of the race between two
\* dials fills the field ...
Install(c) ==
    /\ pc[c] = "install" /\ relay = None
    /\ relay' = held[c]
    /\ pc' = [pc EXCEPT ![c] = "send"]
    /\ UNCHANGED <<conn, held, closed>>

\* A bug: the loser forgets its own connection.
LoseRace_NoClose(c) ==
    /\ pc[c] = "install" /\ relay # None
    /\ held' = [held EXCEPT ![c] = relay]
    /\ pc' = [pc EXCEPT ![c] = "send"]
    /\ UNCHANGED <<relay, conn, closed>>

\* ... and the loser drops its own connection and uses the winner's.
LoseRace(c) ==
    /\ pc[c] = "install" /\ relay # None
    /\ conn' = [conn EXCEPT ![held[c]] = "closed"]
    /\ held' = [held EXCEPT ![c] = relay]
    /\ pc' = [pc EXCEPT ![c] = "send"]
    /\ UNCHANGED <<relay, closed>>

\* The relay acknowledges the event, which it can only over an open connection.
Send(c) ==
    /\ pc[c] = "send" /\ conn[held[c]] = "open"
    /\ pc' = [pc EXCEPT ![c] = "acked"]
    /\ UNCHANGED <<relay, conn, held, closed>>

\* No acknowledgement in 5s, or another goroutine closed the connection.
SendFails(c) ==
    /\ pc[c] = "send"
    /\ pc' = [pc EXCEPT ![c] = "dead"]
    /\ UNCHANGED <<relay, conn, held, closed>>

\* Bugs: the field not cleared, the comparison forgotten, the call forgotten.
MarkDead_KeepsField(c) ==
    /\ pc[c] = "dead"
    /\ conn' = IF relay = held[c] THEN [conn EXCEPT ![relay] = "closed"] ELSE conn
    /\ pc' = [pc EXCEPT ![c] = "failed"]
    /\ UNCHANGED <<relay, held, closed>>

MarkDead_NoCompare(c) ==
    /\ pc[c] = "dead"
    /\ conn' = IF relay # None THEN [conn EXCEPT ![relay] = "closed"] ELSE conn
    /\ relay' = None
    /\ pc' = [pc EXCEPT ![c] = "failed"]
    /\ UNCHANGED <<held, closed>>

MarkDead_Forgotten(c) ==
    /\ pc[c] = "dead"
    /\ pc' = [pc EXCEPT ![c] = "failed"]
    /\ UNCHANGED <<relay, conn, held, closed>>

\* markDead drops the connection from the pool, unless it is another one by now.
MarkDead(c) ==
    /\ pc[c] = "dead"
    /\ IF relay = held[c]
       THEN conn' = [conn EXCEPT ![relay] = "closed"] /\ relay' = None
       ELSE UNCHANGED <<conn, relay>>
    /\ pc' = [pc EXCEPT ![c] = "failed"]
    /\ UNCHANGED <<held, closed>>

\* RelayPool.Close, once, when Run stops; goroutines that are still publishing go
\* on until the process ends.
Close ==
    /\ ~closed /\ closed' = TRUE
    /\ relay' = None
    /\ conn' = IF relay # None THEN [conn EXCEPT ![relay] = "closed"] ELSE conn
    /\ UNCHANGED <<pc, held>>

\* The relay or the network drops a connection; nobody is told.
Drop(i) ==
    /\ conn[i] = "open"
    /\ conn' = [conn EXCEPT ![i] = "lost"]
    /\ UNCHANGED <<relay, pc, held, closed>>

Step(c) ==
    \/ GetLive(c) \/ (\E i \in Conns : Dial(c, i)) \/ DialFails(c)
    \/ Install(c) \/ LoseRace(c)
    \/ Send(c) \/ SendFails(c) \/ MarkDead(c)

Next ==
    \/ \E c \in Callers : Publish(c) \/ PublishReturns(c) \/ Step(c)
    \/ Close
    \/ \E i \in Conns : Drop(i)

Spec == Init /\ [][Next]_vars

\* Tickers call Publish again and again and every wait has a timeout; a relay
\* that is dialed and written to again and again answers again and again.
Fairness ==
    \A c \in Callers :
        /\ WF_vars(Publish(c)) /\ WF_vars(PublishReturns(c)) /\ WF_vars(Step(c))
        /\ SF_vars(\E i \in Conns : Dial(c, i)) /\ SF_vars(Send(c))

FairSpec == Spec /\ Fairness

-----------------------------------------------------------------------------
\* The connection the pool hands out is never one this process has closed: every
\* path that closes it (markDead, close, the loser of getOrConnect) either clears
\* the field or never filled it.
HandsOutLive == relay # None => conn[relay] \in {"open", "lost"}

\* A connection that was dialed is the one in the pool, or the goroutine that
\* dialed it is about to install or drop it: no race between two dials, a
\* failure and Close leaks one ("One handshake per relay lifetime").
NoLeak ==
    \A i \in Conns : conn[i] \in {"open", "lost"} =>
        relay = i \/ \E c \in Callers : pc[c] = "install" /\ held[c] = i

\* A connection waiting to be installed is known to the goroutine that dialed it
\* and to nobody else, so that the loser of a race closes nobody's connection.
LoserIsAlone ==
    \A c, d \in Callers : pc[c] = "install" =>
        held[c] # relay /\ (c # d => held[d] # held[c])

Live == {i \in Conns : conn[i] \in {"open", "lost"}}

\* "One handshake per relay lifetime": however often the relay drops its connection
\* and however many goroutines find out at once, this process never has more
\* connections to it than there are callers of Publish, the pool's own included.
FewConnections == Cardinality(Live) <= Cardinality(Callers)

\* A late failure on an old connection does not take down the new one another
\* goroutine has put in its place (markDead compares before it closes).
OnlyFailedDropped ==
    [][relay # None /\ relay' = None =>
          \/ closed' /\ ~closed
          \/ \E c \in Callers : pc[c] = "dead" /\ held[c] = relay]_vars

\* Once the relay stops dropping connections, every caller's publishing succeeds
\* again and again: a dead connection is never handed out for good, whoever
\* noticed it.
Recovers ==
    <>[][\A i \in Conns : ~Drop(i)]_vars =>
        \A c \in Callers : []<>(pc[c] = "acked")
=============================================================================
