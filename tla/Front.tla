-------------------------------- MODULE Front --------------------------------
(***************************************************************************)
(* The loopback SOCKS front (LocalSocksServer), its dial path (ProxyDialer *)
(* and the two handshakes) and the connection count of TunnelCounters.     *)
(*                                                                         *)
(* Every session of the tunnel has a server of its own; the count is one   *)
(* for all of them and is zeroed when a session begins.  A server has an   *)
(* accept thread and one handler thread per connection, which a second     *)
(* thread helps to pump bytes.  stop() ends the accept thread only: what a *)
(* handler of the old session still does interleaves with the new one.     *)
(*                                                                         *)
(* The engine's end of a connection is external, and so is the upstream    *)
(* proxy's: either may close at any moment.  Sums that only grow (bytes,   *)
(* total connections) are left out, and so is what the bytes are.          *)
(***************************************************************************)
EXTENDS Integers, FiniteSets

CONSTANTS
    Conns,        \* connections the engine may open
    MaxSessions   \* bound on the sessions of the tunnel

ASSUME FrontAssumption == MaxSessions \in Nat \ {0}

Sessions == 1 .. MaxSessions
Ways == {"up", "down"}

VARIABLES
    session,    \* number of the current session
    phase,      \* where DjVpnService is in the life of that session
    running,    \* [Sessions -> BOOLEAN] LocalSocksServer.running
    listening,  \* [Sessions -> BOOLEAN] its server socket is open
    acceptor,   \* [Sessions -> step of the accept thread]
    conn,       \* [Conns -> state of the connection and of its handler]
    active,     \* TunnelCounters.activeConnections
    old,        \* history: connections that were counted at the last reset
    late        \* history: how many of those have been subtracted since

serverVars == <<session, phase, running, listening>>
countVars == <<active, old, late>>
vars == <<serverVars, acceptor, conn, countVars>>

NoConn == [pc |-> "idle", session |-> 0, client |-> FALSE, peer |-> FALSE,
           upstream |-> "none", far |-> FALSE, up |-> "none", down |-> "none"]

Init ==
    /\ session = 0 /\ phase = "down"
    /\ running = [s \in Sessions |-> FALSE]
    /\ listening = [s \in Sessions |-> FALSE]
    /\ acceptor = [s \in Sessions |-> "none"]
    /\ conn = [c \in Conns |-> NoConn]
    /\ active = 0 /\ old = {} /\ late = 0

\* Connections that are part of the count: opened, and not yet closed.
Counted == {c \in Conns : conn[c].pc \notin {"idle", "backlog", "accepted", "done"}}

-----------------------------------------------------------------------------
(***************************************************************************)
(* A session, as DjVpnService runs it.                                     *)
(***************************************************************************)

\* Bring-up zeroes the counters.
Reset ==
    /\ phase = "down" /\ session < MaxSessions
    /\ session' = session + 1
    /\ phase' = "reset"
    /\ active' = 0 /\ old' = Counted /\ late' = 0
    /\ UNCHANGED <<running, listening, acceptor, conn>>

\* LocalSocksServer.start; plumbEngine then starts the engine on its port.
Start ==
    /\ phase = "reset"
    /\ phase' = "up"
    /\ running' = [running EXCEPT ![session] = TRUE]
    /\ listening' = [listening EXCEPT ![session] = TRUE]
    /\ acceptor' = [acceptor EXCEPT ![session] = "test"]
    /\ UNCHANGED <<session, conn, countVars>>

\* Teardown stops the engine first: its ends of all connections close.
StopEngine ==
    /\ phase = "up"
    /\ phase' = "stopping"
    /\ conn' = [c \in Conns |-> [conn[c] EXCEPT !.peer = FALSE]]
    /\ UNCHANGED <<session, running, listening, acceptor, countVars>>

\* LocalSocksServer.stop: the flag ...
StopRunning ==
    /\ phase = "stopping" /\ running[session]
    /\ running' = [running EXCEPT ![session] = FALSE]
    /\ UNCHANGED <<session, phase, listening, acceptor, conn, countVars>>

\* ... and then the server socket, with the connections nobody has accepted.
StopListening ==
    /\ phase = "stopping" /\ ~running[session]
    /\ phase' = "down"
    /\ listening' = [listening EXCEPT ![session] = FALSE]
    /\ conn' = [c \in Conns |->
                  IF conn[c].session = session /\ conn[c].pc = "backlog"
                    THEN [conn[c] EXCEPT !.pc = "done", !.client = FALSE] ELSE conn[c]]
    /\ UNCHANGED <<session, running, acceptor, countVars>>

-----------------------------------------------------------------------------
(***************************************************************************)
(* The other ends.                                                         *)
(***************************************************************************)

\* The engine connects to the port of the current session.
EngineConnects(c) ==
    /\ phase = "up"
    /\ conn[c].pc = "idle"
    /\ conn' = [conn EXCEPT ![c] = [NoConn EXCEPT !.pc = "backlog", !.session = session,
                                                  !.client = TRUE, !.peer = TRUE]]
    /\ UNCHANGED <<serverVars, acceptor, countVars>>

EngineCloses(c) ==
    /\ conn[c].peer
    /\ conn' = [conn EXCEPT ![c].peer = FALSE]
    /\ UNCHANGED <<serverVars, acceptor, countVars>>

ProxyCloses(c) ==
    /\ conn[c].far
    /\ conn' = [conn EXCEPT ![c].far = FALSE]
    /\ UNCHANGED <<serverVars, acceptor, countVars>>

-----------------------------------------------------------------------------
(***************************************************************************)
(* acceptLoop.                                                             *)
(***************************************************************************)

\* `while (running)`.
AcceptTest(s) ==
    /\ acceptor[s] = "test"
    /\ acceptor' = [acceptor EXCEPT ![s] = IF running[s] THEN "accept" ELSE "end"]
    /\ UNCHANGED <<serverVars, conn, countVars>>

\* accept() returns: a handler starts, whatever became of running meanwhile.
Accept(s, c) ==
    /\ acceptor[s] = "accept" /\ listening[s]
    /\ conn[c].session = s /\ conn[c].pc = "backlog"
    /\ acceptor' = [acceptor EXCEPT ![s] = "test"]
    /\ conn' = [conn EXCEPT ![c].pc = "accepted"]
    /\ UNCHANGED <<serverVars, countVars>>

\* accept() throws: the socket is closed, or no descriptor is left for the
\* connection.  `if (running) continue else break`.
AcceptThrows(s) ==
    /\ acceptor[s] = "accept"
    /\ acceptor' = [acceptor EXCEPT ![s] = IF running[s] THEN "test" ELSE "end"]
    /\ UNCHANGED <<serverVars, conn, countVars>>

-----------------------------------------------------------------------------
(***************************************************************************)
(* handle.                                                                 *)
(***************************************************************************)

At(c, pc) == conn[c].pc = pc
Goto(c, pc) == conn' = [conn EXCEPT ![c].pc = pc]

\* onConnectionOpened.
Opened(c) ==
    /\ At(c, "accepted")
    /\ Goto(c, "request")
    /\ active' = active + 1
    /\ UNCHANGED <<serverVars, acceptor, old, late>>

\* negotiateNoAuth and readRequest: a bad greeting or request, another command
\* or a blocked host is refused, and a silent peer timed out; the sentinel is
\* served here; anything else is dialed.
Request(c) ==
    /\ At(c, "request")
    /\ Goto(c, "close") \/ Goto(c, "dns") \/ Goto(c, "dial")
    /\ UNCHANGED <<serverVars, acceptor, countVars>>

\* serveDnsOverTcp: `while (running && !client.isClosed)`.
DnsTest(c) ==
    /\ At(c, "dns")
    /\ Goto(c, IF running[conn[c].session] THEN "query" ELSE "close")
    /\ UNCHANGED <<serverVars, acceptor, countVars>>

DnsAnswers(c) ==
    /\ At(c, "query") /\ conn[c].peer
    /\ Goto(c, "dns")
    /\ UNCHANGED <<serverVars, acceptor, countVars>>

\* The peer is done or silent for too long, or the lookup fails.
DnsEnds(c) ==
    /\ At(c, "query")
    /\ Goto(c, "close")
    /\ UNCHANGED <<serverVars, acceptor, countVars>>

\* ProxyDialer.connect: the proxy's name does not resolve, or a socket is
\* made, which the handler does not hold yet.
Dial(c) ==
    /\ At(c, "dial")
    /\ \/ Goto(c, "close")
       \/ conn' = [conn EXCEPT ![c].pc = "handshake", ![c].upstream = "raw", ![c].far = TRUE]
    /\ UNCHANGED <<serverVars, acceptor, countVars>>

\* Mutant: the dialer leaves the socket to its caller, who never gets it.
DialFailsOpen(c) ==
    /\ At(c, "handshake")
    /\ Goto(c, "close")
    /\ UNCHANGED <<serverVars, acceptor, countVars>>

\* The connect or the handshake fails or times out: the dialer closes.
DialFails(c) ==
    /\ At(c, "handshake")
    /\ conn' = [conn EXCEPT ![c].pc = "close", ![c].upstream = "closed", ![c].far = FALSE]
    /\ UNCHANGED <<serverVars, acceptor, countVars>>

\* `upstream = dial.socket`.
DialOk(c) ==
    /\ At(c, "handshake") /\ conn[c].far
    /\ conn' = [conn EXCEPT ![c].pc = "reply", ![c].upstream = "held"]
    /\ UNCHANGED <<serverVars, acceptor, countVars>>

\* The reply is written and the pump starts, or the client is gone.
Reply(c) ==
    /\ At(c, "reply")
    /\ \/ conn' = [conn EXCEPT ![c].pc = "pump", ![c].up = "read", ![c].down = "read"]
       \/ ~conn[c].peer /\ Goto(c, "close")
    /\ UNCHANGED <<serverVars, acceptor, countVars>>

\* The rest of pump: join the other thread, for two seconds at most.
Join(c) ==
    /\ At(c, "pump") /\ conn[c].down = "end"
    /\ Goto(c, "close")
    /\ UNCHANGED <<serverVars, acceptor, countVars>>

\* The finally closes the upstream socket, if the handler holds one, and the
\* client.
Released(c) ==
    conn' = [conn EXCEPT ![c].pc = "done", ![c].client = FALSE, ![c].peer = FALSE,
                         ![c].upstream = IF @ = "held" THEN "closed" ELSE @,
                         ![c].far = IF conn[c].upstream = "held" THEN FALSE ELSE @]

\* Mutant: a flow that has carried bytes is not subtracted.
CloseUnlessPumped(c) ==
    /\ At(c, "close")
    /\ Released(c)
    /\ active' = IF active > 0 /\ conn[c].up = "none" THEN active - 1 ELSE active
    /\ late' = IF c \in old THEN late + 1 ELSE late
    /\ UNCHANGED <<serverVars, acceptor, old>>

\* The finally: the sockets, and then onConnectionClosed, whatever session it
\* is by now.
Close(c) ==
    /\ At(c, "close")
    /\ Released(c)
    /\ active' = IF active > 0 THEN active - 1 ELSE 0
    /\ late' = IF c \in old THEN late + 1 ELSE late
    /\ UNCHANGED <<serverVars, acceptor, old>>

-----------------------------------------------------------------------------
(***************************************************************************)
(* copy, one thread per way: "up" reads the client and writes upstream.    *)
(***************************************************************************)

Open(c, side) ==
    IF side = "client" THEN conn[c].client /\ conn[c].peer
                       ELSE conn[c].upstream = "held" /\ conn[c].far

SourceOpen(c, w) == Open(c, IF w = "up" THEN "client" ELSE "upstream")
TargetOpen(c, w) == Open(c, IF w = "up" THEN "upstream" ELSE "client")

\* read() returns bytes, and write() takes them.
CopyReads(c, w) ==
    /\ conn[c][w] = "read" /\ SourceOpen(c, w)
    /\ conn' = [conn EXCEPT ![c][w] = "write"]
    /\ UNCHANGED <<serverVars, acceptor, countVars>>

CopyWrites(c, w) ==
    /\ conn[c][w] = "write" /\ TargetOpen(c, w)
    /\ conn' = [conn EXCEPT ![c][w] = "read"]
    /\ UNCHANGED <<serverVars, acceptor, countVars>>

\* The end of the stream, or an exception.
CopyOver(c, w) ==
    \/ conn[c][w] = "read" /\ ~SourceOpen(c, w)
    \/ conn[c][w] = "write" /\ ~TargetOpen(c, w)

\* Mutant: a copy that ends closes what it has read from, and nothing else.
CopyEndsHalf(c, w) ==
    /\ CopyOver(c, w)
    /\ conn' = IF w = "up"
                 THEN [conn EXCEPT ![c].up = "end", ![c].client = FALSE, ![c].peer = FALSE]
                 ELSE [conn EXCEPT ![c].down = "end", ![c].upstream = "closed", ![c].far = FALSE]
    /\ UNCHANGED <<serverVars, acceptor, countVars>>

\* The finally of copy closes both sockets, which the other thread notices.
CopyEnds(c, w) ==
    /\ CopyOver(c, w)
    /\ conn' = [conn EXCEPT ![c][w] = "end", ![c].client = FALSE, ![c].peer = FALSE,
                            ![c].upstream = "closed", ![c].far = FALSE]
    /\ UNCHANGED <<serverVars, acceptor, countVars>>

-----------------------------------------------------------------------------
Session == Reset \/ Start \/ StopEngine \/ StopRunning \/ StopListening

Acceptor(s) == AcceptTest(s) \/ AcceptThrows(s) \/ \E c \in Conns : Accept(s, c)

Handler(c) ==
    \/ Opened(c) \/ Request(c)
    \/ DnsTest(c) \/ DnsAnswers(c) \/ DnsEnds(c)
    \/ Dial(c) \/ DialFails(c) \/ DialOk(c) \/ Reply(c)
    \/ Join(c) \/ Close(c)

Next ==
    \/ Session
    \/ \E s \in Sessions : Acceptor(s)
    \/ \E c \in Conns :
         \/ EngineConnects(c) \/ EngineCloses(c) \/ ProxyCloses(c)
         \/ Handler(c)
         \/ \E w \in Ways : CopyReads(c, w) \/ CopyWrites(c, w) \/ CopyEnds(c, w)

Spec == Init /\ [][Next]_vars

\* The other end of a write takes the bytes, or closes.
TargetAnswers(c, w) ==
    \/ CopyWrites(c, w)
    \/ conn[c][w] = "write" /\ IF w = "up" THEN ProxyCloses(c) ELSE EngineCloses(c)

\* A stop that has begun goes on, and so do the threads.  accept() returns when
\* there is a connection and throws once the socket is closed; until then it may
\* block for ever.  Every wait of a handler before the pump has a timeout.  In
\* the pump a read may block for ever; a write ends, since nobody keeps a
\* connection without reading it for good.
Fairness ==
    /\ WF_vars(StopRunning) /\ WF_vars(StopListening)
    /\ \A s \in Sessions :
         /\ WF_vars(AcceptTest(s) \/ \E c \in Conns : Accept(s, c))
         /\ WF_vars(~listening[s] /\ AcceptThrows(s))
    /\ \A c \in Conns :
         /\ WF_vars(Handler(c))
         /\ \A w \in Ways : WF_vars(TargetAnswers(c, w)) /\ WF_vars(CopyEnds(c, w))

FairSpec == Spec /\ Fairness

-----------------------------------------------------------------------------
(***************************************************************************)
(* Properties.                                                             *)
(***************************************************************************)

Steps == {"idle", "backlog", "accepted", "request", "dns", "query", "dial",
          "handshake", "reply", "pump", "close", "done"}
CopySteps == {"none", "read", "write", "end"}

\* The states of a connection.
Connections == [pc : Steps, session : 0 .. MaxSessions,
                client : BOOLEAN, peer : BOOLEAN, far : BOOLEAN,
                upstream : {"none", "raw", "held", "closed"},
                up : CopySteps, down : CopySteps]

\* Every variable has its type; the count in particular is never negative.
TypeOK ==
    /\ session \in 0 .. MaxSessions
    /\ phase \in {"down", "reset", "up", "stopping"}
    /\ running \in [Sessions -> BOOLEAN] /\ listening \in [Sessions -> BOOLEAN]
    /\ acceptor \in [Sessions -> {"none", "test", "accept", "end"}]
    /\ conn \in [Conns -> Connections]
    /\ active \in Nat /\ late \in Nat /\ old \subseteq Conns

\* The published count never claims connections that are not there, so it is
\* zero again once all handlers have ended; and it misses at most as many of
\* this session's as connections of an older session have closed since it
\* began (TunnelCounters is shared, and reset() while those are open).
CountTracks ==
    /\ active <= Cardinality(Counted)
    /\ Cardinality(Counted \ old) <= active + late

\* A handler that has ended has left no socket behind, whichever of its
\* refusals, failures or timeouts ended it and whichever thread closed what.
SocketsReleased ==
    \A c \in Conns :
        At(c, "done") => ~conn[c].client /\ conn[c].upstream \in {"none", "closed"}

\* The sockets before the end: only a dialer in its handshake has one the
\* handler does not hold, and nobody has dialed for what is not accepted yet.
DialerOwns ==
    \A c \in Conns :
        /\ ~At(c, "handshake") => conn[c].upstream # "raw"
        /\ At(c, "backlog") => conn[c].upstream \in {"none", "closed"}

\* What every step preserves.  Conns may be infinite; what is counted is not.
IInv ==
    /\ TypeOK
    /\ IsFiniteSet(Counted) /\ CountTracks
    /\ DialerOwns /\ SocketsReleased

Over(c) == At(c, "done") /\ conn[c].up \in {"none", "end"}

\* Every thread of a stopped session ends.  stop() does not touch connections,
\* yet closing one end of a flow is enough to end both its threads: once the
\* engine's end has closed, as all do when a session stops, the handler and its
\* helper end.  And so does the accept thread, although accept() may fail at any
\* moment and is retried at once.
ThreadsEnd ==
    /\ \A c \in Conns : conn[c].pc \notin {"idle", "backlog"} /\ ~conn[c].peer ~> Over(c)
    /\ \A s \in Sessions : acceptor[s] # "none" /\ ~running[s] ~> acceptor[s] = "end"
=============================================================================
