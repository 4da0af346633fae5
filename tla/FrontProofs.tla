----------------------------- MODULE FrontProofs -----------------------------
(***************************************************************************)
(* Proofs about Front, for any set of connections and any number of        *)
(* sessions: the published connection count tracks the open connections    *)
(* (CountTracks), although sessions share it and one of them zeroes it     *)
(* while handlers of another are still open; and a handler that has ended  *)
(* has left no socket behind (SocketsReleased).                            *)
(*                                                                         *)
(* Both rest on IInv of Front: what is counted is always finite, and the   *)
(* only socket the handler does not hold is the dialer's in its handshake. *)
(***************************************************************************)
EXTENDS Front, FiniteSetTheorems, TLAPS

\* The initial states satisfy the invariant.
LEMMA InitIInv == ASSUME Init PROVE IInv
<1> USE DEF Init
<1>1. NoConn \in Connections
  BY FrontAssumption DEF NoConn, Connections, Steps, CopySteps
<1>2. TypeOK
  BY <1>1, FrontAssumption DEF TypeOK
<1>3. Counted = {}
  BY DEF Counted, NoConn
<1>4. IsFiniteSet(Counted) /\ CountTracks
  BY <1>3, FS_EmptySet DEF CountTracks
<1>5. DialerOwns /\ SocketsReleased
  BY DEF DialerOwns, SocketsReleased, At, NoConn
<1> QED
  BY <1>2, <1>4, <1>5 DEF IInv

\* A step that counts nobody in or out, and leaves the counters alone, keeps
\* the count in its bounds.
LEMMA CountKept ==
  ASSUME IsFiniteSet(Counted), CountTracks,
         Counted' = Counted, UNCHANGED countVars
  PROVE  IsFiniteSet(Counted)' /\ CountTracks'
  BY DEF CountTracks, countVars

\* A connection one of whose far ends closes is still a connection.
LEMMA EndCloses ==
  ASSUME NEW r \in Connections
  PROVE  [r EXCEPT !.peer = FALSE] \in Connections /\ [r EXCEPT !.far = FALSE] \in Connections
  BY DEF Connections

\* Every step preserves the invariant: one step of the proof per action.
LEMMA StepIInv == ASSUME IInv, [Next]_vars PROVE IInv'
<1> USE DEF serverVars, countVars, At, Goto
<1>0. TypeOK /\ IsFiniteSet(Counted) /\ CountTracks /\ DialerOwns /\ SocketsReleased
  BY DEF IInv
<1>1. ASSUME Reset PROVE IInv'
  <2> USE <1>0, <1>1 DEF Reset
  <2>1. TypeOK'
    <3>1. session' \in 0 .. MaxSessions
      BY FrontAssumption DEF TypeOK
    <3>2. Counted \subseteq Conns
      BY DEF Counted
    <3> QED
      BY <3>1, <3>2 DEF TypeOK
  <2>2. Counted' = Counted /\ Counted' \ old' = {}
    BY DEF Counted
  <2>3. IsFiniteSet(Counted)' /\ CountTracks'
    <3>1. IsFiniteSet(Counted')
      BY <2>2
    <3>2. Cardinality(Counted') \in Nat /\ Cardinality(Counted' \ old') = 0
      BY <2>2, <3>1, FS_EmptySet, FS_CardinalityType
    <3> QED
      BY <3>1, <3>2 DEF CountTracks
  <2>4. DialerOwns'
    BY DEF DialerOwns, TypeOK, Connections
  <2>5. SocketsReleased'
    BY DEF DialerOwns, SocketsReleased, TypeOK, Connections
  <2> QED
    BY <2>1, <2>3, <2>4, <2>5 DEF IInv
<1>2. ASSUME Start PROVE IInv'
  <2> USE <1>0, <1>2 DEF Start
  <2>1. TypeOK'
    BY FrontAssumption DEF TypeOK, Connections, Steps, CopySteps, Sessions
  <2>2. Counted' = Counted
    BY DEF Counted, TypeOK, Connections
  <2>3. IsFiniteSet(Counted)' /\ CountTracks'
    BY <2>2, CountKept
  <2>4. DialerOwns'
    BY DEF DialerOwns, TypeOK, Connections
  <2>5. SocketsReleased'
    BY DEF DialerOwns, SocketsReleased, TypeOK, Connections
  <2> QED
    BY <2>1, <2>3, <2>4, <2>5 DEF IInv
<1>3. ASSUME StopEngine PROVE IInv'
  <2> USE <1>0, <1>3 DEF StopEngine
  <2>1. TypeOK'
    <3>1. conn \in [Conns -> Connections]
      BY DEF TypeOK
    <3>2. conn' \in [Conns -> Connections]
      BY <3>1, EndCloses
    <3> QED
      BY <3>2 DEF TypeOK
  <2>2. Counted' = Counted
    BY DEF Counted, TypeOK, Connections
  <2>3. IsFiniteSet(Counted)' /\ CountTracks'
    BY <2>2, CountKept
  <2>4. DialerOwns'
    BY DEF DialerOwns, TypeOK, Connections
  <2>5. SocketsReleased'
    BY DEF DialerOwns, SocketsReleased, TypeOK, Connections
  <2> QED
    BY <2>1, <2>3, <2>4, <2>5 DEF IInv
<1>4. ASSUME StopRunning PROVE IInv'
  <2> USE <1>0, <1>4 DEF StopRunning
  <2>1. TypeOK'
    BY FrontAssumption DEF TypeOK, Connections, Steps, CopySteps, Sessions
  <2>2. Counted' = Counted
    BY DEF Counted, TypeOK, Connections
  <2>3. IsFiniteSet(Counted)' /\ CountTracks'
    BY <2>2, CountKept
  <2>4. DialerOwns'
    BY DEF DialerOwns, TypeOK, Connections
  <2>5. SocketsReleased'
    BY DEF DialerOwns, SocketsReleased, TypeOK, Connections
  <2> QED
    BY <2>1, <2>3, <2>4, <2>5 DEF IInv
<1>5. ASSUME StopListening PROVE IInv'
  <2> USE <1>0, <1>5 DEF StopListening
  <2>a. ASSUME NEW c \in Conns
        PROVE  \/ conn'[c] = conn[c]
               \/ /\ conn[c].pc = "backlog" /\ conn'[c].pc = "done"
                  /\ ~conn'[c].client /\ conn'[c].upstream = conn[c].upstream
    <3>1. conn[c] \in Connections
      BY DEF TypeOK
    <3> QED
      BY <3>1 DEF Connections
  <2>1. TypeOK'
    <3>1. ASSUME NEW c \in Conns PROVE conn'[c] \in Connections
      <4> DEFINE dropped == [conn[c] EXCEPT !.pc = "done", !.client = FALSE]
      <4>1. conn[c] \in Connections
        BY DEF TypeOK
      <4>2. dropped \in Connections
        BY <4>1 DEF Connections, Steps
      <4>3. conn'[c] = conn[c] \/ conn'[c] = dropped
        OBVIOUS
      <4> QED
        BY <4>1, <4>2, <4>3
    <3>2. conn' \in [Conns -> Connections]
      BY <3>1
    <3> QED
      BY <3>2 DEF TypeOK, Sessions
  <2>2. Counted' = Counted
    BY <2>a DEF Counted
  <2>3. IsFiniteSet(Counted)' /\ CountTracks'
    BY <2>2, CountKept
  <2>4. DialerOwns'
    BY <2>a DEF DialerOwns
  <2>5. SocketsReleased'
    BY <2>a DEF DialerOwns, SocketsReleased
  <2> QED
    BY <2>1, <2>3, <2>4, <2>5 DEF IInv
<1>6. ASSUME NEW c \in Conns, EngineConnects(c) PROVE IInv'
  <2> USE <1>0, <1>6 DEF EngineConnects, NoConn
  <2>1. TypeOK'
    <3>1. conn' \in [Conns -> Connections]
      BY DEF TypeOK, Connections, Steps, CopySteps
    <3> QED
      BY <3>1 DEF TypeOK
  <2>2. Counted' = Counted
    BY DEF Counted, TypeOK, Connections
  <2>3. IsFiniteSet(Counted)' /\ CountTracks'
    BY <2>2, CountKept
  <2>4. DialerOwns'
    BY DEF DialerOwns, TypeOK, Connections
  <2>5. SocketsReleased'
    BY DEF DialerOwns, SocketsReleased, TypeOK, Connections
  <2> QED
    BY <2>1, <2>3, <2>4, <2>5 DEF IInv
<1>7. ASSUME NEW c \in Conns, EngineCloses(c) PROVE IInv'
  <2> USE <1>0, <1>7 DEF EngineCloses
  <2>1. TypeOK'
    <3>0. conn \in [Conns -> Connections] /\ conn' = [conn EXCEPT ![c] = [conn[c] EXCEPT !.peer = FALSE]]
      BY DEF TypeOK
    <3>1. conn' \in [Conns -> Connections]
      BY <3>0, EndCloses
    <3> QED
      BY <3>1 DEF TypeOK
  <2>2. Counted' = Counted
    BY DEF Counted, TypeOK, Connections
  <2>3. IsFiniteSet(Counted)' /\ CountTracks'
    BY <2>2, CountKept
  <2>4. DialerOwns'
    BY DEF DialerOwns, TypeOK, Connections
  <2>5. SocketsReleased'
    BY DEF DialerOwns, SocketsReleased, TypeOK, Connections
  <2> QED
    BY <2>1, <2>3, <2>4, <2>5 DEF IInv
<1>8. ASSUME NEW c \in Conns, ProxyCloses(c) PROVE IInv'
  <2> USE <1>0, <1>8 DEF ProxyCloses
  <2>1. TypeOK'
    <3>0. conn \in [Conns -> Connections] /\ conn' = [conn EXCEPT ![c] = [conn[c] EXCEPT !.far = FALSE]]
      BY DEF TypeOK
    <3>1. conn' \in [Conns -> Connections]
      BY <3>0, EndCloses
    <3> QED
      BY <3>1 DEF TypeOK
  <2>2. Counted' = Counted
    BY DEF Counted, TypeOK, Connections
  <2>3. IsFiniteSet(Counted)' /\ CountTracks'
    BY <2>2, CountKept
  <2>4. DialerOwns'
    BY DEF DialerOwns, TypeOK, Connections
  <2>5. SocketsReleased'
    BY DEF DialerOwns, SocketsReleased, TypeOK, Connections
  <2> QED
    BY <2>1, <2>3, <2>4, <2>5 DEF IInv
<1>9. ASSUME NEW s \in Sessions, AcceptTest(s) PROVE IInv'
  <2> USE <1>0, <1>9 DEF AcceptTest
  <2>1. TypeOK'
    BY FrontAssumption DEF TypeOK, Connections, Steps, CopySteps, Sessions
  <2>2. Counted' = Counted
    BY DEF Counted, TypeOK, Connections
  <2>3. IsFiniteSet(Counted)' /\ CountTracks'
    BY <2>2, CountKept
  <2>4. DialerOwns'
    BY DEF DialerOwns, TypeOK, Connections
  <2>5. SocketsReleased'
    BY DEF DialerOwns, SocketsReleased, TypeOK, Connections
  <2> QED
    BY <2>1, <2>3, <2>4, <2>5 DEF IInv
<1>10. ASSUME NEW s \in Sessions, NEW c \in Conns, Accept(s, c) PROVE IInv'
  <2> USE <1>0, <1>10 DEF Accept
  <2>1. TypeOK'
    <3>1. conn' \in [Conns -> Connections]
      BY DEF TypeOK, Connections, Steps
    <3> QED
      BY <3>1 DEF TypeOK
  <2>2. Counted' = Counted
    BY DEF Counted, TypeOK, Connections
  <2>3. IsFiniteSet(Counted)' /\ CountTracks'
    BY <2>2, CountKept
  <2>4. DialerOwns'
    BY DEF DialerOwns, TypeOK, Connections
  <2>5. SocketsReleased'
    BY DEF DialerOwns, SocketsReleased, TypeOK, Connections
  <2> QED
    BY <2>1, <2>3, <2>4, <2>5 DEF IInv
<1>11. ASSUME NEW s \in Sessions, AcceptThrows(s) PROVE IInv'
  <2> USE <1>0, <1>11 DEF AcceptThrows
  <2>1. TypeOK'
    BY FrontAssumption DEF TypeOK, Connections, Steps, CopySteps, Sessions
  <2>2. Counted' = Counted
    BY DEF Counted, TypeOK, Connections
  <2>3. IsFiniteSet(Counted)' /\ CountTracks'
    BY <2>2, CountKept
  <2>4. DialerOwns'
    BY DEF DialerOwns, TypeOK, Connections
  <2>5. SocketsReleased'
    BY DEF DialerOwns, SocketsReleased, TypeOK, Connections
  <2> QED
    BY <2>1, <2>3, <2>4, <2>5 DEF IInv
<1>12. ASSUME NEW c \in Conns, Opened(c) PROVE IInv'
  <2> USE <1>0, <1>12 DEF Opened
  <2>1. TypeOK'
    <3>1. conn' \in [Conns -> Connections]
      BY DEF TypeOK, Connections, Steps
    <3> QED
      BY <3>1 DEF TypeOK
  <2>2. c \notin Counted /\ Counted' = Counted \cup {c}
    BY DEF Counted, TypeOK, Connections
  <2>3. IsFiniteSet(Counted)' /\ CountTracks'
    <3>1. /\ IsFiniteSet(Counted')
          /\ Cardinality(Counted') = Cardinality(Counted) + 1
      BY <2>2, FS_AddElement
    <3>2. /\ IsFiniteSet(Counted \ old)
          /\ Cardinality(Counted) \in Nat /\ Cardinality(Counted \ old) \in Nat
      BY FS_Difference, FS_CardinalityType
    <3>3. Cardinality(Counted' \ old') <= Cardinality(Counted \ old) + 1
      <4>1. CASE c \in old
        <5>1. Counted' \ old' = Counted \ old
          BY <2>2, <4>1
        <5> QED
          BY <5>1, <3>2
      <4>2. CASE c \notin old
        <5>1. Counted' \ old' = (Counted \ old) \cup {c}
          BY <2>2, <4>2
        <5>2. Cardinality((Counted \ old) \cup {c}) = Cardinality(Counted \ old) + 1
          BY <2>2, <3>2, FS_AddElement
        <5>3. Cardinality(Counted' \ old') = Cardinality(Counted \ old) + 1
          BY <5>1, <5>2
        <5> QED
          BY <5>3, <3>2
      <4> QED
        BY <4>1, <4>2
    <3>4. IsFiniteSet(Counted' \ old') /\ Cardinality(Counted' \ old') \in Nat
      BY <3>1, FS_Difference, FS_CardinalityType
    <3> QED
      BY <3>1, <3>2, <3>3, <3>4 DEF CountTracks, TypeOK
  <2>4. DialerOwns'
    BY DEF DialerOwns, TypeOK, Connections
  <2>5. SocketsReleased'
    BY DEF DialerOwns, SocketsReleased, TypeOK, Connections
  <2> QED
    BY <2>1, <2>3, <2>4, <2>5 DEF IInv
<1>13. ASSUME NEW c \in Conns, Request(c) PROVE IInv'
  <2> USE <1>0, <1>13 DEF Request
  <2>1. TypeOK'
    <3>1. conn' \in [Conns -> Connections]
      BY DEF TypeOK, Connections, Steps
    <3> QED
      BY <3>1 DEF TypeOK
  <2>2. Counted' = Counted
    BY DEF Counted, TypeOK, Connections
  <2>3. IsFiniteSet(Counted)' /\ CountTracks'
    BY <2>2, CountKept
  <2>4. DialerOwns'
    BY DEF DialerOwns, TypeOK, Connections
  <2>5. SocketsReleased'
    BY DEF DialerOwns, SocketsReleased, TypeOK, Connections
  <2> QED
    BY <2>1, <2>3, <2>4, <2>5 DEF IInv
<1>14. ASSUME NEW c \in Conns, DnsTest(c) PROVE IInv'
  <2> USE <1>0, <1>14 DEF DnsTest
  <2>1. TypeOK'
    <3>1. conn' \in [Conns -> Connections]
      BY DEF TypeOK, Connections, Steps
    <3> QED
      BY <3>1 DEF TypeOK
  <2>2. Counted' = Counted
    BY DEF Counted, TypeOK, Connections
  <2>3. IsFiniteSet(Counted)' /\ CountTracks'
    BY <2>2, CountKept
  <2>4. DialerOwns'
    BY DEF DialerOwns, TypeOK, Connections
  <2>5. SocketsReleased'
    BY DEF DialerOwns, SocketsReleased, TypeOK, Connections
  <2> QED
    BY <2>1, <2>3, <2>4, <2>5 DEF IInv
<1>15. ASSUME NEW c \in Conns, DnsAnswers(c) PROVE IInv'
  <2> USE <1>0, <1>15 DEF DnsAnswers
  <2>1. TypeOK'
    <3>1. conn' \in [Conns -> Connections]
      BY DEF TypeOK, Connections, Steps
    <3> QED
      BY <3>1 DEF TypeOK
  <2>2. Counted' = Counted
    BY DEF Counted, TypeOK, Connections
  <2>3. IsFiniteSet(Counted)' /\ CountTracks'
    BY <2>2, CountKept
  <2>4. DialerOwns'
    BY DEF DialerOwns, TypeOK, Connections
  <2>5. SocketsReleased'
    BY DEF DialerOwns, SocketsReleased, TypeOK, Connections
  <2> QED
    BY <2>1, <2>3, <2>4, <2>5 DEF IInv
<1>16. ASSUME NEW c \in Conns, DnsEnds(c) PROVE IInv'
  <2> USE <1>0, <1>16 DEF DnsEnds
  <2>1. TypeOK'
    <3>1. conn' \in [Conns -> Connections]
      BY DEF TypeOK, Connections, Steps
    <3> QED
      BY <3>1 DEF TypeOK
  <2>2. Counted' = Counted
    BY DEF Counted, TypeOK, Connections
  <2>3. IsFiniteSet(Counted)' /\ CountTracks'
    BY <2>2, CountKept
  <2>4. DialerOwns'
    BY DEF DialerOwns, TypeOK, Connections
  <2>5. SocketsReleased'
    BY DEF DialerOwns, SocketsReleased, TypeOK, Connections
  <2> QED
    BY <2>1, <2>3, <2>4, <2>5 DEF IInv
<1>17. ASSUME NEW c \in Conns, Dial(c) PROVE IInv'
  <2> USE <1>0, <1>17 DEF Dial
  <2>1. TypeOK'
    <3>1. conn' \in [Conns -> Connections]
      BY DEF TypeOK, Connections, Steps
    <3> QED
      BY <3>1 DEF TypeOK
  <2>2. Counted' = Counted
    BY DEF Counted, TypeOK, Connections
  <2>3. IsFiniteSet(Counted)' /\ CountTracks'
    BY <2>2, CountKept
  <2>4. DialerOwns'
    BY DEF DialerOwns, TypeOK, Connections
  <2>5. SocketsReleased'
    BY DEF DialerOwns, SocketsReleased, TypeOK, Connections
  <2> QED
    BY <2>1, <2>3, <2>4, <2>5 DEF IInv
<1>18. ASSUME NEW c \in Conns, DialFails(c) PROVE IInv'
  <2> USE <1>0, <1>18 DEF DialFails
  <2>1. TypeOK'
    <3> DEFINE moved == [conn[c] EXCEPT !.pc = "close", !.upstream = "closed", !.far = FALSE]
    <3>1. conn[c] \in Connections
      BY DEF TypeOK
    <3>2. moved \in Connections
      BY <3>1 DEF Connections, Steps
    <3>3. conn' = [conn EXCEPT ![c] = moved]
      BY <3>1 DEF TypeOK
    <3> QED
      BY <3>2, <3>3 DEF TypeOK
  <2>2. Counted' = Counted
    BY DEF Counted, TypeOK, Connections
  <2>3. IsFiniteSet(Counted)' /\ CountTracks'
    BY <2>2, CountKept
  <2>4. DialerOwns'
    BY DEF DialerOwns, TypeOK, Connections
  <2>5. SocketsReleased'
    BY DEF DialerOwns, SocketsReleased, TypeOK, Connections
  <2> QED
    BY <2>1, <2>3, <2>4, <2>5 DEF IInv
<1>19. ASSUME NEW c \in Conns, DialOk(c) PROVE IInv'
  <2> USE <1>0, <1>19 DEF DialOk
  <2>1. TypeOK'
    <3> DEFINE moved == [conn[c] EXCEPT !.pc = "reply", !.upstream = "held"]
    <3>1. conn[c] \in Connections
      BY DEF TypeOK
    <3>2. moved \in Connections
      BY <3>1 DEF Connections, Steps
    <3>3. conn' = [conn EXCEPT ![c] = moved]
      BY <3>1 DEF TypeOK
    <3> QED
      BY <3>2, <3>3 DEF TypeOK
  <2>2. Counted' = Counted
    BY DEF Counted, TypeOK, Connections
  <2>3. IsFiniteSet(Counted)' /\ CountTracks'
    BY <2>2, CountKept
  <2>4. DialerOwns'
    BY DEF DialerOwns, TypeOK, Connections
  <2>5. SocketsReleased'
    BY DEF DialerOwns, SocketsReleased, TypeOK, Connections
  <2> QED
    BY <2>1, <2>3, <2>4, <2>5 DEF IInv
<1>20. ASSUME NEW c \in Conns, Reply(c) PROVE IInv'
  <2> USE <1>0, <1>20 DEF Reply
  <2>1. TypeOK'
    <3>1. conn' \in [Conns -> Connections]
      BY DEF TypeOK, Connections, Steps, CopySteps
    <3> QED
      BY <3>1 DEF TypeOK
  <2>2. Counted' = Counted
    BY DEF Counted, TypeOK, Connections
  <2>3. IsFiniteSet(Counted)' /\ CountTracks'
    BY <2>2, CountKept
  <2>4. DialerOwns'
    BY DEF DialerOwns, TypeOK, Connections
  <2>5. SocketsReleased'
    BY DEF DialerOwns, SocketsReleased, TypeOK, Connections
  <2> QED
    BY <2>1, <2>3, <2>4, <2>5 DEF IInv
<1>21. ASSUME NEW c \in Conns, Join(c) PROVE IInv'
  <2> USE <1>0, <1>21 DEF Join
  <2>1. TypeOK'
    <3>1. conn' \in [Conns -> Connections]
      BY DEF TypeOK, Connections, Steps
    <3> QED
      BY <3>1 DEF TypeOK
  <2>2. Counted' = Counted
    BY DEF Counted, TypeOK, Connections
  <2>3. IsFiniteSet(Counted)' /\ CountTracks'
    BY <2>2, CountKept
  <2>4. DialerOwns'
    BY DEF DialerOwns, TypeOK, Connections
  <2>5. SocketsReleased'
    BY DEF DialerOwns, SocketsReleased, TypeOK, Connections
  <2> QED
    BY <2>1, <2>3, <2>4, <2>5 DEF IInv
<1>22. ASSUME NEW c \in Conns, Close(c) PROVE IInv'
  <2> USE <1>0, <1>22 DEF Close, Released
  <2>1. TypeOK'
    <3> DEFINE moved == [conn[c] EXCEPT !.pc = "done", !.client = FALSE, !.peer = FALSE,
                       !.upstream = IF @ = "held" THEN "closed" ELSE @,
                       !.far = IF conn[c].upstream = "held" THEN FALSE ELSE @]
    <3>1. conn[c] \in Connections
      BY DEF TypeOK
    <3>2. moved \in Connections
      BY <3>1 DEF Connections, Steps
    <3>3. conn' = [conn EXCEPT ![c] = moved]
      BY <3>1 DEF TypeOK
    <3> QED
      BY <3>2, <3>3 DEF TypeOK
  <2>2. c \in Counted /\ Counted' = Counted \ {c}
    BY DEF Counted, TypeOK, Connections
  <2>3. IsFiniteSet(Counted)' /\ CountTracks'
    <3>1. /\ IsFiniteSet(Counted')
          /\ Cardinality(Counted') = Cardinality(Counted) - 1
      BY <2>2, FS_RemoveElement
    <3>2. /\ IsFiniteSet(Counted \ old)
          /\ Cardinality(Counted) \in Nat /\ Cardinality(Counted \ old) \in Nat
      BY FS_Difference, FS_CardinalityType
    <3>3. Cardinality(Counted') \in Nat
      BY <3>1, FS_CardinalityType
    <3>4. Cardinality(Counted' \ old') =
            IF c \in old THEN Cardinality(Counted \ old) ELSE Cardinality(Counted \ old) - 1
      <4>1. CASE c \in old
        <5>1. Counted' \ old' = Counted \ old
          BY <2>2, <4>1
        <5> QED
          BY <5>1, <4>1
      <4>2. CASE c \notin old
        <5>1. Counted' \ old' = (Counted \ old) \ {c} /\ c \in Counted \ old
          BY <2>2, <4>2
        <5>2. Cardinality((Counted \ old) \ {c}) = Cardinality(Counted \ old) - 1
          BY <5>1, <3>2, FS_RemoveElement
        <5> QED
          BY <5>1, <5>2, <4>2
      <4> QED
        BY <4>1, <4>2
    <3> QED
      BY <3>1, <3>2, <3>3, <3>4 DEF CountTracks, TypeOK
  <2>4. DialerOwns'
    BY DEF DialerOwns, TypeOK, Connections
  <2>5. SocketsReleased'
    BY DEF DialerOwns, SocketsReleased, TypeOK, Connections
  <2> QED
    BY <2>1, <2>3, <2>4, <2>5 DEF IInv
<1>23. ASSUME NEW c \in Conns, NEW w \in Ways, CopyReads(c, w) PROVE IInv'
  <2> USE <1>0, <1>23 DEF CopyReads, Ways
  <2>1. TypeOK'
    <3>1. conn' \in [Conns -> Connections]
      BY DEF TypeOK, Connections, CopySteps
    <3> QED
      BY <3>1 DEF TypeOK
  <2>2. Counted' = Counted
    BY DEF Counted, TypeOK, Connections
  <2>3. IsFiniteSet(Counted)' /\ CountTracks'
    BY <2>2, CountKept
  <2>4. DialerOwns'
    BY DEF DialerOwns, TypeOK, Connections
  <2>5. SocketsReleased'
    BY DEF DialerOwns, SocketsReleased, TypeOK, Connections
  <2> QED
    BY <2>1, <2>3, <2>4, <2>5 DEF IInv
<1>24. ASSUME NEW c \in Conns, NEW w \in Ways, CopyWrites(c, w) PROVE IInv'
  <2> USE <1>0, <1>24 DEF CopyWrites, Ways
  <2>1. TypeOK'
    <3>1. conn' \in [Conns -> Connections]
      BY DEF TypeOK, Connections, CopySteps
    <3> QED
      BY <3>1 DEF TypeOK
  <2>2. Counted' = Counted
    BY DEF Counted, TypeOK, Connections
  <2>3. IsFiniteSet(Counted)' /\ CountTracks'
    BY <2>2, CountKept
  <2>4. DialerOwns'
    BY DEF DialerOwns, TypeOK, Connections
  <2>5. SocketsReleased'
    BY DEF DialerOwns, SocketsReleased, TypeOK, Connections
  <2> QED
    BY <2>1, <2>3, <2>4, <2>5 DEF IInv
<1>25. ASSUME NEW c \in Conns, NEW w \in Ways, CopyEnds(c, w) PROVE IInv'
  <2> USE <1>0, <1>25 DEF CopyEnds
  <2> DEFINE over(r) == [r EXCEPT !.client = FALSE, !.peer = FALSE,
                                  !.upstream = "closed", !.far = FALSE]
             upOver == over([conn[c] EXCEPT !.up = "end"])
             downOver == over([conn[c] EXCEPT !.down = "end"])
  <2>8. conn[c] \in Connections /\ upOver \in Connections /\ downOver \in Connections
    <3>1. conn[c] \in Connections
      BY DEF TypeOK
    <3>2. [conn[c] EXCEPT !.up = "end"] \in Connections
      BY <3>1 DEF Connections, CopySteps
    <3>3. [conn[c] EXCEPT !.down = "end"] \in Connections
      BY <3>1 DEF Connections, CopySteps
    <3>4. \A r \in Connections : over(r) \in Connections
      BY DEF Connections
    <3> QED
      BY <3>1, <3>2, <3>3, <3>4
  <2>9. \E r \in {upOver, downOver} : conn' = [conn EXCEPT ![c] = r]
    <3>1. CASE w = "up"
      BY <3>1, <2>8 DEF TypeOK
    <3>2. CASE w = "down"
      BY <3>2, <2>8 DEF TypeOK
    <3> QED
      BY <3>1, <3>2 DEF Ways
  <2>1. TypeOK'
    BY <2>8, <2>9 DEF TypeOK
  <2>10. \A r \in {upOver, downOver} :
            r.pc = conn[c].pc /\ r.upstream = "closed" /\ r.client = FALSE
    BY <2>8 DEF Connections
  <2>12. UNCHANGED countVars
    OBVIOUS
  <2> HIDE <1>25 DEF upOver, downOver, CopyEnds
  <2>11. \A d \in Conns : \/ conn'[d] = conn[d]
                          \/ /\ conn'[d].pc = conn[d].pc
                             /\ conn'[d].upstream = "closed" /\ conn'[d].client = FALSE
    BY <2>9, <2>10 DEF TypeOK
  <2>2. Counted' = Counted
    BY <2>11 DEF Counted
  <2>3. IsFiniteSet(Counted)' /\ CountTracks'
    BY <2>2, <2>12, CountKept
  <2>4. DialerOwns'
    BY <2>11 DEF DialerOwns
  <2>5. SocketsReleased'
    BY <2>11 DEF SocketsReleased
  <2> QED
    BY <2>1, <2>3, <2>4, <2>5 DEF IInv
<1>26. CASE UNCHANGED vars
  <2> USE <1>0, <1>26 DEF vars
  <2>1. TypeOK'
    BY FrontAssumption DEF TypeOK, Connections, Steps, CopySteps, Sessions
  <2>2. Counted' = Counted
    BY DEF Counted, TypeOK, Connections
  <2>3. IsFiniteSet(Counted)' /\ CountTracks'
    BY <2>2, CountKept
  <2>4. DialerOwns'
    BY DEF DialerOwns, TypeOK, Connections
  <2>5. SocketsReleased'
    BY DEF DialerOwns, SocketsReleased, TypeOK, Connections
  <2> QED
    BY <2>1, <2>3, <2>4, <2>5 DEF IInv
<1> QED
  BY <1>1, <1>2, <1>3, <1>4, <1>5, <1>6, <1>7, <1>8, <1>9, <1>10, <1>11, <1>12,
     <1>13, <1>14, <1>15, <1>16, <1>17, <1>18, <1>19, <1>20, <1>21, <1>22, <1>23, <1>24, <1>25, <1>26
     DEF Next, Session, Acceptor, Handler

\* Every reachable state satisfies the invariant.
THEOREM Invariance == Spec => []IInv
<1>1. Init => IInv
  BY InitIInv
<1>2. IInv /\ [Next]_vars => IInv'
  BY StepIInv
<1> QED
  BY <1>1, <1>2, PTL DEF Spec

\* Types are kept by every session, accept thread and handler; the count
\* never falls below zero, whichever session resets it.
THEOREM TypeCorrect == Spec => []TypeOK
<1>1. IInv => TypeOK
  BY DEF IInv
<1> QED
  BY <1>1, Invariance, PTL

\* TunnelCounters.activeConnections never claims a connection that is not
\* open, and misses at most as many of this session's as connections of an
\* older session have closed since its reset.
THEOREM CountTracksAlways == Spec => []CountTracks
<1>1. IInv => CountTracks
  BY DEF IInv
<1> QED
  BY <1>1, Invariance, PTL

\* A handler of LocalSocksServer that has ended has closed its client and
\* the upstream socket it or its dialer had, on every path through handle.
THEOREM SocketsReleasedAlways == Spec => []SocketsReleased
<1>1. IInv => SocketsReleased
  BY DEF IInv
<1> QED
  BY <1>1, Invariance, PTL
=============================================================================
