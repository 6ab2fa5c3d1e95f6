---------------------------- MODULE ForwardProofs ----------------------------
(***************************************************************************)
(* Proofs about Forward for any set of connections.  The invariant has a   *)
(* part for the tunnel (who has reported, and that this means it is        *)
(* cancelled) and a part for each connection: nothing of it is closed or   *)
(* cancelled before one of its ends is gone.  What the promises to end     *)
(* rest on comes last: the steps that are left become fewer, and nobody    *)
(* waits for what doesn't come.                                            *)
(***************************************************************************)
EXTENDS Forward, Naturals, TLAPS

(* Only a cancelled tunnel is reported, once.                              *)
TunnelInv ==
    /\ acceptor \in {"report", "ended"} => cancelled
    /\ errChan => acceptor = "ended"
    /\ main = "listen" => acceptor = "none"

Gone(c) == left[c] \/ dropped[c]

ConnInv == \A c \in Conn :
    /\ cctx[c] => Gone(c)
    /\ down[c] \in {"closeWs", "closeClient", "cancel"} => Gone(c)
    /\ ws[c] = "closed" => Gone(c)
    /\ down[c] # "none" => client[c] = "open" \/ (client[c] = "closed" /\ Gone(c))
    /\ up[c] # "none" => down[c] # "none"

ForwardInv == TypeOK /\ TunnelInv /\ ConnInv

-----------------------------------------------------------------------------
(* The invariant holds initially.                                          *)
LEMMA ForwardInvInit == Init => ForwardInv
  BY DEF Init, ForwardInv, TypeOK, TunnelInv, ConnInv, Gone

(* Every step preserves the types.                                         *)
LEMMA TypeStep == TypeOK /\ [Next]_vars => TypeOK'
<1> SUFFICES ASSUME TypeOK, [Next]_vars PROVE TypeOK'
  OBVIOUS
<1> USE DEF TypeOK, tunnelVars, connVars
<1>1. CASE Cancel
  BY <1>1 DEF Cancel
<1>2. CASE Listen
  BY <1>2 DEF Listen
<1>3. CASE ListenFails
  BY <1>3 DEF ListenFails
<1>4. CASE Serve
  BY <1>4 DEF Serve
<1>5. CASE AcceptorChecks
  BY <1>5 DEF AcceptorChecks
<1>6. CASE AcceptFails
  BY <1>6 DEF AcceptFails
<1>7. CASE AcceptorReports
  BY <1>7 DEF AcceptorReports
<1>8. ASSUME NEW c \in Conn, Accept(c) PROVE TypeOK'
  BY <1>8 DEF Accept
<1>9. ASSUME NEW c \in Conn, ClientConnects(c) PROVE TypeOK'
  BY <1>9 DEF ClientConnects
<1>10. ASSUME NEW c \in Conn, ClientLeaves(c) PROVE TypeOK'
  BY <1>10 DEF ClientLeaves
<1>11. ASSUME NEW c \in Conn, WorkstationDrops(c) PROVE TypeOK'
  BY <1>11 DEF WorkstationDrops
<1>12. ASSUME NEW c \in Conn, DialSucceeds(c) PROVE TypeOK'
  BY <1>12 DEF DialSucceeds
<1>13. ASSUME NEW c \in Conn, DialFails(c) PROVE TypeOK'
  BY <1>13 DEF DialFails
<1>14. ASSUME NEW c \in Conn, DownChecks(c) PROVE TypeOK'
  BY <1>14 DEF DownChecks, DownGoes
<1>15. ASSUME NEW c \in Conn, DownReads(c) PROVE TypeOK'
  BY <1>15 DEF DownReads, DownGoes
<1>16. ASSUME NEW c \in Conn, DownReadFails(c) PROVE TypeOK'
  BY <1>16 DEF DownReadFails, DownGoes
<1>17. ASSUME NEW c \in Conn, DownWrites(c) PROVE TypeOK'
  BY <1>17 DEF DownWrites, DownGoes
<1>18. ASSUME NEW c \in Conn, DownWriteFails(c) PROVE TypeOK'
  BY <1>18 DEF DownWriteFails, DownGoes
<1>19. ASSUME NEW c \in Conn, CloseWs(c) PROVE TypeOK'
  BY <1>19 DEF CloseWs
<1>20. ASSUME NEW c \in Conn, CloseClient(c) PROVE TypeOK'
  BY <1>20 DEF CloseClient
<1>21. ASSUME NEW c \in Conn, DownCancels(c) PROVE TypeOK'
  BY <1>21 DEF DownCancels
<1>22. ASSUME NEW c \in Conn, UpChecks(c) PROVE TypeOK'
  BY <1>22 DEF UpChecks, UpGoes, UpEnds
<1>23. ASSUME NEW c \in Conn, UpReads(c) PROVE TypeOK'
  BY <1>23 DEF UpReads, UpGoes
<1>24. ASSUME NEW c \in Conn, UpReadFails(c) PROVE TypeOK'
  BY <1>24 DEF UpReadFails, UpEnds
<1>25. ASSUME NEW c \in Conn, UpWrites(c) PROVE TypeOK'
  BY <1>25 DEF UpWrites, UpGoes
<1>26. ASSUME NEW c \in Conn, UpWriteFails(c) PROVE TypeOK'
  BY <1>26 DEF UpWriteFails, UpEnds
<1>27. CASE UNCHANGED vars
  BY <1>27 DEF vars
<1> QED
  BY <1>1, <1>2, <1>3, <1>4, <1>5, <1>6, <1>7, <1>8, <1>9, <1>10, <1>11, <1>12, <1>13, <1>14,
     <1>15, <1>16, <1>17, <1>18, <1>19, <1>20, <1>21, <1>22, <1>23, <1>24, <1>25, <1>26, <1>27
     DEF Next, Acceptor, AcceptsOne, Down, Up, Peers

(* Every step preserves the tunnel's part: connections do not touch it.    *)
LEMMA TunnelStep == TypeOK /\ TunnelInv /\ [Next]_vars => TunnelInv'
<1> SUFFICES ASSUME TypeOK, TunnelInv, [Next]_vars PROVE TunnelInv'
  OBVIOUS
<1> USE DEF TypeOK, TunnelInv, tunnelVars, connVars
<1>1. CASE Cancel
  BY <1>1 DEF Cancel
<1>2. CASE Listen
  BY <1>2 DEF Listen
<1>3. CASE ListenFails
  BY <1>3 DEF ListenFails
<1>4. CASE Serve
  BY <1>4 DEF Serve
<1>5. CASE AcceptorChecks
  BY <1>5 DEF AcceptorChecks
<1>6. CASE AcceptFails
  BY <1>6 DEF AcceptFails
<1>7. CASE AcceptorReports
  BY <1>7 DEF AcceptorReports
<1>8. ASSUME NEW c \in Conn, Accept(c) PROVE TunnelInv'
  BY <1>8 DEF Accept
<1>9. ASSUME NEW c \in Conn, (Down(c) \/ Up(c) \/ Peers(c)) PROVE TunnelInv'
  <2>1. UNCHANGED tunnelVars
    BY <1>9 DEF Down, Up, Peers, ClientConnects, ClientLeaves, WorkstationDrops, DialSucceeds,
       DialFails, DownChecks, DownReads, DownReadFails, DownWrites, DownWriteFails, CloseWs,
       CloseClient, DownCancels, UpChecks, UpReads, UpReadFails, UpWrites, UpWriteFails,
       DownGoes, UpGoes, UpEnds
  <2> QED
    BY <2>1
<1>10. CASE UNCHANGED vars
  BY <1>10 DEF vars
<1> QED
  BY <1>1, <1>2, <1>3, <1>4, <1>5, <1>6, <1>7, <1>8, <1>9, <1>10 DEF Next, Acceptor, AcceptsOne

(* Every step preserves the part of each connection.                       *)
LEMMA ConnStep == TypeOK /\ ConnInv /\ [Next]_vars => ConnInv'
<1> SUFFICES ASSUME TypeOK, ConnInv, [Next]_vars PROVE ConnInv'
  OBVIOUS
<1> USE DEF TypeOK, ConnInv, Gone, tunnelVars, connVars
<1>1. CASE Cancel
  BY <1>1 DEF Cancel
<1>2. CASE Listen
  BY <1>2 DEF Listen
<1>3. CASE ListenFails
  BY <1>3 DEF ListenFails
<1>4. CASE Serve
  BY <1>4 DEF Serve
<1>5. CASE AcceptorChecks
  BY <1>5 DEF AcceptorChecks
<1>6. CASE AcceptFails
  BY <1>6 DEF AcceptFails
<1>7. CASE AcceptorReports
  BY <1>7 DEF AcceptorReports
<1>8. ASSUME NEW c \in Conn, Accept(c) PROVE ConnInv'
  BY <1>8 DEF Accept
<1>9. ASSUME NEW c \in Conn, ClientConnects(c) PROVE ConnInv'
  BY <1>9 DEF ClientConnects
<1>10. ASSUME NEW c \in Conn, ClientLeaves(c) PROVE ConnInv'
  BY <1>10 DEF ClientLeaves
<1>11. ASSUME NEW c \in Conn, WorkstationDrops(c) PROVE ConnInv'
  BY <1>11 DEF WorkstationDrops
<1>12. ASSUME NEW c \in Conn, DialSucceeds(c) PROVE ConnInv'
  BY <1>12 DEF DialSucceeds
<1>13. ASSUME NEW c \in Conn, DialFails(c) PROVE ConnInv'
  BY <1>13 DEF DialFails
<1>14. ASSUME NEW c \in Conn, DownChecks(c) PROVE ConnInv'
  BY <1>14 DEF DownChecks, DownGoes
<1>15. ASSUME NEW c \in Conn, DownReads(c) PROVE ConnInv'
  BY <1>15 DEF DownReads, DownGoes
<1>16. ASSUME NEW c \in Conn, DownReadFails(c) PROVE ConnInv'
  BY <1>16 DEF DownReadFails, DownGoes
<1>17. ASSUME NEW c \in Conn, DownWrites(c) PROVE ConnInv'
  BY <1>17 DEF DownWrites, DownGoes
<1>18. ASSUME NEW c \in Conn, DownWriteFails(c) PROVE ConnInv'
  BY <1>18 DEF DownWriteFails, DownGoes
<1>19. ASSUME NEW c \in Conn, CloseWs(c) PROVE ConnInv'
  BY <1>19 DEF CloseWs
<1>20. ASSUME NEW c \in Conn, CloseClient(c) PROVE ConnInv'
  BY <1>20 DEF CloseClient
<1>21. ASSUME NEW c \in Conn, DownCancels(c) PROVE ConnInv'
  BY <1>21 DEF DownCancels
<1>22. ASSUME NEW c \in Conn, UpChecks(c) PROVE ConnInv'
  BY <1>22 DEF UpChecks, UpGoes, UpEnds
<1>23. ASSUME NEW c \in Conn, UpReads(c) PROVE ConnInv'
  BY <1>23 DEF UpReads, UpGoes
<1>24. ASSUME NEW c \in Conn, UpReadFails(c) PROVE ConnInv'
  BY <1>24 DEF UpReadFails, UpEnds
<1>25. ASSUME NEW c \in Conn, UpWrites(c) PROVE ConnInv'
  BY <1>25 DEF UpWrites, UpGoes
<1>26. ASSUME NEW c \in Conn, UpWriteFails(c) PROVE ConnInv'
  BY <1>26 DEF UpWriteFails, UpEnds
<1>27. CASE UNCHANGED vars
  BY <1>27 DEF vars
<1> QED
  BY <1>1, <1>2, <1>3, <1>4, <1>5, <1>6, <1>7, <1>8, <1>9, <1>10, <1>11, <1>12, <1>13, <1>14,
     <1>15, <1>16, <1>17, <1>18, <1>19, <1>20, <1>21, <1>22, <1>23, <1>24, <1>25, <1>26, <1>27
     DEF Next, Acceptor, AcceptsOne, Down, Up, Peers

-----------------------------------------------------------------------------
(* The invariant holds in every behaviour.                                 *)
THEOREM ForwardCorrect == Spec => []ForwardInv
<1>1. Init => ForwardInv
  BY ForwardInvInit
<1>2. ForwardInv /\ [Next]_vars => ForwardInv'
  BY TypeStep, TunnelStep, ConnStep DEF ForwardInv
<1> QED
  BY <1>1, <1>2, PTL DEF Spec

(* Type correctness for any set of connections.                            *)
THEOREM ForwardTypeCorrect == Spec => []TypeOK
<1>1. ForwardInv => TypeOK
  BY DEF ForwardInv
<1> QED
  BY <1>1, ForwardCorrect, PTL

(* The accepting goroutine never waits to report: errChan is large enough. *)
THEOREM ReportsAtOnce == Spec => []ReportNeverBlocks
<1>1. ForwardInv => ReportNeverBlocks
  BY DEF ForwardInv, TunnelInv, ReportNeverBlocks
<1> QED
  BY <1>1, ForwardCorrect, PTL

(* A connection is taken down only when one of its ends is gone.           *)
THEOREM ConnectionsEndForAReason == Spec => []EndsForAReason
<1>1. ForwardInv => EndsForAReason
  BY DEF ForwardInv, ConnInv, Gone, EndsForAReason
<1> QED
  BY <1>1, ForwardCorrect, PTL

(* An open tunnel returns only when it is cancelled.                       *)
THEOREM TunnelReturnsWhenCancelled == Spec => TunnelStaysOpen
<1>1. ForwardInv /\ [Next]_vars => [main = "serve" /\ main' = "returned" => cancelled]_vars
  <2> SUFFICES ASSUME ForwardInv, [Next]_vars, main = "serve", main' = "returned"
               PROVE  cancelled
    OBVIOUS
  <2> USE DEF ForwardInv, TunnelInv, tunnelVars, connVars
  <2>1. CASE Cancel
    BY <2>1 DEF Cancel
  <2>2. CASE Listen
    BY <2>2 DEF Listen
  <2>3. CASE ListenFails
    BY <2>3 DEF ListenFails
  <2>4. CASE Serve
    BY <2>4 DEF Serve
  <2>5. CASE AcceptorChecks
    BY <2>5 DEF AcceptorChecks
  <2>6. CASE AcceptFails
    BY <2>6 DEF AcceptFails
  <2>7. CASE AcceptorReports
    BY <2>7 DEF AcceptorReports
  <2>8. ASSUME NEW c \in Conn, Accept(c) PROVE cancelled
    BY <2>8 DEF Accept
  <2>9. ASSUME NEW c \in Conn, (Down(c) \/ Up(c) \/ Peers(c)) PROVE cancelled
    BY <2>9 DEF Down, Up, Peers, ClientConnects, ClientLeaves, WorkstationDrops, DialSucceeds,
       DialFails, DownChecks, DownReads, DownReadFails, DownWrites, DownWriteFails, CloseWs,
       CloseClient, DownCancels, UpChecks, UpReads, UpReadFails, UpWrites, UpWriteFails,
       DownGoes, UpGoes, UpEnds
  <2>10. CASE UNCHANGED vars
    BY <2>10 DEF vars
  <2> QED
    BY <2>1, <2>2, <2>3, <2>4, <2>5, <2>6, <2>7, <2>8, <2>9, <2>10 DEF Next, Acceptor, AcceptsOne
<1> QED
  BY <1>1, ForwardCorrect, PTL DEF Spec, TunnelStaysOpen

-----------------------------------------------------------------------------
(* The steps of a connection and of the tunnel that leave something alone. *)
LEMMA TunnelLeavesConns ==
    Cancel \/ Listen \/ ListenFails \/ AcceptorChecks \/ AcceptFails \/ AcceptorReports
        => UNCHANGED connVars
BY DEF Cancel, Listen, ListenFails, AcceptorChecks, AcceptFails, AcceptorReports, connVars

LEMMA ConnsLeaveTunnel == \A c \in Conn : Down(c) \/ Up(c) \/ Peers(c) => UNCHANGED tunnelVars
BY DEF Down, Up, Peers, ClientConnects, ClientLeaves, WorkstationDrops, DialSucceeds,
   DialFails, DownChecks, DownReads, DownReadFails, DownWrites, DownWriteFails, CloseWs,
   CloseClient, DownCancels, UpChecks, UpReads, UpReadFails, UpWrites, UpWriteFails,
   DownGoes, UpGoes, UpEnds, tunnelVars

-----------------------------------------------------------------------------
(* Why DropEndsConnection holds.  A connection that had a websocket, which *)
(* only those have that can be dropped, ends in an order.                  *)
Dialled(c) == ws[c] # "none"

DialledInv == \A c \in Conn :
    /\ dropped[c] => Dialled(c)
    /\ Dialled(c) => down[c] \notin {"none", "dial"}
    /\ Dialled(c) /\ down[c] \in {"closeClient", "cancel", "ended"} => ws[c] = "closed"
    /\ Dialled(c) /\ down[c] \in {"cancel", "ended"} => client[c] = "closed"
    /\ Dialled(c) /\ down[c] = "ended" => cctx[c]

LEMMA DialledInit == Init => DialledInv
BY DEF Init, DialledInv, Dialled

LEMMA DialledStep == TypeOK /\ ConnInv /\ DialledInv /\ [Next]_vars => DialledInv'
<1> SUFFICES ASSUME TypeOK, ConnInv, DialledInv, [Next]_vars PROVE DialledInv'
  OBVIOUS
<1> USE DEF TypeOK, DialledInv, Dialled, tunnelVars, connVars
<1>1. CASE Serve
  BY <1>1 DEF Serve
<1>2. ASSUME NEW c \in Conn, Accept(c) PROVE DialledInv'
  BY <1>2 DEF Accept, ConnInv
<1>3. ASSUME NEW c \in Conn, ClientConnects(c) PROVE DialledInv'
  BY <1>3 DEF ClientConnects
<1>4. ASSUME NEW c \in Conn, ClientLeaves(c) PROVE DialledInv'
  BY <1>4 DEF ClientLeaves
<1>5. ASSUME NEW c \in Conn, WorkstationDrops(c) PROVE DialledInv'
  BY <1>5 DEF WorkstationDrops
<1>6. ASSUME NEW c \in Conn, DialSucceeds(c) PROVE DialledInv'
  BY <1>6 DEF DialSucceeds
<1>7. ASSUME NEW c \in Conn, DialFails(c) PROVE DialledInv'
  BY <1>7 DEF DialFails
<1>8. ASSUME NEW c \in Conn,
             DownChecks(c) \/ DownReads(c) \/ DownReadFails(c) \/ DownWrites(c) \/ DownWriteFails(c)
      PROVE  DialledInv'
  BY <1>8 DEF DownChecks, DownReads, DownReadFails, DownWrites, DownWriteFails, DownGoes
<1>9. ASSUME NEW c \in Conn, CloseWs(c) PROVE DialledInv'
  BY <1>9 DEF CloseWs
<1>10. ASSUME NEW c \in Conn, CloseClient(c) PROVE DialledInv'
  BY <1>10 DEF CloseClient
<1>11. ASSUME NEW c \in Conn, DownCancels(c) PROVE DialledInv'
  BY <1>11 DEF DownCancels
<1>12. ASSUME NEW c \in Conn, Up(c) \/ UpReads(c) PROVE DialledInv'
  BY <1>12 DEF Up, UpChecks, UpReads, UpReadFails, UpWrites, UpWriteFails, UpGoes, UpEnds
<1>13. CASE UNCHANGED connVars
  BY <1>13
<1> QED
  BY <1>1, <1>2, <1>3, <1>4, <1>5, <1>6, <1>7, <1>8, <1>9, <1>10, <1>11, <1>12, <1>13,
     TunnelLeavesConns DEF Next, Acceptor, AcceptsOne, Down, Peers, vars

(* How many steps handleConnection, and the goroutine it started, are at   *)
(* most from their ends when nothing comes from the workstation any more.  *)
DownSteps(c) ==
    CASE down[c] = "write" -> 6
      [] down[c] = "check" -> 5
      [] down[c] = "read" -> 4
      [] down[c] = "closeWs" -> 3
      [] down[c] = "closeClient" -> 2
      [] down[c] = "cancel" -> 1
      [] OTHER -> 0

UpSteps(c) ==
    CASE up[c] = "check" -> 2
      [] up[c] \in {"read", "write"} -> 1
      [] OTHER -> 0

(* Each step they take brings them nearer, and nobody else's takes them    *)
(* back; handleConnection needs nobody for it, and the other one only what *)
(* handleConnection has closed.                                            *)
Winding(c) ==
    /\ DownSteps(c)' <= DownSteps(c)
    /\ Down(c) => DownSteps(c)' < DownSteps(c)
    /\ down[c] = "ended" => /\ UpSteps(c)' <= UpSteps(c)
                            /\ Up(c) => UpSteps(c)' < UpSteps(c)

LEMMA WindingStep ==
    ASSUME TypeOK, ConnInv, DialledInv, [Next]_vars, NEW c \in Conn, dropped[c]
    PROVE  Winding(c)
<1> USE DEF TypeOK, DialledInv, Dialled, tunnelVars, connVars, DownSteps, UpSteps, Winding
<1>1. ASSUME NEW d \in Conn, Down(d) \/ Up(d) \/ Peers(d), d # c
      PROVE  down'[c] = down[c] /\ up'[c] = up[c]
  BY <1>1 DEF Down, Up, Peers, ClientConnects, ClientLeaves, WorkstationDrops, DialSucceeds,
     DialFails, DownChecks, DownReads, DownReadFails, DownWrites, DownWriteFails, CloseWs,
     CloseClient, DownCancels, UpChecks, UpReads, UpReadFails, UpWrites, UpWriteFails,
     DownGoes, UpGoes, UpEnds
<1>2. Down(c) => DownSteps(c)' < DownSteps(c) /\ up' = up
  BY DEF Down, DialSucceeds, DialFails, DownChecks, DownReadFails, DownWrites, CloseWs,
     CloseClient, DownCancels, DownGoes
<1>3. Up(c) => down' = down /\ (down[c] = "ended" => UpSteps(c)' < UpSteps(c))
  BY DEF Up, UpChecks, UpReadFails, UpWrites, UpWriteFails, UpGoes, UpEnds
<1>4. Peers(c) => /\ DownSteps(c)' <= DownSteps(c)
                  /\ down[c] = "ended" => up' = up
  BY DEF Peers, ClientConnects, ClientLeaves, WorkstationDrops, DownReads, DownWriteFails,
     UpReads, DownGoes, UpGoes
<1>5. DownSteps(c) \in Nat /\ UpSteps(c) \in Nat
  OBVIOUS
<1>6. Serve \/ AcceptsOne => down'[c] = down[c] /\ up'[c] = up[c]
  BY DEF Serve, AcceptsOne, Accept, ConnInv
<1>7. UNCHANGED connVars => down'[c] = down[c] /\ up'[c] = up[c]
  OBVIOUS
<1> QED
  BY <1>1, <1>2, <1>3, <1>4, <1>5, <1>6, <1>7, TunnelLeavesConns DEF Next, Acceptor, vars

(* A connection the workstation drops is worked off: its goroutines only   *)
(* get nearer to their ends, and when handleConnection has ended all the   *)
(* other one may wait for is closed.  So it leaks nothing as long as the   *)
(* goroutines run at all (tunnel.go 264, 276).                             *)
THEOREM DropsAreWorkedOff ==
    Spec => /\ [](\A c \in Conn : dropped[c] /\ down[c] = "ended"
                      => client[c] = "closed" /\ ws[c] = "closed" /\ cctx[c])
            /\ [][\A c \in Conn : dropped[c] => Winding(c)]_vars
<1>1. Spec => []DialledInv
  <2>1. ForwardInv => TypeOK /\ ConnInv
    BY DEF ForwardInv
  <2> QED
    BY <2>1, ForwardCorrect, DialledInit, DialledStep, PTL DEF Spec
<1>2. DialledInv => \A c \in Conn : dropped[c] /\ down[c] = "ended"
                        => client[c] = "closed" /\ ws[c] = "closed" /\ cctx[c]
  BY DEF DialledInv
<1>3. ForwardInv /\ DialledInv /\ [Next]_vars => [\A c \in Conn : dropped[c] => Winding(c)]_vars
  BY WindingStep DEF ForwardInv
<1> QED
  BY <1>1, <1>2, <1>3, ForwardCorrect, PTL DEF Spec

-----------------------------------------------------------------------------
(* Why TunnelEnds holds.  A listener is open exactly while the tunnel      *)
(* serves, and only an open one keeps clients waiting.                     *)
ListenerInv ==
    /\ main = "serve" <=> listener = "open"
    /\ acceptor # "none" => listener # "none"
    /\ main = "listen" => listener = "none"
    /\ \A c \in Conn : client[c] = "waiting" => listener = "open"

LEMMA ListenerStep == TypeOK /\ TunnelInv /\ ListenerInv /\ [Next]_vars => ListenerInv'
<1> SUFFICES ASSUME TypeOK, TunnelInv, ListenerInv, [Next]_vars PROVE ListenerInv'
  OBVIOUS
<1> USE DEF TypeOK, ListenerInv, tunnelVars, connVars
<1>1. CASE Cancel \/ Listen \/ ListenFails
  BY <1>1 DEF Cancel, Listen, ListenFails, TunnelInv
<1>2. CASE Serve
  BY <1>2 DEF Serve
<1>3. CASE AcceptorChecks \/ AcceptFails \/ AcceptorReports
  BY <1>3 DEF AcceptorChecks, AcceptFails, AcceptorReports
<1>4. ASSUME NEW c \in Conn, Accept(c) PROVE ListenerInv'
  BY <1>4 DEF Accept
<1>5. ASSUME NEW c \in Conn, Down(c) \/ Up(c) \/ Peers(c) PROVE ListenerInv'
  <2>1. UNCHANGED tunnelVars
    BY <1>5, ConnsLeaveTunnel
  <2>2. \A d \in Conn : client'[d] = "waiting" => listener = "open"
    BY <1>5 DEF Down, Up, Peers, ClientConnects, ClientLeaves, WorkstationDrops, DialSucceeds,
       DialFails, DownChecks, DownReads, DownReadFails, DownWrites, DownWriteFails, CloseWs,
       CloseClient, DownCancels, UpChecks, UpReads, UpReadFails, UpWrites, UpWriteFails,
       DownGoes, UpGoes, UpEnds
  <2> QED
    BY <2>1, <2>2
<1>6. CASE UNCHANGED vars
  BY <1>6 DEF vars
<1> QED
  BY <1>1, <1>2, <1>3, <1>4, <1>5, <1>6 DEF Next, Acceptor, AcceptsOne

(* How many steps the tunnel and its accepting goroutine are from their    *)
(* ends when the tunnel is cancelled.                                      *)
MainSteps == CASE main = "listen" -> 5 [] main = "serve" -> 1 [] main = "returned" -> 0

AcceptorSteps ==
    CASE acceptor = "accept" -> 3
      [] acceptor = "check" -> 2
      [] acceptor = "report" -> 1
      [] acceptor \in {"none", "ended"} -> 0

TunnelSteps == MainSteps + AcceptorSteps

LEMMA TunnelWinding ==
    ASSUME TypeOK, TunnelInv, [Next]_vars, cancelled
    PROVE  /\ TunnelSteps' <= TunnelSteps
           /\ Listen \/ ListenFails \/ Serve \/ Acceptor \/ AcceptFails => TunnelSteps' < TunnelSteps
<1> USE DEF TypeOK, TunnelInv, tunnelVars
<1>1. MainSteps \in 0 .. 5 /\ AcceptorSteps \in 0 .. 3
  BY DEF MainSteps, AcceptorSteps
<1>2. Listen => MainSteps' = 1 /\ MainSteps = 5 /\ AcceptorSteps' = 2 /\ AcceptorSteps = 0
  BY DEF Listen, MainSteps, AcceptorSteps
<1>3. ListenFails => MainSteps' = 0 /\ MainSteps = 5 /\ AcceptorSteps' = AcceptorSteps
  BY DEF ListenFails, MainSteps, AcceptorSteps
<1>4. Serve => MainSteps' = 0 /\ MainSteps = 1 /\ AcceptorSteps' = AcceptorSteps
  BY DEF Serve, MainSteps, AcceptorSteps
<1>5. AcceptorChecks => MainSteps' = MainSteps /\ AcceptorSteps = 2 /\ AcceptorSteps' = 1
  BY DEF AcceptorChecks, MainSteps, AcceptorSteps
<1>6. AcceptsOne \/ AcceptFails => MainSteps' = MainSteps /\ AcceptorSteps = 3 /\ AcceptorSteps' = 2
  BY DEF AcceptsOne, Accept, AcceptFails, MainSteps, AcceptorSteps
<1>7. AcceptorReports => MainSteps' = MainSteps /\ AcceptorSteps = 1 /\ AcceptorSteps' = 0
  BY DEF AcceptorReports, MainSteps, AcceptorSteps
<1>8. UNCHANGED tunnelVars => MainSteps' = MainSteps /\ AcceptorSteps' = AcceptorSteps
  BY DEF MainSteps, AcceptorSteps
<1>9. Listen \/ ListenFails \/ Serve \/ Acceptor \/ AcceptFails \/ UNCHANGED tunnelVars
  BY ConnsLeaveTunnel DEF Next, Cancel, vars
<1> HIDE DEF TypeOK, TunnelInv, tunnelVars
<1>10. ASSUME Listen \/ ListenFails \/ Serve \/ Acceptor \/ AcceptFails
       PROVE  TunnelSteps' < TunnelSteps /\ TunnelSteps' <= TunnelSteps
  BY <1>1, <1>2, <1>3, <1>4, <1>5, <1>6, <1>7, <1>10 DEF Acceptor, TunnelSteps
<1>11. ASSUME UNCHANGED tunnelVars PROVE TunnelSteps' <= TunnelSteps
  BY <1>1, <1>8, <1>11 DEF TunnelSteps
<1> QED
  BY <1>9, <1>10, <1>11, Zenon

(* A cancelled tunnel is worked off: neither a failing Accept nor a new    *)
(* connection keeps its accepting goroutine from the end it comes to, and  *)
(* once the tunnel has returned no client waits and Accept cannot block    *)
(* (tunnel.go 65, 81-93, 113).                                             *)
THEOREM CancelsAreWorkedOff ==
    Spec => /\ [](main = "returned" => /\ listener # "open"
                                       /\ \A c \in Conn : client[c] # "waiting")
            /\ [][cancelled =>
                    /\ TunnelSteps' <= TunnelSteps
                    /\ Listen \/ ListenFails \/ Serve \/ Acceptor \/ AcceptFails
                           => TunnelSteps' < TunnelSteps]_vars
<1>1. Init => ListenerInv
  BY DEF Init, ListenerInv
<1>2. ForwardInv => TypeOK /\ TunnelInv
  BY DEF ForwardInv
<1>3. ListenerInv => (main = "returned" => listener # "open" /\ \A c \in Conn : client[c] # "waiting")
  BY DEF ListenerInv
<1>4. ForwardInv /\ [Next]_vars =>
          [cancelled => /\ TunnelSteps' <= TunnelSteps
                        /\ Listen \/ ListenFails \/ Serve \/ Acceptor \/ AcceptFails
                               => TunnelSteps' < TunnelSteps]_vars
  BY TunnelWinding DEF ForwardInv
<1> QED
  BY <1>1, <1>2, <1>3, <1>4, ListenerStep, ForwardCorrect, PTL DEF Spec
=============================================================================
