------------------------- MODULE MoonLedger_proofs -------------------------
(***************************************************************************)
(* Proofs about MoonLedger, for every set of kingdoms, save files, ring    *)
(* capacity and bound.                                                     *)
(***************************************************************************)
EXTENDS MoonLedger, SequenceTheorems, TLAPS

\* Lines that are appended, taken off or cut stay lines.
LEMMA SeqFacts ==
  ASSUME NEW S, NEW s \in Seq(S), NEW t \in Seq(S)
  PROVE  /\ s # <<>> => Tail(s) \in Seq(S) /\ Head(s) \in S
         /\ \A n \in 0..Len(t) : s \o SubSeq(t, 1, n) \in Seq(S)
         /\ \A n \in 0..Len(t) : SubSeq(t, 1, n) \in Seq(S)
<1>1. s # <<>> => Tail(s) \in Seq(S) /\ Head(s) \in S
  OBVIOUS
<1>2. ASSUME NEW n \in 0..Len(t)
      PROVE  SubSeq(t, 1, n) \in Seq(S)
  OBVIOUS
<1>3. ASSUME NEW n \in 0..Len(t)
      PROVE  s \o SubSeq(t, 1, n) \in Seq(S)
  BY <1>2
<1> QED
  BY <1>1, <1>2, <1>3

\* The lines of the protocol are well formed, and carry readings.
LEMMA MsgTypes ==
  /\ Hello \in UpMsg /\ HelloAck \in DownMsg
  /\ \A p \in Reading : PaySnapshot(p) \in UpMsg /\ Outstanding(p) \in DownMsg
  /\ \A m \in UpMsg : m.t = "pay_snapshot" => m.v \in Reading
  /\ \A m \in DownMsg : m.t # "hello_ack" => m.v \in Reading
BY DEF Hello, HelloAck, PaySnapshot, Outstanding, UpMsg, DownMsg

\* compute_outstanding yields a natural number for every kingdom.
LEMMA OutstandingType ==
  ASSUME NEW r \in Reading, NEW p \in Reading
  PROVE  compute_outstanding(r, p) \in Reading
BY DEF Reading, compute_outstanding

\* The all-zero reading is a reading.
LEMMA ZeroType == Zero \in Reading
BY DEF Zero, Reading

\* Empty queues are queues of any kind of line.
LEMMA EmptyTypes ==
  <<>> \in Seq(UpMsg) /\ <<>> \in Seq(DownMsg) /\ <<>> \in Seq(Reading)
OBVIOUS

\* Appending an element of the right kind.
LEMMA AppendType ==
  ASSUME NEW S, NEW s \in Seq(S), NEW e \in S
  PROVE  Append(s, e) \in Seq(S)
OBVIOUS

\* _push_outstanding_to_switch puts only well-formed lines on the wire.
LEMMA PushType ==
  ASSUME down \in Seq(DownMsg), NEW r \in Reading,
         NEW p \in Reading \cup {NoReading}, push_outstanding(r, p)
  PROVE  down' \in Seq(DownMsg)
<1>1. CASE p # NoReading /\ reg = "live"
  <2>1. Outstanding(compute_outstanding(r, p)) \in DownMsg
    BY <1>1, OutstandingType, MsgTypes
  <2> QED
    BY <1>1, <2>1 DEF push_outstanding
<1>2. CASE ~(p # NoReading /\ reg = "live")
  BY <1>2 DEF push_outstanding
<1> QED
  BY <1>1, <1>2

\* What is left of a connection that ends.
LEMMA EndsType ==
  ASSUME TypeOK, ConnectionEnds
  PROVE  /\ link' \in BOOLEAN /\ up' \in Seq(UpMsg) /\ down' \in Seq(DownMsg)
         /\ old' \in Seq(UpMsg) /\ reg' \in {"none", "stale", "live"}
<1>1. PICK n \in 0..Len(up) : old' = old \o SubSeq(up, 1, n)
  BY DEF ConnectionEnds
<1>2. old' \in Seq(UpMsg)
  BY <1>1, SeqFacts DEF TypeOK
<1>3. reg' \in {"none", "stale", "live"}
  BY DEF TypeOK, ConnectionEnds
<1> QED
  BY <1>2, <1>3, EmptyTypes DEF ConnectionEnds

\* The initial state is well typed.
THEOREM InitTypeOK == Init => TypeOK
<1> SUFFICES ASSUME Init PROVE TypeOK
  OBVIOUS
<1>1. festival \in BOOLEAN
  BY LedgerAssumption, Zenon DEF Init
<1>2. ring \in Seq(Reading) /\ Len(ring) <= RingCap
  BY LedgerAssumption DEF Init
<1>3. up \in Seq(UpMsg) /\ down \in Seq(DownMsg) /\ old \in Seq(UpMsg)
  BY DEF Init
<1>4. disk \in [Saves -> Reading]
  BY ZeroType DEF Init
<1> QED
  BY <1>1, <1>2, <1>3, <1>4, ZeroType DEF Init, TypeOK

\* A deposit keeps the types, a full ring included.
LEMMA QueueType ==
  ASSUME TypeOK, NEW k \in Kingdoms, NEW n \in Nat, queuePaySnapshot(k, n)
  PROVE  TypeOK'
<1> USE DEF TypeOK, brVars, wire, workerVars, gameVars, boundVars
<1>1. pay' \in Reading
  BY DEF queuePaySnapshot, Reading
<1>2. ring' \in Seq(Reading) /\ Len(ring') <= RingCap
  <2>1. RingCap \in Nat /\ ring \in Seq(Reading) /\ Len(ring) <= RingCap
    BY LedgerAssumption
  <2>2. IF Len(ring) < RingCap THEN ring' = Append(ring, pay') ELSE ring' = ring
    BY DEF queuePaySnapshot
  <2> HIDE DEF TypeOK
  <2> QED
    BY <1>1, <2>1, <2>2
<1>3. dirty' \in BOOLEAN
  BY Zenon DEF queuePaySnapshot
<1>4. deposits' \in Nat
  BY DEF queuePaySnapshot, CountDeposit
<1> QED
  BY <1>1, <1>2, <1>3, <1>4 DEF queuePaySnapshot

\* Every step preserves the types.
THEOREM NextTypeOK == TypeOK /\ [Next]_vars => TypeOK'
<1> SUFFICES ASSUME TypeOK, [Next]_vars PROVE TypeOK'
  OBVIOUS
<1> USE DEF TypeOK, brVars, wire, workerVars, gameVars, boundVars
<1>1. CASE ProcessReceivedItems
  BY <1>1, PushType DEF ProcessReceivedItems
<1>2. CASE HandleHello
  <2>1. up' \in Seq(UpMsg)
    BY <1>2, SeqFacts DEF HandleHello
  <2>2. old' \in Seq(UpMsg)
    BY <1>2, SeqFacts DEF HandleHello
  <2>3. down' \in Seq(DownMsg)
    BY <1>2, MsgTypes, OutstandingType DEF HandleHello
  <2> QED
    BY <1>2, <2>1, <2>2, <2>3 DEF HandleHello
<1>3. CASE HandlePaySnapshot
  <2>1. Head(up).v \in Reading
    BY <1>3, MsgTypes DEF HandlePaySnapshot
  <2>2. down' \in Seq(DownMsg)
    BY <1>3, <2>1, PushType DEF HandlePaySnapshot
  <2>3. up' \in Seq(UpMsg)
    BY <1>3, SeqFacts DEF HandlePaySnapshot
  <2> QED
    BY <1>3, <2>1, <2>2, <2>3 DEF HandlePaySnapshot
<1>4. CASE LateHello
  <2>1. Tail(old) \in Seq(UpMsg)
    BY <1>4, SeqFacts DEF LateHello
  <2>2. CASE reg = "live"
    <3>1. PICK n \in 0..Len(up) : old' = Tail(old) \o SubSeq(up, 1, n)
      BY <1>4, <2>2 DEF LateHello
    <3>2. old' \in Seq(UpMsg)
      BY <2>1, <3>1, SeqFacts
    <3>3. link' \in BOOLEAN /\ up' \in Seq(UpMsg) /\ down' \in Seq(DownMsg)
      <4>1. link' = FALSE /\ up' = <<>> /\ down' = <<>>
        BY <1>4, <2>2 DEF LateHello
      <4> QED
        BY <4>1, EmptyTypes
    <3>4. UNCHANGED <<festival, granted, lifetime, brPay, workerVars, balance,
                      bridgeConnected, ring, gameVars, dirty, boundVars>>
      BY <1>4 DEF LateHello
    <3>5. reg' = "stale"
      BY <1>4 DEF LateHello
    <3> QED
      BY <3>2, <3>3, <3>4, <3>5
  <2>3. CASE ~(reg = "live")
    <3>1. UNCHANGED <<festival, granted, lifetime, brPay, workerVars, balance,
                      bridgeConnected, ring, gameVars, dirty, boundVars>>
      BY <1>4 DEF LateHello
    <3>2. reg' = "stale" /\ old' = Tail(old) /\ UNCHANGED <<link, up, down>>
      BY <1>4, <2>3 DEF LateHello
    <3> QED
      BY <2>1, <3>1, <3>2
  <2> QED
    BY <2>2, <2>3
<1>5. CASE LatePaySnapshot
  <2>1. Head(old).v \in Reading
    BY <1>5, MsgTypes DEF LatePaySnapshot
  <2>2. down' \in Seq(DownMsg) /\ brPay' \in Reading \cup {NoReading}
    BY <1>5, <2>1, PushType DEF LatePaySnapshot
  <2>3. old' \in Seq(UpMsg)
    BY <1>5, SeqFacts DEF LatePaySnapshot
  <2>4. dirty' \in BOOLEAN
    BY <1>5, Zenon DEF LatePaySnapshot
  <2> QED
    BY <1>5, <2>2, <2>3, <2>4 DEF LatePaySnapshot
<1>6. CASE BridgeSeesEof
  BY <1>6 DEF BridgeSeesEof
<1>7. CASE BridgeRestart
  <2>1. /\ link' \in BOOLEAN /\ up' \in Seq(UpMsg) /\ down' \in Seq(DownMsg)
        /\ old' \in Seq(UpMsg)
    <3>1. link' = FALSE /\ up' = <<>> /\ down' = <<>> /\ old' = <<>>
      BY <1>7 DEF BridgeRestart
    <3> QED
      BY <3>1, EmptyTypes
  <2>4. faults' \in Nat
    BY <1>7 DEF BridgeRestart, CountFault
  <2>2. lifetime' = Zero /\ brPay' = NoReading /\ reg' = "none"
    BY <1>7 DEF BridgeRestart
  <2>3. UNCHANGED <<festival, granted, workerVars, bridgeConnected, balance,
                    ring, gameVars, dirty, deposits>>
    BY <1>7 DEF BridgeRestart
  <2> QED
    BY <2>1, <2>2, <2>3, <2>4, ZeroType
<1>8. CASE LoseLink
  BY <1>8, EndsType DEF LoseLink, CountFault
<1>9. CASE TakeRehello
  BY <1>9, EndsType DEF TakeRehello
<1>10. CASE NoRehello
  BY <1>10 DEF NoRehello
<1>11. CASE Connect
  <2>1. up' \in Seq(UpMsg)
    BY <1>11, MsgTypes DEF Connect
  <2>2. snapshotPending' \in BOOLEAN /\ dirty' \in BOOLEAN
    BY <1>11, Zenon DEF Connect
  <2> QED
    BY <1>11, <2>1, <2>2 DEF Connect
<1>12. CASE ConnectFails
  BY <1>12 DEF ConnectFails
<1>13. CASE HandleLine
  <2>1. Head(down) \in DownMsg /\ down' \in Seq(DownMsg)
    BY <1>13, SeqFacts DEF HandleLine
  <2>2. balance' \in Reading /\ bridgeConnected' \in BOOLEAN
    BY <1>13, <2>1, MsgTypes DEF HandleLine
  <2> QED
    BY <1>13, <2>1, <2>2 DEF HandleLine
<1>14. CASE Disconnect
  BY <1>14 DEF Disconnect
<1>15. CASE LateSnapshot
  <2>1. up' \in Seq(UpMsg)
    <3>1. PaySnapshot(pay) \in UpMsg
      BY MsgTypes
    <3>2. up' = up \/ up' = Append(up, PaySnapshot(pay))
      BY <1>15 DEF LateSnapshot, Send
    <3>3. up \in Seq(UpMsg)
      OBVIOUS
    <3> HIDE DEF TypeOK
    <3> QED
      BY <3>1, <3>2, <3>3, AppendType
  <2>2. snapshotPending' \in BOOLEAN /\ dirty' \in BOOLEAN
    BY <1>15, Zenon DEF LateSnapshot
  <2> QED
    BY <1>15, <2>1, <2>2 DEF LateSnapshot
<1>16. CASE PumpPaySnapshot
  <2>1. Head(ring) \in Reading /\ ring' \in Seq(Reading) /\ Len(ring') <= RingCap
    BY <1>16, LedgerAssumption DEF PumpPaySnapshot
  <2>2. up' \in Seq(UpMsg)
    BY <1>16, <2>1, MsgTypes DEF PumpPaySnapshot, Send
  <2> QED
    BY <1>16, <2>1, <2>2 DEF PumpPaySnapshot
<1>17. CASE PumpDone
  BY <1>17 DEF PumpDone
<1>18. ASSUME NEW k \in Kingdoms, AddPayShine(k) PROVE TypeOK'
  <2>1. PICK n \in Nat : queuePaySnapshot(k, n)
    BY <1>18, LedgerAssumption DEF AddPayShine, Reading
  <2> QED
    BY <2>1, QueueType
<1>19. ASSUME NEW k \in Kingdoms, AddPayShineCurrentAll(k) PROVE TypeOK'
  <2>1. PICK n \in Nat : queuePaySnapshot(k, n)
    BY <1>19, LedgerAssumption DEF AddPayShineCurrentAll, Reading
  <2> QED
    BY <2>1, QueueType
<1>20. CASE AutoSave
  BY <1>20 DEF AutoSave
<1>21. ASSUME NEW s \in Saves, InitializeData(s) PROVE TypeOK'
  <2>1. faults' \in Nat
    BY <1>21 DEF InitializeData, CountFault
  <2>2. dirty' \in BOOLEAN
    BY <1>21, Zenon DEF InitializeData
  <2> QED
    BY <1>21, <2>1, <2>2, ZeroType DEF InitializeData
<1>22. CASE SaveLoadTail
  BY <1>22 DEF SaveLoadTail
<1>23. CASE SceneRuns
  BY <1>23 DEF SceneRuns
<1>24. CASE CappyDispatches
  BY <1>24 DEF CappyDispatches
<1>25. CASE CrashAndReboot
  <2>1. faults' \in Nat
    BY <1>25 DEF CrashAndReboot, CountFault
  <2>2. ring' \in Seq(Reading) /\ Len(ring') <= RingCap
    BY <1>25, LedgerAssumption DEF CrashAndReboot
  <2> QED
    BY <1>25, <2>1, <2>2, EndsType, ZeroType DEF CrashAndReboot
<1>26. ASSUME NEW k \in Kingdoms, NEW w \in Weights, ApGrantsMoon(k, w)
       PROVE  TypeOK'
  <2>1. granted' = [granted EXCEPT ![k] = @ + w] /\ granted \in Reading
    BY <1>26, Zenon DEF ApGrantsMoon, TypeOK
  <2>2. w \in Nat
    BY LedgerAssumption
  <2>3. granted' \in Reading
    BY ONLY <2>1, <2>2, k \in Kingdoms DEF Reading
  <2> QED
    BY <1>26, <2>3 DEF ApGrantsMoon
<1>27. CASE UNCHANGED vars
  BY <1>27 DEF vars
<1> QED
  BY <1>1, <1>2, <1>3, <1>4, <1>5, <1>6, <1>7, <1>8, <1>9, <1>10, <1>11, <1>12,
    <1>13, <1>14, <1>15, <1>16, <1>17, <1>18, <1>19, <1>20, <1>21, <1>22,
    <1>23, <1>24, <1>25, <1>26, <1>27
  DEF Next, Bridge, Worker

\* Taking the first line off, and adding one at the end.
LEMMA TailFacts ==
  ASSUME NEW S, NEW s \in Seq(S), s # <<>>
  PROVE  /\ Len(s) >= 1 /\ Head(s) = s[1]
         /\ Len(Tail(s)) = Len(s) - 1
         /\ \A i \in 1..(Len(s) - 1) : Tail(s)[i] = s[i + 1]
         /\ Tail(s) # <<>> => Len(s) >= 2 /\ Tail(s)[Len(Tail(s))] = s[Len(s)]
         /\ Tail(s) = <<>> => Len(s) = 1
<1>1. Len(s) \in Nat /\ Len(s) >= 1 /\ Head(s) = s[1]
  OBVIOUS
<1>2. Len(Tail(s)) = Len(s) - 1
  OBVIOUS
<1>3. \A i \in 1..(Len(s) - 1) : Tail(s)[i] = s[i + 1]
  OBVIOUS
<1>4. ASSUME Tail(s) = <<>> PROVE Len(s) = 1
  <2>1. Len(Tail(s)) = 0
    BY <1>4, Len(<<>>) = 0, Zenon
  <2>2. Len(s) - 1 = 0
    BY <1>2, <2>1, Zenon
  <2> DEFINE n == Len(s)
  <2>3. n \in Nat /\ n - 1 = 0
    BY <1>1, <2>2
  <2> HIDE DEF n
  <2>4. n = 1
    BY <2>3
  <2> QED
    BY <2>4 DEF n
<1>5. Tail(s) # <<>> => Len(s) >= 2
  OBVIOUS
<1>6. Len(s) >= 2 => Tail(s)[Len(Tail(s))] = s[Len(s)]
  <2>1. Len(s) >= 2 => Len(s) - 1 \in 1..(Len(s) - 1) /\ (Len(s) - 1) + 1 = Len(s)
    BY <1>1
  <2> QED
    BY <1>2, <1>3, <2>1
<1> QED
  BY <1>1, <1>2, <1>3, <1>4, <1>5, <1>6

\* Appending puts the element last and moves nothing.
LEMMA AppendFacts ==
  ASSUME NEW S, NEW s \in Seq(S), NEW e \in S
  PROVE  /\ Append(s, e) # <<>>
         /\ Len(Append(s, e)) = Len(s) + 1
         /\ Append(s, e)[Len(s) + 1] = e
         /\ \A i \in 1..Len(s) : Append(s, e)[i] = s[i]
OBVIOUS

\* A reading written by the worker goes to the end of the line.
LEMMA SendUp ==
  ASSUME TypeOK, NEW p \in Reading, Send(PaySnapshot(p))
  PROVE  /\ ~link => up' = up
         /\ link => /\ up' # <<>> /\ Len(up') = Len(up) + 1
                    /\ up'[Len(up')] = PaySnapshot(p)
                    /\ \A i \in 1..Len(up) : up'[i] = up[i]
<1>1. up \in Seq(UpMsg) /\ PaySnapshot(p) \in UpMsg
  BY MsgTypes DEF TypeOK
<1>2. Len(up) \in Nat
  BY <1>1
<1> QED
  BY <1>1, <1>2, AppendFacts DEF Send

\* A reading written by the worker keeps the connection's discipline.
LEMMA SendWire ==
  ASSUME TypeOK, WireInv, NEW p \in Reading, Send(PaySnapshot(p)),
         UNCHANGED <<link, reg, swUp, down>>, wpc' \in {wpc, "pump"}
  PROVE  WireInv'
<1>1. up \in Seq(UpMsg) /\ Len(up) \in Nat
  BY DEF TypeOK
<1>2. CASE ~link
  BY <1>2, SendUp DEF WireInv
<1>3. CASE link
  <2>1. \A i \in 2..Len(up') : up'[i].t = "pay_snapshot"
    BY <1>1, <1>3, SendUp DEF WireInv, PaySnapshot
  <2>2. reg = "live" => up'[1].t = "pay_snapshot"
    BY <1>1, <1>3, SendUp DEF WireInv, PaySnapshot
  <2>3. reg # "live" => up'[1] = Hello /\ Len(up') >= 2
    BY <1>1, <1>3, SendUp DEF WireInv
  <2>4. up' # <<>>
    BY <1>3, SendUp
  <2> QED
    BY <1>3, <2>1, <2>2, <2>3, <2>4 DEF WireInv
<1> QED
  BY <1>2, <1>3

\* The connection's discipline is kept by every step.
LEMMA WireStep ==
  TypeOK /\ WireInv /\ [Next]_vars => WireInv'
<1> SUFFICES ASSUME TypeOK, WireInv, [Next]_vars PROVE WireInv'
  OBVIOUS
<1>1. CASE HandleHello
  <2>1. /\ up \in Seq(UpMsg) /\ up # <<>> /\ up' = Tail(up) /\ reg' = "live"
        /\ UNCHANGED <<link, swUp, snapshotPending>>
    BY <1>1 DEF HandleHello, TypeOK, workerVars
  <2>2. link
    BY <2>1 DEF WireInv
  <2>3. \A i \in 1..Len(up') : up'[i].t = "pay_snapshot"
    BY <2>1, TailFacts DEF WireInv
  <2>4. Len(up') \in Nat /\ (up' # <<>> => Len(up') >= 1)
    BY <2>1, TailFacts
  <2>5. wpc' = wpc
    BY <1>1 DEF HandleHello, workerVars
  <2> QED
    BY <2>1, <2>2, <2>3, <2>4, <2>5 DEF WireInv
<1>2. CASE HandlePaySnapshot
  <2>1. /\ up \in Seq(UpMsg) /\ up # <<>> /\ up' = Tail(up)
        /\ Head(up).t = "pay_snapshot"
        /\ UNCHANGED <<link, reg, swUp, snapshotPending>>
    BY <1>2 DEF HandlePaySnapshot, TypeOK, workerVars
  <2>2. link /\ reg = "live"
    BY <2>1, TailFacts DEF WireInv, Hello
  <2>3. \A i \in 1..Len(up') : up'[i].t = "pay_snapshot"
    BY <2>1, TailFacts DEF WireInv
  <2>4. Len(up') \in Nat /\ (up' # <<>> => Len(up') >= 1)
    BY <2>1, TailFacts
  <2>5. wpc' = wpc
    BY <1>2 DEF HandlePaySnapshot, workerVars
  <2> QED
    BY <2>1, <2>2, <2>3, <2>4, <2>5 DEF WireInv
<1>3. CASE ProcessReceivedItems
  <2>1. reg # "live" => down' = down
    BY <1>3 DEF ProcessReceivedItems, push_outstanding
  <2> QED
    BY <1>3, <2>1 DEF ProcessReceivedItems, workerVars, WireInv
<1>4. CASE LateHello
  BY <1>4 DEF LateHello, workerVars, WireInv
<1>5. CASE LatePaySnapshot
  <2>1. reg # "live" => down' = down
    BY <1>5 DEF LatePaySnapshot, push_outstanding
  <2> QED
    BY <1>5, <2>1 DEF LatePaySnapshot, workerVars, WireInv
<1>6. CASE BridgeSeesEof
  BY <1>6 DEF BridgeSeesEof, wire, workerVars, WireInv
<1>7. CASE BridgeRestart
  BY <1>7 DEF BridgeRestart, workerVars, WireInv
<1>8. CASE LoseLink
  BY <1>8 DEF LoseLink, workerVars, ConnectionEnds, WireInv
<1>9. CASE TakeRehello
  BY <1>9 DEF TakeRehello, ConnectionEnds, WireInv
<1>10. CASE CrashAndReboot
  BY <1>10 DEF CrashAndReboot, ConnectionEnds, WireInv
<1>11. CASE Connect
  <2>1. reg # "live" /\ down = <<>>
    BY <1>11 DEF Connect, WireInv
  <2>2. /\ link' /\ swUp' /\ reg' = reg /\ down' = down /\ wpc' = "recv"
        /\ \/ up' = <<Hello, PaySnapshot(pay)>>
           \/ up' = <<Hello>> /\ snapshotPending'
    BY <1>11 DEF Connect, brVars
  <2> QED
    BY <2>1, <2>2 DEF WireInv, PaySnapshot
<1>12. CASE HandleLine
  BY <1>12 DEF HandleLine, brVars, workerVars, WireInv
<1>13. CASE Disconnect
  BY <1>13 DEF Disconnect, brVars, wire, WireInv
<1>14. CASE LateSnapshot
  <2>1. /\ UNCHANGED <<link, reg, swUp, down>> /\ wpc' = "pump"
        /\ \/ UNCHANGED <<up, snapshotPending>>
           \/ Send(PaySnapshot(pay))
    BY <1>14 DEF LateSnapshot, brVars
  <2> QED
    BY <2>1, SendWire DEF WireInv, TypeOK
<1>15. CASE PumpPaySnapshot
  <2>1. Head(ring) \in Reading /\ Send(PaySnapshot(Head(ring)))
    BY <1>15, SeqFacts DEF PumpPaySnapshot, TypeOK
  <2>2. UNCHANGED <<link, reg, swUp, down, wpc, snapshotPending>>
    BY <1>15 DEF PumpPaySnapshot, brVars, workerVars
  <2> QED
    BY <2>1, <2>2, SendWire DEF WireInv
<1>16. CASE NoRehello
  BY <1>16 DEF NoRehello, brVars, wire, WireInv
<1>17. CASE ConnectFails
  BY <1>17 DEF ConnectFails, brVars, wire, WireInv
<1>18. CASE PumpDone
  BY <1>18 DEF PumpDone, brVars, wire, WireInv
<1>19. CASE UNCHANGED <<link, swUp, up, down, reg, snapshotPending, wpc>>
  BY <1>19 DEF WireInv
<1> QED
  BY <1>1, <1>2, <1>3, <1>4, <1>5, <1>6, <1>7, <1>8, <1>9, <1>10, <1>11, <1>12,
    <1>13, <1>14, <1>15, <1>16, <1>17, <1>18, <1>19
  DEF Next, Bridge, Worker, vars, brVars, wire, workerVars, gameVars, boundVars,
      ApGrantsMoon, AddPayShine, AddPayShineCurrentAll, AutoSave,
        InitializeData, SaveLoadTail, SceneRuns, CappyDispatches,
        queuePaySnapshot

\* The gate stays shut while a save loads.
LEMMA GateStep ==
  TypeOK /\ WireInv /\ GateInv /\ [Next]_vars => GateInv'
<1> SUFFICES ASSUME TypeOK, WireInv, GateInv, [Next]_vars PROVE GateInv'
  OBVIOUS
<1>1. CASE LateHello
  BY <1>1 DEF LateHello, workerVars, gameVars, GateInv
<1>2. CASE BridgeRestart
  BY <1>2 DEF BridgeRestart, workerVars, gameVars, GateInv
<1>3. CASE LoseLink
  BY <1>3 DEF LoseLink, ConnectionEnds, workerVars, gameVars, GateInv
<1>4. CASE TakeRehello
  BY <1>4 DEF TakeRehello, ConnectionEnds, gameVars, GateInv
<1>5. CASE Connect
  BY <1>5 DEF Connect, SnapshotGate, gameVars, GateInv, TypeOK
<1>6. CASE LateSnapshot
  BY <1>6 DEF LateSnapshot, SnapshotGate, gameVars, GateInv
<1>7. ASSUME NEW s \in Saves, InitializeData(s) PROVE GateInv'
  BY <1>7 DEF InitializeData, GateInv
<1>8. CASE SaveLoadTail
  BY <1>8 DEF SaveLoadTail, GateInv
<1>9. CASE SceneRuns
  BY <1>9 DEF SceneRuns, GateInv
<1>10. CASE CappyDispatches
  BY <1>10 DEF CappyDispatches, GateInv
<1>11. CASE CrashAndReboot
  BY <1>11 DEF CrashAndReboot, ConnectionEnds, GateInv
<1>12. CASE UNCHANGED <<phase, saveWasLoaded, cappyOk, link, rehello,
                         snapshotPending>>
  BY <1>12 DEF GateInv
<1> QED
  BY <1>1, <1>2, <1>3, <1>4, <1>5, <1>6, <1>7, <1>8, <1>9, <1>10, <1>11, <1>12
  DEF Next, Bridge, Worker, vars, brVars, wire, workerVars, gameVars, boundVars,
      ApGrantsMoon, ProcessReceivedItems, HandleHello, HandlePaySnapshot,
        LatePaySnapshot, BridgeSeesEof, NoRehello, ConnectFails, HandleLine,
        Disconnect, PumpPaySnapshot, PumpDone, AddPayShine,
        AddPayShineCurrentAll, AutoSave, queuePaySnapshot

\* The readings that travel, and what a step may do to them.
LEMMA RingFacts ==
  ASSUME TypeOK, ring # <<>>
  PROVE  /\ Head(ring) = ring[1] /\ Len(ring) >= 1 /\ Len(ring) \in Nat
         /\ Tail(ring) = <<>> => Len(ring) = 1
         /\ Tail(ring) # <<>> => Tail(ring)[Len(Tail(ring))] = ring[Len(ring)]
<1>1. ring \in Seq(Reading)
  BY DEF TypeOK
<1> QED
  BY <1>1, TailFacts

\* A deposit queues the reading it has just produced, or marks it dropped.
LEMMA QueueFresh ==
  ASSUME TypeOK, TypeOK', FreshInv, NEW k, NEW n, queuePaySnapshot(k, n)
  PROVE  FreshInv'
<1>1. pay' \in Reading /\ ring \in Seq(Reading) /\ Len(ring) \in Nat
  BY DEF TypeOK
<1>2. CASE Len(ring) < RingCap
  <2>1. ring' = Append(ring, pay') /\ phase' = "playing"
    BY <1>2 DEF queuePaySnapshot
  <2>2. ring' # <<>> /\ ring'[Len(ring')] = pay'
    BY <1>1, <2>1, AppendFacts
  <2> QED
    BY <2>1, <2>2 DEF FreshInv
<1>3. CASE ~(Len(ring) < RingCap)
  BY <1>3 DEF queuePaySnapshot, FreshInv
<1> QED
  BY <1>2, <1>3

\* Reading a line from the Switch.
LEMMA UpFacts ==
  ASSUME TypeOK, up # <<>>
  PROVE  /\ Head(up) = up[1] /\ Len(up) \in Nat /\ Len(up) >= 1
         /\ Tail(up) = <<>> => Len(up) = 1
         /\ Tail(up) # <<>> => Tail(up)[Len(Tail(up))] = up[Len(up)]
<1>1. up \in Seq(UpMsg)
  BY DEF TypeOK
<1> QED
  BY <1>1, TailFacts

\* The newest reading under way stays the game's own.
LEMMA FreshStep ==
  TypeOK /\ WireInv /\ GateInv /\ FreshInv /\ [Next]_vars => FreshInv'
<1> SUFFICES ASSUME TypeOK, WireInv, GateInv, FreshInv, [Next]_vars
             PROVE  FreshInv'
  OBVIOUS
<1>1. CASE HandleHello
  <2>1. /\ up # <<>> /\ Head(up) = Hello /\ up' = Tail(up)
        /\ UNCHANGED <<ring, dirty, phase, pay, link, snapshotPending, rehello,
                       brPay>>
    BY <1>1 DEF HandleHello, workerVars, gameVars
  <2>2. Hello # PaySnapshot(pay)
    BY DEF Hello, PaySnapshot
  <2> QED
    BY <2>1, <2>2, UpFacts DEF FreshInv
<1>2. CASE HandlePaySnapshot
  <2>1. /\ up # <<>> /\ up' = Tail(up) /\ brPay' = Head(up).v
        /\ UNCHANGED <<ring, dirty, phase, pay, link, snapshotPending, rehello>>
    BY <1>2 DEF HandlePaySnapshot, workerVars, gameVars
  <2> QED
    BY <2>1, UpFacts DEF FreshInv, PaySnapshot
<1>3. CASE LateHello
  BY <1>3 DEF LateHello, workerVars, gameVars, FreshInv
<1>4. CASE LatePaySnapshot
  <2>1. CASE reg = "live"
    BY <1>4, <2>1 DEF LatePaySnapshot, FreshInv
  <2>2. CASE reg # "live"
    BY <1>4, <2>2 DEF LatePaySnapshot, workerVars, gameVars, WireInv, FreshInv
  <2> QED
    BY <2>1, <2>2
<1>5. CASE BridgeRestart
  BY <1>5 DEF BridgeRestart, gameVars, FreshInv
<1>6. CASE LoseLink
  BY <1>6 DEF LoseLink, ConnectionEnds, gameVars, FreshInv
<1>7. CASE TakeRehello
  BY <1>7 DEF TakeRehello, ConnectionEnds, gameVars, FreshInv
<1>8. CASE Connect
  <2>1. UNCHANGED <<ring, phase, pay, rehello, brPay>>
    BY <1>8 DEF Connect, brVars, gameVars
  <2>2. ring # <<>> /\ ~dirty' => ~dirty
    BY <1>8 DEF Connect, Healed
  <2>3. ~snapshotPending' => up' = <<Hello, PaySnapshot(pay)>>
    BY <1>8 DEF Connect
  <2>4. up' # <<>>
    BY <1>8 DEF Connect
  <2> QED
    BY <2>1, <2>2, <2>3, <2>4 DEF FreshInv
<1>9. CASE LateSnapshot
  <2>1. /\ UNCHANGED <<ring, phase, pay, link, rehello, brPay>>
        /\ ring # <<>> /\ ~dirty' => ~dirty
    BY <1>9 DEF LateSnapshot, Healed, brVars, gameVars
  <2>2. CASE snapshotPending /\ SnapshotGate
    <3>1. Send(PaySnapshot(pay)) /\ pay \in Reading
      BY <1>9, <2>2 DEF LateSnapshot, TypeOK
    <3> QED
      BY <2>1, <3>1, SendUp DEF FreshInv
  <2>3. CASE ~(snapshotPending /\ SnapshotGate)
    BY <1>9, <2>1, <2>3 DEF LateSnapshot, FreshInv
  <2> QED
    BY <2>2, <2>3
<1>10. CASE PumpPaySnapshot
  <2>1. /\ ring # <<>> /\ ring' = Tail(ring)
        /\ UNCHANGED <<dirty, phase, pay, link, snapshotPending, rehello, brPay>>
    BY <1>10 DEF PumpPaySnapshot, brVars, workerVars, gameVars
  <2>2. Head(ring) \in Reading /\ Send(PaySnapshot(Head(ring)))
    BY <1>10, SeqFacts DEF PumpPaySnapshot, TypeOK
  <2>3. ring' = <<>> /\ ~dirty => Head(ring) = pay
    BY <2>1, RingFacts DEF FreshInv
  <2>4. ring' # <<>> /\ ~dirty => phase = "playing" /\ ring'[Len(ring')] = pay
    BY <2>1, RingFacts DEF FreshInv
  <2>5. ring' = <<>> /\ ~dirty /\ link
          => up' # <<>> /\ up'[Len(up')] = PaySnapshot(pay)
    BY <2>2, <2>3, SendUp
  <2> QED
    BY <2>1, <2>4, <2>5 DEF FreshInv
<1>11. ASSUME NEW k \in Kingdoms, AddPayShine(k) PROVE FreshInv'
  <2>1. PICK n : queuePaySnapshot(k, n)
    BY <1>11 DEF AddPayShine
  <2> QED
    BY <2>1, NextTypeOK, QueueFresh
<1>12. ASSUME NEW k \in Kingdoms, AddPayShineCurrentAll(k) PROVE FreshInv'
  <2>1. PICK n : queuePaySnapshot(k, n)
    BY <1>12 DEF AddPayShineCurrentAll
  <2> QED
    BY <2>1, NextTypeOK, QueueFresh
<1>13. ASSUME NEW s \in Saves, InitializeData(s) PROVE FreshInv'
  BY <1>13 DEF InitializeData, FreshInv
<1>14. CASE SaveLoadTail
  BY <1>14 DEF SaveLoadTail, FreshInv
<1>15. CASE SceneRuns
  BY <1>15 DEF SceneRuns, wire, workerVars, GateInv, FreshInv
<1>16. CASE CrashAndReboot
  BY <1>16 DEF CrashAndReboot, FreshInv
<1>17. CASE UNCHANGED <<ring, dirty, phase, pay, link, snapshotPending,
                         rehello, up, brPay>>
  BY <1>17 DEF FreshInv
<1> QED
  BY <1>1, <1>2, <1>3, <1>4, <1>5, <1>6, <1>7, <1>8, <1>9, <1>10, <1>11, <1>12,
    <1>13, <1>14, <1>15, <1>16, <1>17
  DEF Next, Bridge, Worker, vars, brVars, wire, workerVars, gameVars, boundVars,
      ApGrantsMoon, ProcessReceivedItems, BridgeSeesEof, NoRehello,
        ConnectFails, HandleLine, Disconnect, PumpDone, AutoSave,
        CappyDispatches

\* The balance due after a step follows from the inputs after it.
LEMMA DueNext ==
  ASSUME festival' = festival
  PROVE  Due' = compute_outstanding(lifetime', brPay')
BY DEF Due, compute_outstanding, Clamped

\* A push puts the balance at the end of the line to a live Switch.
LEMMA PushLast ==
  ASSUME TypeOK, NEW r \in Reading, NEW p \in Reading, reg = "live",
         push_outstanding(r, p)
  PROVE  /\ down' # <<>>
         /\ down'[Len(down')] = Outstanding(compute_outstanding(r, p))
<1>1. p # NoReading
  BY LedgerAssumption DEF Reading
<1>2. down' = Append(down, Outstanding(compute_outstanding(r, p)))
  BY <1>1 DEF push_outstanding
<1>3. down \in Seq(DownMsg) /\ Outstanding(compute_outstanding(r, p)) \in DownMsg
  BY OutstandingType, MsgTypes DEF TypeOK
<1> QED
  BY <1>2, <1>3, AppendFacts

\* Reading a line from the bridge.
LEMMA DownFacts ==
  ASSUME TypeOK, down # <<>>
  PROVE  /\ Head(down) = down[1] /\ Len(down) \in Nat /\ Len(down) >= 1
         /\ Tail(down) = <<>> => Len(down) = 1
         /\ Tail(down) # <<>> => Tail(down)[Len(Tail(down))] = down[Len(down)]
         /\ Len(Tail(down)) = Len(down) - 1
         /\ \A i \in 1..(Len(down) - 1) : Tail(down)[i] = down[i + 1]
<1>1. down \in Seq(DownMsg)
  BY DEF TypeOK
<1> QED
  BY <1>1, TailFacts

\* The newest balance under way stays the one that is due.
LEMMA BalanceStep ==
  TypeOK /\ WireInv /\ BalanceInv /\ [Next]_vars => BalanceInv'
<1> SUFFICES ASSUME TypeOK, WireInv, BalanceInv, [Next]_vars PROVE BalanceInv'
  OBVIOUS
<1>1. CASE ProcessReceivedItems
  <2>1. /\ UNCHANGED <<reg, snapshotPending, up, brPay, festival>>
        /\ lifetime' = granted
    BY <1>1 DEF ProcessReceivedItems, workerVars
  <2>2. push_outstanding(granted, brPay) /\ granted \in Reading
    BY <1>1 DEF ProcessReceivedItems, TypeOK
  <2>3. Due' = compute_outstanding(granted, brPay)
    BY <2>1, DueNext
  <2> SUFFICES ASSUME reg = "live", ~snapshotPending, up = <<>>
               PROVE  /\ brPay # NoReading /\ down' # <<>>
                      /\ down'[Len(down')] = Outstanding(Due')
    BY <2>1 DEF BalanceInv, Outstanding
  <2>4. brPay \in Reading
    BY DEF BalanceInv, TypeOK
  <2>5. brPay # NoReading
    BY DEF BalanceInv
  <2> QED
    BY <2>2, <2>3, <2>4, <2>5, PushLast
<1>2. CASE HandleHello
  <2>1. /\ up # <<>> /\ Head(up) = Hello /\ up' = Tail(up)
        /\ snapshotPending' = snapshotPending
    BY <1>2 DEF HandleHello, workerVars
  <2>2. up[1] = Hello /\ link
    BY <2>1, UpFacts DEF WireInv
  <2>3. reg # "live"
    BY <2>1, <2>2 DEF WireInv, Hello
  <2>4. ~snapshotPending => up' # <<>>
    BY <2>1, <2>2, <2>3, UpFacts DEF WireInv
  <2> QED
    BY <2>1, <2>4 DEF BalanceInv
<1>3. CASE HandlePaySnapshot
  <2>1. up # <<>> /\ Head(up).t = "pay_snapshot" /\ Head(up).v \in Reading
    BY <1>3, SeqFacts, MsgTypes DEF HandlePaySnapshot, TypeOK
  <2>2. reg = "live"
    BY <2>1, UpFacts DEF WireInv, Hello
  <2>3. /\ UNCHANGED <<festival, lifetime>> /\ brPay' = Head(up).v
        /\ push_outstanding(lifetime, Head(up).v) /\ lifetime \in Reading
    BY <1>3 DEF HandlePaySnapshot, TypeOK
  <2>4. Due' = compute_outstanding(lifetime, Head(up).v)
    BY <2>3, DueNext
  <2>5. down' # <<>> /\ down'[Len(down')] = Outstanding(Due')
    BY <2>1, <2>2, <2>3, <2>4, PushLast
  <2>6. brPay' # NoReading
    BY <2>1, <2>3, LedgerAssumption DEF Reading
  <2> QED
    BY <2>5, <2>6 DEF BalanceInv, Outstanding
<1>4. CASE LateHello
  BY <1>4 DEF LateHello, BalanceInv
<1>5. CASE LatePaySnapshot
  <2> SUFFICES ASSUME reg = "live" PROVE BalanceInv'
    BY <1>5 DEF LatePaySnapshot, BalanceInv
  <2>1. Head(old).v \in Reading
    BY <1>5, SeqFacts, MsgTypes DEF LatePaySnapshot, TypeOK
  <2>2. /\ UNCHANGED <<festival, lifetime>> /\ brPay' = Head(old).v
        /\ push_outstanding(lifetime, Head(old).v) /\ lifetime \in Reading
    BY <1>5 DEF LatePaySnapshot, TypeOK
  <2>3. Due' = compute_outstanding(lifetime, Head(old).v)
    BY <2>2, DueNext
  <2>4. down' # <<>> /\ down'[Len(down')] = Outstanding(Due')
    BY <2>1, <2>2, <2>3, PushLast
  <2>5. brPay' # NoReading
    BY <2>1, <2>2, LedgerAssumption DEF Reading
  <2> QED
    BY <2>4, <2>5 DEF BalanceInv, Outstanding
<1>6. CASE BridgeSeesEof
  BY <1>6 DEF BridgeSeesEof, BalanceInv
<1>7. CASE BridgeRestart
  BY <1>7 DEF BridgeRestart, BalanceInv
<1>8. CASE LoseLink
  BY <1>8 DEF LoseLink, ConnectionEnds, BalanceInv
<1>9. CASE TakeRehello
  BY <1>9 DEF TakeRehello, ConnectionEnds, BalanceInv
<1>10. CASE Connect
  BY <1>10 DEF Connect, BalanceInv
<1>11. CASE HandleLine
  <2>1. down # <<>> /\ down' = Tail(down)
        /\ UNCHANGED <<reg, snapshotPending, up, brPay, lifetime, festival>>
    BY <1>11 DEF HandleLine, brVars, workerVars
  <2>2. Due' = Due
    BY <2>1 DEF Due, compute_outstanding, Clamped
  <2>3. Tail(down) = <<>> /\ down[Len(down)] = Outstanding(Due) => balance' = Due
    BY <1>11, <2>1, DownFacts DEF HandleLine, Outstanding
  <2> QED
    BY <2>1, <2>2, <2>3, DownFacts DEF BalanceInv
<1>12. CASE LateSnapshot
  <2>1. UNCHANGED <<reg, brPay, down, balance, lifetime, festival, link>>
    BY <1>12 DEF LateSnapshot, brVars
  <2>2. Due' = Due
    BY <2>1 DEF Due, compute_outstanding, Clamped
  <2>3. \/ UNCHANGED <<up, snapshotPending>>
        \/ Send(PaySnapshot(pay))
    BY <1>12 DEF LateSnapshot
  <2>4. CASE UNCHANGED <<up, snapshotPending>>
    BY <2>1, <2>2, <2>4 DEF BalanceInv
  <2>5. CASE Send(PaySnapshot(pay))
    BY <2>1, <2>5, SendUp DEF BalanceInv, WireInv, TypeOK
  <2> QED
    BY <2>3, <2>4, <2>5
<1>13. CASE PumpPaySnapshot
  <2>1. /\ Head(ring) \in Reading /\ Send(PaySnapshot(Head(ring)))
        /\ UNCHANGED <<reg, link>>
    BY <1>13, SeqFacts DEF PumpPaySnapshot, TypeOK, brVars
  <2> QED
    BY <2>1, SendUp DEF BalanceInv, WireInv
<1>14. CASE CrashAndReboot
  BY <1>14 DEF CrashAndReboot, ConnectionEnds, BalanceInv
<1>15. CASE UNCHANGED <<reg, snapshotPending, up, brPay, down, balance,
                         lifetime, festival>>
  BY <1>15 DEF BalanceInv, Due, compute_outstanding, Clamped
<1> QED
  BY <1>1, <1>2, <1>3, <1>4, <1>5, <1>6, <1>7, <1>8, <1>9, <1>10, <1>11, <1>12,
    <1>13, <1>14, <1>15
  DEF Next, Bridge, Worker, vars, brVars, wire, workerVars, gameVars, boundVars,
      ApGrantsMoon, NoRehello, ConnectFails, Disconnect, PumpDone, AddPayShine,
        AddPayShineCurrentAll, AutoSave, InitializeData, SaveLoadTail,
        SceneRuns, CappyDispatches, queuePaySnapshot

\* What is due never exceeds what was granted.
LEMMA OutstandingWithin ==
  ASSUME TypeOK, NEW r \in Reading, NEW p \in Reading,
         \A k \in Kingdoms : r[k] <= granted[k]
  PROVE  WithinLimit(Outstanding(compute_outstanding(r, p)))
<1> SUFFICES ASSUME NEW k \in Kingdoms
             PROVE  compute_outstanding(r, p)[k] <= Limit(k)
  BY DEF WithinLimit, Outstanding
<1>1. r[k] \in Nat /\ p[k] \in Nat /\ granted[k] \in Nat /\ r[k] <= granted[k]
  BY DEF TypeOK, Reading
<1> QED
  BY <1>1 DEF compute_outstanding, Limit

\* Adding a line that is within the limit.
LEMMA AppendWithin ==
  ASSUME NEW s \in Seq(DownMsg), NEW m \in DownMsg, WithinLimit(m),
         \A i \in 1..Len(s) : WithinLimit(s[i])
  PROVE  /\ Append(s, m) \in Seq(DownMsg)
         /\ \A i \in 1..Len(Append(s, m)) : WithinLimit(Append(s, m)[i])
<1>1. Len(s) \in Nat
  OBVIOUS
<1> QED
  BY <1>1, AppendFacts, AppendType

\* A push keeps every line within what was granted.
LEMMA PushWithin ==
  ASSUME TypeOK, CreditInv, NEW r \in Reading, NEW p \in Reading \cup {NoReading},
         \A k \in Kingdoms : r[k] <= granted[k], push_outstanding(r, p)
  PROVE  \A i \in 1..Len(down') : WithinLimit(down'[i])
<1>1. down \in Seq(DownMsg) /\ \A i \in 1..Len(down) : WithinLimit(down[i])
  BY DEF TypeOK, CreditInv
<1>2. CASE p # NoReading /\ reg = "live"
  <2>1. p \in Reading /\ Outstanding(compute_outstanding(r, p)) \in DownMsg
    BY <1>2, OutstandingType, MsgTypes
  <2>2. down' = Append(down, Outstanding(compute_outstanding(r, p)))
    BY <1>2 DEF push_outstanding
  <2> QED
    BY <1>1, <2>1, <2>2, OutstandingWithin, AppendWithin
<1>3. CASE ~(p # NoReading /\ reg = "live")
  BY <1>1, <1>3 DEF push_outstanding
<1> QED
  BY <1>2, <1>3

\* It is enough to look at the lines and the balance after the step.
LEMMA CreditAfter ==
  ASSUME UNCHANGED <<granted, festival>>,
         \A k \in Kingdoms : lifetime'[k] <= granted[k],
         \A i \in 1..Len(down') : WithinLimit(down'[i]),
         \A k \in Kingdoms : balance'[k] <= Limit(k)
  PROVE  CreditInv'
BY DEF CreditInv, CreditNeverInvented, WithinLimit, Limit, Clamped

\* No step shows or sends more than was granted.
LEMMA CreditStep ==
  TypeOK /\ CreditInv /\ [Next]_vars => CreditInv'
<1> SUFFICES ASSUME TypeOK, CreditInv, [Next]_vars PROVE CreditInv'
  OBVIOUS
<1>1. ASSUME NEW k \in Kingdoms, NEW w \in Weights, ApGrantsMoon(k, w)
      PROVE  CreditInv'
  <2>1. /\ UNCHANGED <<festival, lifetime, down, balance>>
        /\ granted' = [granted EXCEPT ![k] = granted[k] + w] /\ w \in Nat
    BY <1>1, LedgerAssumption DEF ApGrantsMoon, wire
  <2>2. \A j \in Kingdoms : /\ lifetime[j] \in Nat /\ granted[j] \in Nat
                            /\ balance[j] \in Nat /\ granted'[j] \in Nat
                            /\ granted[j] <= granted'[j]
    BY <2>1 DEF TypeOK, Reading
  <2>3. \A j \in Kingdoms : /\ Limit(j) \in Nat /\ Limit(j)' \in Nat
                            /\ Limit(j) <= Limit(j)'
    BY <2>1, <2>2 DEF Limit, Clamped
  <2>4. \A j \in Kingdoms : /\ lifetime'[j] <= granted'[j]
                            /\ balance'[j] <= Limit(j)'
    BY <2>1, <2>2, <2>3 DEF CreditInv, CreditNeverInvented
  <2>5. ASSUME NEW i \in 1..Len(down) PROVE WithinLimit(down[i])'
    <3>1. down[i] \in DownMsg /\ WithinLimit(down[i])
      BY ElementOfSeq DEF TypeOK, CreditInv
    <3>2. down[i].t = "outstanding" => \A j \in Kingdoms : down[i].v[j] \in Nat
      BY <3>1, MsgTypes DEF Reading
    <3> QED
      BY <2>1, <2>3, <3>1, <3>2 DEF WithinLimit
  <2> QED
    BY <2>1, <2>4, <2>5 DEF CreditInv, CreditNeverInvented
<1>2. CASE ProcessReceivedItems
  <2>1. /\ UNCHANGED <<granted, festival, balance>> /\ lifetime' = granted
        /\ push_outstanding(granted, brPay)
    BY <1>2 DEF ProcessReceivedItems
  <2>2. \A k \in Kingdoms : granted[k] <= granted[k]
    BY DEF TypeOK, Reading
  <2>3. \A i \in 1..Len(down') : WithinLimit(down'[i])
    BY <2>1, <2>2, PushWithin DEF TypeOK
  <2> QED
    BY <2>1, <2>2, <2>3, CreditAfter DEF CreditInv, CreditNeverInvented
<1>3. CASE HandleHello
  <2>1. UNCHANGED <<granted, festival, balance, lifetime>>
    BY <1>3 DEF HandleHello
  <2>2. down \in Seq(DownMsg) /\ \A i \in 1..Len(down) : WithinLimit(down[i])
    BY DEF TypeOK, CreditInv
  <2>3. HelloAck \in DownMsg /\ WithinLimit(HelloAck)
    BY MsgTypes DEF HelloAck, WithinLimit
  <2> DEFINE acked == Append(down, HelloAck)
  <2>4. acked \in Seq(DownMsg) /\ \A i \in 1..Len(acked) : WithinLimit(acked[i])
    BY <2>2, <2>3, AppendWithin
  <2>5. CASE reg = "none" /\ brPay # NoReading
    <3>1. down' = Append(acked, Outstanding(compute_outstanding(lifetime, brPay)))
      BY <1>3, <2>5 DEF HandleHello
    <3>2. /\ Outstanding(compute_outstanding(lifetime, brPay)) \in DownMsg
          /\ WithinLimit(Outstanding(compute_outstanding(lifetime, brPay)))
      BY <2>5, OutstandingType, MsgTypes, OutstandingWithin DEF TypeOK,
        CreditInv
    <3> HIDE DEF acked
    <3>3. \A i \in 1..Len(down') : WithinLimit(down'[i])
      BY <2>4, <3>1, <3>2, AppendWithin
    <3> QED
      BY <2>1, <3>3, CreditAfter DEF CreditInv, CreditNeverInvented
  <2>6. CASE ~(reg = "none" /\ brPay # NoReading)
    <3>1. down' = acked
      BY <1>3, <2>6 DEF HandleHello
    <3> QED
      BY <2>1, <2>4, <3>1, CreditAfter DEF CreditInv, CreditNeverInvented
  <2> QED
    BY <2>5, <2>6
<1>4. CASE HandlePaySnapshot
  <2>1. Head(up).v \in Reading
    BY <1>4, SeqFacts, MsgTypes DEF HandlePaySnapshot, TypeOK
  <2>2. /\ UNCHANGED <<granted, festival, balance, lifetime>>
        /\ push_outstanding(lifetime, Head(up).v)
    BY <1>4 DEF HandlePaySnapshot
  <2>3. \A i \in 1..Len(down') : WithinLimit(down'[i])
    BY <2>1, <2>2, PushWithin DEF TypeOK, CreditInv
  <2> QED
    BY <2>2, <2>3, CreditAfter DEF CreditInv, CreditNeverInvented
<1>5. CASE LateHello
  <2>1. UNCHANGED <<granted, festival, lifetime, balance>>
    BY <1>5 DEF LateHello
  <2>2. down' = <<>> \/ down' = down
    BY <1>5 DEF LateHello
  <2> QED
    BY <2>1, <2>2, CreditAfter DEF CreditInv, CreditNeverInvented
<1>6. CASE LatePaySnapshot
  <2>1. Head(old).v \in Reading
    BY <1>6, SeqFacts, MsgTypes DEF LatePaySnapshot, TypeOK
  <2>2. /\ UNCHANGED <<granted, festival, balance, lifetime>>
        /\ down' = down \/ push_outstanding(lifetime, Head(old).v)
    BY <1>6 DEF LatePaySnapshot
  <2>3. \A i \in 1..Len(down') : WithinLimit(down'[i])
    BY <2>1, <2>2, PushWithin DEF TypeOK, CreditInv
  <2> QED
    BY <2>2, <2>3, CreditAfter DEF CreditInv, CreditNeverInvented
<1>7. CASE BridgeRestart
  <2>1. /\ UNCHANGED <<granted, festival, balance>>
        /\ down' = <<>> /\ lifetime' = Zero
    BY <1>7 DEF BridgeRestart
  <2>2. \A k \in Kingdoms : Zero[k] <= granted[k]
    BY DEF Zero, TypeOK, Reading
  <2> QED
    BY <2>1, <2>2, CreditAfter DEF CreditInv, CreditNeverInvented
<1>8. CASE LoseLink
  <2>1. UNCHANGED <<granted, festival, lifetime, balance>> /\ down' = <<>>
    BY <1>8 DEF LoseLink, ConnectionEnds
  <2> QED
    BY <2>1, CreditAfter DEF CreditInv, CreditNeverInvented
<1>9. CASE TakeRehello
  <2>1. UNCHANGED <<granted, festival, lifetime, balance>> /\ down' = <<>>
    BY <1>9 DEF TakeRehello, ConnectionEnds
  <2> QED
    BY <2>1, CreditAfter DEF CreditInv, CreditNeverInvented
<1>10. CASE HandleLine
  <2>1. /\ down # <<>> /\ down' = Tail(down)
        /\ UNCHANGED <<granted, festival, lifetime>>
    BY <1>10 DEF HandleLine, brVars
  <2>2. \A i \in 1..Len(down') : WithinLimit(down'[i])
    BY <2>1, DownFacts DEF CreditInv
  <2>3. Head(down) \in DownMsg /\ WithinLimit(Head(down))
    BY <2>1, SeqFacts, DownFacts DEF CreditInv, TypeOK
  <2>4. \/ balance' = balance
        \/ Head(down).t = "outstanding" /\ balance' = Head(down).v
    BY <1>10, <2>3 DEF HandleLine, DownMsg, HelloAck
  <2>5. \A k \in Kingdoms : balance'[k] <= Limit(k)
    BY <2>3, <2>4 DEF WithinLimit, CreditInv, CreditNeverInvented
  <2> QED
    BY <2>1, <2>2, <2>5, CreditAfter DEF CreditInv
<1>11. CASE CrashAndReboot
  <2>1. /\ UNCHANGED <<granted, festival, lifetime>>
        /\ down' = <<>> /\ balance' = Zero
    BY <1>11 DEF CrashAndReboot, ConnectionEnds
  <2>2. \A k \in Kingdoms : Zero[k] <= Limit(k)
    BY DEF Zero, TypeOK, Reading, Limit
  <2> QED
    BY <2>1, <2>2, CreditAfter DEF CreditInv
<1>12. CASE UNCHANGED <<lifetime, granted, down, balance, festival>>
  BY <1>12 DEF CreditInv, CreditNeverInvented, WithinLimit, Limit, Clamped
<1> QED
  BY <1>1, <1>2, <1>3, <1>4, <1>5, <1>6, <1>7, <1>8, <1>9, <1>10, <1>11, <1>12
  DEF Next, Bridge, Worker, vars, brVars, wire, workerVars, gameVars, boundVars,
      BridgeSeesEof, NoRehello, Connect, ConnectFails, Disconnect,
        LateSnapshot, PumpPaySnapshot, PumpDone, AddPayShine,
        AddPayShineCurrentAll, AutoSave, InitializeData, SaveLoadTail,
        SceneRuns, CappyDispatches, queuePaySnapshot

\* The initial state satisfies the inductive invariant.
LEMMA InitInd == Init => IndInv
<1> SUFFICES ASSUME Init PROVE IndInv
  OBVIOUS
<1>1. TypeOK
  BY InitTypeOK
<1>2. WireInv /\ GateInv
  BY DEF Init, WireInv, GateInv
<1>3. FreshInv /\ BalanceInv
  BY DEF Init, FreshInv, BalanceInv
<1>4. CreditInv
  BY DEF Init, CreditInv, CreditNeverInvented, Limit, Zero
<1> QED
  BY <1>1, <1>2, <1>3, <1>4 DEF IndInv

\* The five parts and the types are inductive together.
THEOREM Invariance == Spec => []IndInv
<1>1. Init => IndInv
  BY InitInd
<1>2. IndInv /\ [Next]_vars => IndInv'
  BY NextTypeOK, WireStep, GateStep, FreshStep, BalanceStep, CreditStep DEF
    IndInv
<1> QED
  BY <1>1, <1>2, PTL DEF Spec

\* Every variable keeps its type: no message is malformed, and the ring of
\* readings never holds more than its capacity.
THEOREM TypeCorrect == Spec => []TypeOK
<1>1. IndInv => TypeOK
  BY DEF IndInv
<1> QED
  BY <1>1, Invariance, PTL

\* For any number of kingdoms, saves, deposits, crashes, reconnects and bridge
\* restarts: once everything has settled the balance the hooks spend from is
\* what was received and not yet paid in the loaded save, unless a reading was
\* dropped or overtaken (AddPayShineHook, threadMain, _push_outstanding_to_switch).
THEOREM SettledBalance == Spec => []QuiescentExact
<1>1. IndInv => QuiescentExact
  <2> SUFFICES ASSUME IndInv, Quiescent, ~dirty
               PROVE  balance = compute_outstanding(lifetime, pay)
    BY DEF QuiescentExact
  <2>1. brPay = pay
    BY DEF IndInv, FreshInv, Quiescent
  <2>2. balance = Due
    BY DEF IndInv, BalanceInv, Quiescent
  <2> QED
    BY <2>1, <2>2 DEF Due
<1> QED
  BY <1>1, Invariance, PTL

\* The Switch never shows credit the AP server has not granted, nor any in a
\* kingdom the festival goal clamps (handleLine for outstanding overwrites the
\* balance; the bridge derives it from its mirror).
THEOREM NoInventedCredit == Spec => []CreditNeverInvented
<1>1. IndInv => CreditNeverInvented
  BY DEF IndInv, CreditInv
<1> QED
  BY <1>1, Invariance, PTL
=============================================================================
