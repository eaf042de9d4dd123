------------------------ MODULE SwitchRegistry_proofs ------------------------
(***************************************************************************)
(* Proofs about SwitchRegistry, for every set of connections, device ids   *)
(* and addresses, and any number of calls of set_active.                   *)
(***************************************************************************)
EXTENDS SwitchRegistry, TLAPS

(***************************************************************************)
(* The inductive invariant.                                                *)
(***************************************************************************)

\* Where the handler of a registered connection can be.
Attached == Serving \cup {"refuse", "closing", "failed"}

\* A connection that said HELLO has an id made of what it announced; one that
\* fails in a send has lost its far end or could not be sent its replay; one being refused
\* is on record.
HandlerInv ==
  \A c \in Conns :
    /\ pc[c] # "idle" => hello[c] \in Hellos
    /\ pc[c] \in Attached =>
         eff[c] \in {Plain(hello[c].raw), Suffix(hello[c].raw, hello[c].peer)}
    /\ pc[c] = "refuse" => eff[c] \in refused
    /\ pc[c] = "failed" => c \notin up \/ c \in unsent

\* A set_active under way was called for a connection, by the user or by a handler.
ToggleInv ==
  /\ \A t \in Toggles : toggle[t].at \in {"kick", "replay"} => toggle[t].new \in Conns
  /\ \A c \in Conns : pc[c] = "promote" => target[c] \in Conns

\* What is registered under an id has that id, and its handler is not over.
RegInv ==
  \A i \in Ids : connections[i] # NoConn =>
    eff[connections[i]] = i /\ pc[connections[i]] \in Attached

\* While nothing was refused the active id is registered, and there is one when
\* anything is registered.
SlotInv ==
  refused = {} =>
    /\ active # NoId => connections[active] # NoConn
    /\ \A i \in Ids : connections[i] # NoConn => active # NoId

\* Who still has to send connection c its replay.
ReplayUnderWay(c) ==
  \/ pc[c] \in {"first", "replay", "failed"}
  \/ \E t \in Toggles : toggle[t].at \in {"kick", "replay"} /\ toggle[t].new = c
  \/ \E d \in Conns : pc[d] = "promote" /\ target[d] = c

\* A replay that is owed is under way, or it raised.
OwedInv ==
  refused = {} => \A c \in owed : c \in takeovers \cup cut \cup unsent \/ ReplayUnderWay(c)

IndInv ==
  TypeOK /\ HandlerInv /\ ToggleInv /\ RegInv /\ NoOrphan /\ SlotInv /\ ShownIsActive /\ OwedInv

\* The ids a HELLO can be given.
LEMMA IdFacts ==
  /\ NoId \notin Ids
  /\ \A r \in Raw, p \in Peers : Plain(r) \in Ids /\ Suffix(r, p) \in Ids
  /\ \A r, s \in Raw, p \in Peers : Plain(r) # Suffix(s, p)
  /\ \A r, s \in Raw, p, q \in Peers : Suffix(r, p) = Suffix(s, q) => p = q
<1>1. \A r, s \in Raw, p \in Peers : Plain(r) # Suffix(s, p)
  <2> SUFFICES ASSUME NEW r \in Raw, NEW s \in Raw, NEW p \in Peers, Plain(r) = Suffix(s, p)
               PROVE  FALSE
    OBVIOUS
  <2>1. Plain(r).peer = Suffix(s, p).peer
    OBVIOUS
  <2>2. {} = {p}
    BY <2>1 DEF Plain, Suffix
  <2> QED
    BY <2>2
<1>2. \A r, s \in Raw, p, q \in Peers : Suffix(r, p) = Suffix(s, q) => p = q
  <2> SUFFICES ASSUME NEW r \in Raw, NEW s \in Raw, NEW p \in Peers, NEW q \in Peers,
                      Suffix(r, p) = Suffix(s, q)
               PROVE  p = q
    OBVIOUS
  <2>1. Suffix(r, p).peer = Suffix(s, q).peer
    OBVIOUS
  <2>2. {p} = {q}
    BY <2>1 DEF Suffix
  <2> QED
    BY <2>2
<1> QED
  BY <1>1, <1>2, NoIdAssumption DEF Ids

\* _resolve_device_id gives the announced id or the one of the peer.
LEMMA ResolveFacts ==
  ASSUME NEW c \in Conns, hello[c] \in Hellos
  PROVE  /\ Resolve(c) \in {Plain(hello[c].raw), Suffix(hello[c].raw, hello[c].peer)}
         /\ Resolve(c) \in Ids
         /\ hello[c].raw \in Raw /\ hello[c].peer \in Peers
BY IdFacts DEF Resolve, Hellos

\* Every step keeps the types.
LEMMA TypeStep ==
  ASSUME TypeOK, HandlerInv, ToggleInv, Next
  PROVE  TypeOK'
<1>1. ASSUME NEW c \in Conns, NEW h \in Hellos, Accept(c, h)
      PROVE  TypeOK'
  BY <1>1 DEF Accept, TypeOK, stateVars, history, Places, Serving
<1>2. ASSUME NEW c \in Conns, PeerGone(c)
      PROVE  TypeOK'
  BY <1>2 DEF PeerGone, TypeOK, stateVars, history, Places, Serving
<1>3. ASSUME NEW c \in Conns, GoneBeforeHello(c)
      PROVE  TypeOK'
  BY <1>3 DEF GoneBeforeHello, TypeOK, stateVars, history, Places, Serving
<1>4. ASSUME NEW c \in Conns, Hello(c)
      PROVE  TypeOK'
  BY <1>4, ResolveFacts DEF TypeOK, HandlerInv, Hello, Places, Hellos, NoHello
<1>5. ASSUME NEW c \in Conns, Refuse(c)
      PROVE  TypeOK'
  BY <1>5 DEF Refuse, TypeOK, stateVars, history, Places, Serving
<1>6. ASSUME NEW c \in Conns, AckFirst(c)
      PROVE  TypeOK'
  BY <1>6 DEF AckFirst, TypeOK, stateVars, history, Places, Serving
<1>7. ASSUME NEW c \in Conns, Replay(c)
      PROVE  TypeOK'
  BY <1>7 DEF Replay, TypeOK, stateVars, history, Places, Replayed, Serving
<1>8. ASSUME NEW c \in Conns, AckOther(c)
      PROVE  TypeOK'
  BY <1>8 DEF AckOther, TypeOK, stateVars, history, Places, Serving
<1>9. ASSUME NEW c \in Conns, SendFails(c)
      PROVE  TypeOK'
  BY <1>9 DEF SendFails, TypeOK, stateVars, history, Places, Serving
<1>10. ASSUME NEW c \in Conns, Eof(c)
      PROVE  TypeOK'
  BY <1>10 DEF Eof, TypeOK, stateVars, history, Places, Serving
<1>11. ASSUME NEW c \in Conns, Unregister(c)
      PROVE  TypeOK'
  BY <1>11 DEF Unregister, TypeOK, stateVars, history, Places, Registered, Shows, ActiveConn, Serving
<1>12. ASSUME NEW c \in Conns, Promote(c)
      PROVE  TypeOK'
  BY <1>12 DEF Promote, TypeOK, stateVars, history, Places, Replayed, Serving
<1>13. ASSUME NEW t \in Toggles, NEW i \in Ids, SetActive(t, i)
      PROVE  TypeOK'
  BY <1>13 DEF SetActive, TypeOK, stateVars, history, Places, Registered, Shows, ActiveConn, Serving
<1>14. ASSUME NEW t \in Toggles, Kicked(t)
      PROVE  TypeOK'
  BY <1>14 DEF Kicked, TypeOK, stateVars, history, Places, Serving
<1>15. ASSUME NEW t \in Toggles, KickFails(t)
      PROVE  TypeOK'
  BY <1>15 DEF KickFails, TypeOK, stateVars, history, Places, ToggleInv, Serving
<1>16. ASSUME NEW t \in Toggles, Activated(t)
      PROVE  TypeOK'
  BY <1>16 DEF Activated, TypeOK, stateVars, history, Places, Replayed, Serving
<1>17. ASSUME NEW c \in Conns, ReplayRaises(c)
      PROVE  TypeOK'
  BY <1>17 DEF ReplayRaises, ReplayOverflows, TypeOK, stateVars, history, Places, Serving
<1>18. ASSUME NEW c \in Conns, PromoteRaises(c)
      PROVE  TypeOK'
  BY <1>18 DEF PromoteRaises, ReplayOverflows, TypeOK, ToggleInv, stateVars, history, Places, Serving
<1>19. ASSUME NEW t \in Toggles, ActivatedRaises(t)
      PROVE  TypeOK'
  BY <1>19 DEF ActivatedRaises, ReplayOverflows, TypeOK, ToggleInv, stateVars, history, Places, Serving
<1> QED
  BY <1>1, <1>2, <1>3, <1>4, <1>5, <1>6, <1>7, <1>8, <1>9, <1>10, <1>11, <1>12, <1>13, <1>14, <1>15, <1>16,
     <1>17, <1>18, <1>19 DEF Next

\* Every step keeps what is known of the handlers.
LEMMA HandlerStep ==
  ASSUME TypeOK, HandlerInv, Next
  PROVE  HandlerInv'
<1>1. ASSUME NEW c \in Conns, NEW h \in Hellos, Accept(c, h)
      PROVE  HandlerInv'
  BY <1>1 DEF Accept, TypeOK, HandlerInv, Attached, Serving, stateVars, history, Places
<1>2. ASSUME NEW c \in Conns, PeerGone(c)
      PROVE  HandlerInv'
  BY <1>2 DEF PeerGone, TypeOK, HandlerInv, Attached, Serving, stateVars, history, Places
<1>3. ASSUME NEW c \in Conns, GoneBeforeHello(c)
      PROVE  HandlerInv'
  BY <1>3 DEF GoneBeforeHello, TypeOK, HandlerInv, Attached, Serving, stateVars, history, Places
<1>4. ASSUME NEW c \in Conns, Hello(c)
      PROVE  HandlerInv'
  BY <1>4, ResolveFacts DEF Hello, TypeOK, HandlerInv, Attached, Serving, stateVars, history, Places, Hellos, NoHello
<1>5. ASSUME NEW c \in Conns, Refuse(c)
      PROVE  HandlerInv'
  BY <1>5 DEF Refuse, TypeOK, HandlerInv, Attached, Serving, stateVars, history, Places
<1>6. ASSUME NEW c \in Conns, AckFirst(c)
      PROVE  HandlerInv'
  BY <1>6 DEF AckFirst, TypeOK, HandlerInv, Attached, Serving, stateVars, history, Places
<1>7. ASSUME NEW c \in Conns, Replay(c)
      PROVE  HandlerInv'
  BY <1>7 DEF Replay, TypeOK, HandlerInv, Attached, Serving, stateVars, history, Places
<1>8. ASSUME NEW c \in Conns, AckOther(c)
      PROVE  HandlerInv'
  BY <1>8 DEF AckOther, TypeOK, HandlerInv, Attached, Serving, stateVars, history, Places
<1>9. ASSUME NEW c \in Conns, SendFails(c)
      PROVE  HandlerInv'
  BY <1>9 DEF SendFails, TypeOK, HandlerInv, Attached, Serving, stateVars, history, Places
<1>10. ASSUME NEW c \in Conns, Eof(c)
      PROVE  HandlerInv'
  BY <1>10 DEF Eof, TypeOK, HandlerInv, Attached, Serving, stateVars, history, Places
<1>11. ASSUME NEW c \in Conns, Unregister(c)
      PROVE  HandlerInv'
  BY <1>11 DEF Unregister, TypeOK, HandlerInv, Attached, Serving, stateVars, history, Places, Registered
<1>12. ASSUME NEW c \in Conns, Promote(c)
      PROVE  HandlerInv'
  BY <1>12 DEF Promote, TypeOK, HandlerInv, Attached, Serving, stateVars, history, Places
<1>13. ASSUME NEW t \in Toggles, NEW i \in Ids, SetActive(t, i)
      PROVE  HandlerInv'
  BY <1>13 DEF SetActive, TypeOK, HandlerInv, Attached, Serving, stateVars, history, Places, Registered
<1>14. ASSUME NEW t \in Toggles, Kicked(t)
      PROVE  HandlerInv'
  BY <1>14 DEF Kicked, TypeOK, HandlerInv, Attached, Serving, stateVars, history, Places
<1>15. ASSUME NEW t \in Toggles, KickFails(t)
      PROVE  HandlerInv'
  BY <1>15 DEF KickFails, TypeOK, HandlerInv, Attached, Serving, stateVars, history, Places
<1>16. ASSUME NEW t \in Toggles, Activated(t)
      PROVE  HandlerInv'
  BY <1>16 DEF Activated, TypeOK, HandlerInv, Attached, Serving, stateVars, history, Places
<1>17. ASSUME NEW c \in Conns, ReplayRaises(c)
      PROVE  HandlerInv'
  BY <1>17 DEF ReplayRaises, ReplayOverflows, TypeOK, HandlerInv, Attached, Serving, stateVars, history, Places
<1>18. ASSUME NEW c \in Conns, PromoteRaises(c)
      PROVE  HandlerInv'
  BY <1>18 DEF PromoteRaises, ReplayOverflows, TypeOK, HandlerInv, Attached, Serving, stateVars, history, Places
<1>19. ASSUME NEW t \in Toggles, ActivatedRaises(t)
      PROVE  HandlerInv'
  BY <1>19 DEF ActivatedRaises, ReplayOverflows, TypeOK, HandlerInv, Attached, Serving, stateVars, history, Places
<1> QED
  BY <1>1, <1>2, <1>3, <1>4, <1>5, <1>6, <1>7, <1>8, <1>9, <1>10, <1>11, <1>12, <1>13, <1>14, <1>15, <1>16,
     <1>17, <1>18, <1>19 DEF Next

\* Every step keeps what is known of the calls of set_active.
LEMMA ToggleStep ==
  ASSUME TypeOK, ToggleInv, Next
  PROVE  ToggleInv'
<1>1. ASSUME NEW c \in Conns, NEW h \in Hellos, Accept(c, h)
      PROVE  ToggleInv'
  BY <1>1 DEF Accept, TypeOK, ToggleInv, stateVars, history
<1>2. ASSUME NEW c \in Conns, PeerGone(c)
      PROVE  ToggleInv'
  BY <1>2 DEF PeerGone, TypeOK, ToggleInv, stateVars, history
<1>3. ASSUME NEW c \in Conns, GoneBeforeHello(c)
      PROVE  ToggleInv'
  BY <1>3 DEF GoneBeforeHello, TypeOK, ToggleInv, stateVars, history
<1>4. ASSUME NEW c \in Conns, Hello(c)
      PROVE  ToggleInv'
  BY <1>4 DEF Hello, TypeOK, ToggleInv, stateVars, history
<1>5. ASSUME NEW c \in Conns, Refuse(c)
      PROVE  ToggleInv'
  BY <1>5 DEF Refuse, TypeOK, ToggleInv, stateVars, history
<1>6. ASSUME NEW c \in Conns, AckFirst(c)
      PROVE  ToggleInv'
  BY <1>6 DEF AckFirst, TypeOK, ToggleInv, stateVars, history
<1>7. ASSUME NEW c \in Conns, Replay(c)
      PROVE  ToggleInv'
  BY <1>7 DEF Replay, TypeOK, ToggleInv, stateVars, history
<1>8. ASSUME NEW c \in Conns, AckOther(c)
      PROVE  ToggleInv'
  BY <1>8 DEF AckOther, TypeOK, ToggleInv, stateVars, history
<1>9. ASSUME NEW c \in Conns, SendFails(c)
      PROVE  ToggleInv'
  BY <1>9 DEF SendFails, TypeOK, ToggleInv, stateVars, history
<1>10. ASSUME NEW c \in Conns, Eof(c)
      PROVE  ToggleInv'
  BY <1>10 DEF Eof, TypeOK, ToggleInv, stateVars, history
<1>11. ASSUME NEW c \in Conns, Unregister(c)
      PROVE  ToggleInv'
  BY <1>11 DEF Unregister, TypeOK, ToggleInv, stateVars, history, Registered
<1>12. ASSUME NEW c \in Conns, Promote(c)
      PROVE  ToggleInv'
  BY <1>12 DEF Promote, TypeOK, ToggleInv, stateVars, history
<1>13. ASSUME NEW t \in Toggles, NEW i \in Ids, SetActive(t, i)
      PROVE  ToggleInv'
  BY <1>13 DEF SetActive, TypeOK, ToggleInv, stateVars, history, Registered
<1>14. ASSUME NEW t \in Toggles, Kicked(t)
      PROVE  ToggleInv'
  BY <1>14 DEF Kicked, TypeOK, ToggleInv, stateVars, history
<1>15. ASSUME NEW t \in Toggles, KickFails(t)
      PROVE  ToggleInv'
  BY <1>15 DEF KickFails, TypeOK, ToggleInv, stateVars, history
<1>16. ASSUME NEW t \in Toggles, Activated(t)
      PROVE  ToggleInv'
  BY <1>16 DEF Activated, TypeOK, ToggleInv, stateVars, history
<1>17. ASSUME NEW c \in Conns, ReplayRaises(c)
      PROVE  ToggleInv'
  BY <1>17 DEF ReplayRaises, ReplayOverflows, TypeOK, ToggleInv, stateVars, history
<1>18. ASSUME NEW c \in Conns, PromoteRaises(c)
      PROVE  ToggleInv'
  BY <1>18 DEF PromoteRaises, ReplayOverflows, TypeOK, ToggleInv, stateVars, history
<1>19. ASSUME NEW t \in Toggles, ActivatedRaises(t)
      PROVE  ToggleInv'
  BY <1>19 DEF ActivatedRaises, ReplayOverflows, TypeOK, ToggleInv, stateVars, history
<1> QED
  BY <1>1, <1>2, <1>3, <1>4, <1>5, <1>6, <1>7, <1>8, <1>9, <1>10, <1>11, <1>12, <1>13, <1>14, <1>15, <1>16,
     <1>17, <1>18, <1>19 DEF Next

\* Every step keeps the registry consistent with the handlers.
LEMMA RegStep ==
  ASSUME TypeOK, HandlerInv, RegInv, Next
  PROVE  RegInv'
<1>1. ASSUME NEW c \in Conns, NEW h \in Hellos, Accept(c, h)
      PROVE  RegInv'
  BY <1>1, RegistryAssumption DEF Accept, TypeOK, RegInv, HandlerInv, Attached, Serving, stateVars, history, Places
<1>2. ASSUME NEW c \in Conns, PeerGone(c)
      PROVE  RegInv'
  BY <1>2, RegistryAssumption DEF PeerGone, TypeOK, RegInv, HandlerInv, Attached, Serving, stateVars, history, Places
<1>3. ASSUME NEW c \in Conns, GoneBeforeHello(c)
      PROVE  RegInv'
  BY <1>3, RegistryAssumption DEF GoneBeforeHello, TypeOK, RegInv, HandlerInv, Attached, Serving, stateVars, history, Places
<1>4. ASSUME NEW c \in Conns, Hello(c)
      PROVE  RegInv'
  BY <1>4, ResolveFacts, RegistryAssumption DEF Hello, TypeOK, RegInv, HandlerInv, Attached, Serving, stateVars, history, Places
<1>5. ASSUME NEW c \in Conns, Refuse(c)
      PROVE  RegInv'
  BY <1>5, RegistryAssumption DEF Refuse, TypeOK, RegInv, HandlerInv, Attached, Serving, stateVars, history, Places
<1>6. ASSUME NEW c \in Conns, AckFirst(c)
      PROVE  RegInv'
  BY <1>6, RegistryAssumption DEF AckFirst, TypeOK, RegInv, HandlerInv, Attached, Serving, stateVars, history, Places
<1>7. ASSUME NEW c \in Conns, Replay(c)
      PROVE  RegInv'
  BY <1>7, RegistryAssumption DEF Replay, TypeOK, RegInv, HandlerInv, Attached, Serving, stateVars, history, Places
<1>8. ASSUME NEW c \in Conns, AckOther(c)
      PROVE  RegInv'
  BY <1>8, RegistryAssumption DEF AckOther, TypeOK, RegInv, HandlerInv, Attached, Serving, stateVars, history, Places
<1>9. ASSUME NEW c \in Conns, SendFails(c)
      PROVE  RegInv'
  BY <1>9, RegistryAssumption DEF SendFails, TypeOK, RegInv, HandlerInv, Attached, Serving, stateVars, history, Places
<1>10. ASSUME NEW c \in Conns, Eof(c)
      PROVE  RegInv'
  BY <1>10, RegistryAssumption DEF Eof, TypeOK, RegInv, HandlerInv, Attached, Serving, stateVars, history, Places
<1>11. ASSUME NEW c \in Conns, Unregister(c)
      PROVE  RegInv'
  BY <1>11, RegistryAssumption DEF Unregister, TypeOK, RegInv, HandlerInv, Attached, Serving, stateVars, history, Places, Registered
<1>12. ASSUME NEW c \in Conns, Promote(c)
      PROVE  RegInv'
  BY <1>12, RegistryAssumption DEF Promote, TypeOK, RegInv, HandlerInv, Attached, Serving, stateVars, history, Places
<1>13. ASSUME NEW t \in Toggles, NEW i \in Ids, SetActive(t, i)
      PROVE  RegInv'
  BY <1>13, RegistryAssumption DEF SetActive, TypeOK, RegInv, HandlerInv, Attached, Serving, stateVars, history, Places, Registered
<1>14. ASSUME NEW t \in Toggles, Kicked(t)
      PROVE  RegInv'
  BY <1>14, RegistryAssumption DEF Kicked, TypeOK, RegInv, HandlerInv, Attached, Serving, stateVars, history, Places
<1>15. ASSUME NEW t \in Toggles, KickFails(t)
      PROVE  RegInv'
  BY <1>15, RegistryAssumption DEF KickFails, TypeOK, RegInv, HandlerInv, Attached, Serving, stateVars, history, Places
<1>16. ASSUME NEW t \in Toggles, Activated(t)
      PROVE  RegInv'
  BY <1>16, RegistryAssumption DEF Activated, TypeOK, RegInv, HandlerInv, Attached, Serving, stateVars, history, Places
<1>17. ASSUME NEW c \in Conns, ReplayRaises(c)
      PROVE  RegInv'
  BY <1>17, RegistryAssumption DEF ReplayRaises, ReplayOverflows, TypeOK, RegInv, HandlerInv, Attached, Serving, stateVars, history, Places
<1>18. ASSUME NEW c \in Conns, PromoteRaises(c)
      PROVE  RegInv'
  BY <1>18, RegistryAssumption DEF PromoteRaises, ReplayOverflows, TypeOK, RegInv, HandlerInv, Attached, Serving, stateVars, history, Places
<1>19. ASSUME NEW t \in Toggles, ActivatedRaises(t)
      PROVE  RegInv'
  BY <1>19, RegistryAssumption DEF ActivatedRaises, ReplayOverflows, TypeOK, RegInv, HandlerInv, Attached, Serving, stateVars, history, Places
<1> QED
  BY <1>1, <1>2, <1>3, <1>4, <1>5, <1>6, <1>7, <1>8, <1>9, <1>10, <1>11, <1>12, <1>13, <1>14, <1>15, <1>16,
     <1>17, <1>18, <1>19 DEF Next

\* Every step keeps the connections that are served registered.
LEMMA OrphanStep ==
  ASSUME TypeOK, HandlerInv, RegInv, NoOrphan, Next
  PROVE  NoOrphan'
<1>1. ASSUME NEW c \in Conns, NEW h \in Hellos, Accept(c, h)
      PROVE  NoOrphan'
  BY <1>1, RegistryAssumption DEF Accept, TypeOK, NoOrphan, RegInv, HandlerInv, Attached, Serving, stateVars, history, Places
<1>2. ASSUME NEW c \in Conns, PeerGone(c)
      PROVE  NoOrphan'
  BY <1>2, RegistryAssumption DEF PeerGone, TypeOK, NoOrphan, RegInv, HandlerInv, Attached, Serving, stateVars, history, Places
<1>3. ASSUME NEW c \in Conns, GoneBeforeHello(c)
      PROVE  NoOrphan'
  BY <1>3, RegistryAssumption DEF GoneBeforeHello, TypeOK, NoOrphan, RegInv, HandlerInv, Attached, Serving, stateVars, history, Places
<1>4. ASSUME NEW c \in Conns, Hello(c)
      PROVE  NoOrphan'
  BY <1>4, ResolveFacts, RegistryAssumption DEF Hello, TypeOK, NoOrphan, RegInv, HandlerInv, Attached, Serving, stateVars, history, Places
<1>5. ASSUME NEW c \in Conns, Refuse(c)
      PROVE  NoOrphan'
  <2> SUFFICES ASSUME NEW d \in Conns, pc'[d] \in Serving, d \notin closed'
               PROVE  connections'[eff'[d]] = d
    BY DEF NoOrphan
  <2>1. d # c /\ pc[d] \in Serving /\ d \notin closed /\ eff' = eff
    BY <1>5 DEF Refuse, TypeOK, Serving
  <2>2. connections[eff[d]] = d /\ eff[d] \in Ids
    BY <2>1, IdFacts DEF NoOrphan, HandlerInv, Attached, Serving, TypeOK, Hellos
  <2>3. connections'[eff[d]] = d
    BY <1>5, <2>1, <2>2 DEF Refuse, TypeOK, stateVars
  <2> QED
    BY <2>1, <2>3
<1>6. ASSUME NEW c \in Conns, AckFirst(c)
      PROVE  NoOrphan'
  BY <1>6, RegistryAssumption DEF AckFirst, TypeOK, NoOrphan, RegInv, HandlerInv, Attached, Serving, stateVars, history, Places
<1>7. ASSUME NEW c \in Conns, Replay(c)
      PROVE  NoOrphan'
  BY <1>7, RegistryAssumption DEF Replay, TypeOK, NoOrphan, RegInv, HandlerInv, Attached, Serving, stateVars, history, Places
<1>8. ASSUME NEW c \in Conns, AckOther(c)
      PROVE  NoOrphan'
  BY <1>8, RegistryAssumption DEF AckOther, TypeOK, NoOrphan, RegInv, HandlerInv, Attached, Serving, stateVars, history, Places
<1>9. ASSUME NEW c \in Conns, SendFails(c)
      PROVE  NoOrphan'
  BY <1>9, RegistryAssumption DEF SendFails, TypeOK, NoOrphan, RegInv, HandlerInv, Attached, Serving, stateVars, history, Places
<1>10. ASSUME NEW c \in Conns, Eof(c)
      PROVE  NoOrphan'
  BY <1>10, RegistryAssumption DEF Eof, TypeOK, NoOrphan, RegInv, HandlerInv, Attached, Serving, stateVars, history, Places
<1>11. ASSUME NEW c \in Conns, Unregister(c)
      PROVE  NoOrphan'
  <2> SUFFICES ASSUME NEW d \in Conns, pc'[d] \in Serving, d \notin closed'
               PROVE  connections'[eff'[d]] = d
    BY DEF NoOrphan
  <2>1. d # c /\ pc[d] \in Serving /\ d \notin closed /\ eff' = eff
    BY <1>11 DEF Unregister, TypeOK, Serving
  <2>2. connections[eff[d]] = d /\ eff[d] \in Ids
    BY <2>1, IdFacts DEF NoOrphan, HandlerInv, Attached, Serving, TypeOK, Hellos
  <2>3. connections'[eff[d]] = d
    BY <1>11, <2>1, <2>2 DEF Unregister, TypeOK, stateVars
  <2> QED
    BY <2>1, <2>3
<1>12. ASSUME NEW c \in Conns, Promote(c)
      PROVE  NoOrphan'
  BY <1>12, RegistryAssumption DEF Promote, TypeOK, NoOrphan, RegInv, HandlerInv, Attached, Serving, stateVars, history, Places
<1>13. ASSUME NEW t \in Toggles, NEW i \in Ids, SetActive(t, i)
      PROVE  NoOrphan'
  BY <1>13, RegistryAssumption DEF SetActive, TypeOK, NoOrphan, RegInv, HandlerInv, Attached, Serving, stateVars, history, Places, Registered
<1>14. ASSUME NEW t \in Toggles, Kicked(t)
      PROVE  NoOrphan'
  BY <1>14, RegistryAssumption DEF Kicked, TypeOK, NoOrphan, RegInv, HandlerInv, Attached, Serving, stateVars, history, Places
<1>15. ASSUME NEW t \in Toggles, KickFails(t)
      PROVE  NoOrphan'
  BY <1>15, RegistryAssumption DEF KickFails, TypeOK, NoOrphan, RegInv, HandlerInv, Attached, Serving, stateVars, history, Places
<1>16. ASSUME NEW t \in Toggles, Activated(t)
      PROVE  NoOrphan'
  BY <1>16, RegistryAssumption DEF Activated, TypeOK, NoOrphan, RegInv, HandlerInv, Attached, Serving, stateVars, history, Places
<1>17. ASSUME NEW c \in Conns, ReplayRaises(c)
      PROVE  NoOrphan'
  BY <1>17, RegistryAssumption DEF ReplayRaises, ReplayOverflows, TypeOK, NoOrphan, RegInv, HandlerInv, Attached, Serving, stateVars, history, Places
<1>18. ASSUME NEW c \in Conns, PromoteRaises(c)
      PROVE  NoOrphan'
  BY <1>18, RegistryAssumption DEF PromoteRaises, ReplayOverflows, TypeOK, NoOrphan, RegInv, HandlerInv, Attached, Serving, stateVars, history, Places
<1>19. ASSUME NEW t \in Toggles, ActivatedRaises(t)
      PROVE  NoOrphan'
  BY <1>19, RegistryAssumption DEF ActivatedRaises, ReplayOverflows, TypeOK, NoOrphan, RegInv, HandlerInv, Attached, Serving, stateVars, history, Places
<1> QED
  BY <1>1, <1>2, <1>3, <1>4, <1>5, <1>6, <1>7, <1>8, <1>9, <1>10, <1>11, <1>12, <1>13, <1>14, <1>15, <1>16,
     <1>17, <1>18, <1>19 DEF Next

\* Every step keeps the slot bound.
LEMMA SlotStep ==
  ASSUME TypeOK, HandlerInv, RegInv, SlotInv, Next
  PROVE  SlotInv'
<1>1. ASSUME NEW c \in Conns, NEW h \in Hellos, Accept(c, h)
      PROVE  SlotInv'
  BY <1>1, IdFacts, RegistryAssumption DEF Accept, TypeOK, SlotInv, RegInv, HandlerInv, Attached, stateVars, history
<1>2. ASSUME NEW c \in Conns, PeerGone(c)
      PROVE  SlotInv'
  BY <1>2, IdFacts, RegistryAssumption DEF PeerGone, TypeOK, SlotInv, RegInv, HandlerInv, Attached, stateVars, history
<1>3. ASSUME NEW c \in Conns, GoneBeforeHello(c)
      PROVE  SlotInv'
  BY <1>3, IdFacts, RegistryAssumption DEF GoneBeforeHello, TypeOK, SlotInv, RegInv, HandlerInv, Attached, stateVars, history
<1>4. ASSUME NEW c \in Conns, Hello(c)
      PROVE  SlotInv'
  <2> SUFFICES ASSUME refused' = {}
               PROVE  /\ active' # NoId => connections'[active'] # NoConn
                      /\ \A i \in Ids : connections'[i] # NoConn => active' # NoId
    BY DEF SlotInv
  <2>1. refused = {} /\ hello[c].version = "same"
    BY <1>4 DEF Hello
  <2>2. hello[c] \in Hellos /\ Resolve(c) \in Ids /\ Resolve(c) # NoId
    BY <1>4, ResolveFacts, IdFacts DEF Hello, HandlerInv
  <2>3. connections' = [connections EXCEPT ![Resolve(c)] = c]
    BY <1>4 DEF Hello
  <2>4. active' = IF active = NoId THEN Resolve(c) ELSE active
    BY <1>4, <2>1 DEF Hello
  <2>5. active' # NoId
    BY <2>2, <2>4
  <2>6. active' \in Ids /\ connections'[active'] # NoConn
    BY <2>1, <2>2, <2>3, <2>4, RegistryAssumption DEF SlotInv, TypeOK
  <2> QED
    BY <2>5, <2>6
<1>5. ASSUME NEW c \in Conns, Refuse(c)
      PROVE  SlotInv'
  BY <1>5, IdFacts, RegistryAssumption DEF Refuse, TypeOK, SlotInv, RegInv, HandlerInv, Attached, stateVars, history
<1>6. ASSUME NEW c \in Conns, AckFirst(c)
      PROVE  SlotInv'
  BY <1>6, IdFacts, RegistryAssumption DEF AckFirst, TypeOK, SlotInv, RegInv, HandlerInv, Attached, stateVars, history
<1>7. ASSUME NEW c \in Conns, Replay(c)
      PROVE  SlotInv'
  BY <1>7, IdFacts, RegistryAssumption DEF Replay, TypeOK, SlotInv, RegInv, HandlerInv, Attached, stateVars, history
<1>8. ASSUME NEW c \in Conns, AckOther(c)
      PROVE  SlotInv'
  BY <1>8, IdFacts, RegistryAssumption DEF AckOther, TypeOK, SlotInv, RegInv, HandlerInv, Attached, stateVars, history
<1>9. ASSUME NEW c \in Conns, SendFails(c)
      PROVE  SlotInv'
  BY <1>9, IdFacts, RegistryAssumption DEF SendFails, TypeOK, SlotInv, RegInv, HandlerInv, Attached, stateVars, history
<1>10. ASSUME NEW c \in Conns, Eof(c)
      PROVE  SlotInv'
  BY <1>10, IdFacts, RegistryAssumption DEF Eof, TypeOK, SlotInv, RegInv, HandlerInv, Attached, stateVars, history
<1>11. ASSUME NEW c \in Conns, Unregister(c)
      PROVE  SlotInv'
  BY <1>11, IdFacts, RegistryAssumption DEF Unregister, TypeOK, SlotInv, RegInv, HandlerInv, Attached, stateVars, history, Registered
<1>12. ASSUME NEW c \in Conns, Promote(c)
      PROVE  SlotInv'
  BY <1>12, IdFacts, RegistryAssumption DEF Promote, TypeOK, SlotInv, RegInv, HandlerInv, Attached, stateVars, history
<1>13. ASSUME NEW t \in Toggles, NEW i \in Ids, SetActive(t, i)
      PROVE  SlotInv'
  BY <1>13, IdFacts, RegistryAssumption DEF SetActive, TypeOK, SlotInv, RegInv, HandlerInv, Attached, stateVars, history, Registered
<1>14. ASSUME NEW t \in Toggles, Kicked(t)
      PROVE  SlotInv'
  BY <1>14, IdFacts, RegistryAssumption DEF Kicked, TypeOK, SlotInv, RegInv, HandlerInv, Attached, stateVars, history
<1>15. ASSUME NEW t \in Toggles, KickFails(t)
      PROVE  SlotInv'
  BY <1>15, IdFacts, RegistryAssumption DEF KickFails, TypeOK, SlotInv, RegInv, HandlerInv, Attached, stateVars, history
<1>16. ASSUME NEW t \in Toggles, Activated(t)
      PROVE  SlotInv'
  BY <1>16, IdFacts, RegistryAssumption DEF Activated, TypeOK, SlotInv, RegInv, HandlerInv, Attached, stateVars, history
<1>17. ASSUME NEW c \in Conns, ReplayRaises(c)
      PROVE  SlotInv'
  BY <1>17, IdFacts, RegistryAssumption DEF ReplayRaises, ReplayOverflows, TypeOK, SlotInv, RegInv, HandlerInv, Attached, stateVars, history
<1>18. ASSUME NEW c \in Conns, PromoteRaises(c)
      PROVE  SlotInv'
  BY <1>18, IdFacts, RegistryAssumption DEF PromoteRaises, ReplayOverflows, TypeOK, SlotInv, RegInv, HandlerInv, Attached, stateVars, history
<1>19. ASSUME NEW t \in Toggles, ActivatedRaises(t)
      PROVE  SlotInv'
  BY <1>19, IdFacts, RegistryAssumption DEF ActivatedRaises, ReplayOverflows, TypeOK, SlotInv, RegInv, HandlerInv, Attached, stateVars, history
<1> QED
  BY <1>1, <1>2, <1>3, <1>4, <1>5, <1>6, <1>7, <1>8, <1>9, <1>10, <1>11, <1>12, <1>13, <1>14, <1>15, <1>16,
     <1>17, <1>18, <1>19 DEF Next

\* Every step keeps what is shown true.
LEMMA ShownStep ==
  ASSUME TypeOK, HandlerInv, RegInv, ShownIsActive, Next
  PROVE  ShownIsActive'
<1>1. ASSUME NEW c \in Conns, NEW h \in Hellos, Accept(c, h)
      PROVE  ShownIsActive'
  BY <1>1, IdFacts, RegistryAssumption DEF Accept, TypeOK, ShownIsActive, Registered, HandlerInv, RegInv, Attached, Shows, stateVars, history
<1>2. ASSUME NEW c \in Conns, PeerGone(c)
      PROVE  ShownIsActive'
  BY <1>2, IdFacts, RegistryAssumption DEF PeerGone, TypeOK, ShownIsActive, Registered, HandlerInv, RegInv, Attached, Shows, stateVars, history
<1>3. ASSUME NEW c \in Conns, GoneBeforeHello(c)
      PROVE  ShownIsActive'
  BY <1>3, IdFacts, RegistryAssumption DEF GoneBeforeHello, TypeOK, ShownIsActive, Registered, HandlerInv, RegInv, Attached, Shows, stateVars, history
<1>4. ASSUME NEW c \in Conns, Hello(c)
      PROVE  ShownIsActive'
  BY <1>4, ResolveFacts, IdFacts, RegistryAssumption DEF Hello, TypeOK, ShownIsActive, Registered, HandlerInv, RegInv, Attached, Shows, stateVars, history
<1>5. ASSUME NEW c \in Conns, Refuse(c)
      PROVE  ShownIsActive'
  BY <1>5, IdFacts, RegistryAssumption DEF Refuse, TypeOK, ShownIsActive, Registered, HandlerInv, RegInv, Attached, Shows, stateVars, history
<1>6. ASSUME NEW c \in Conns, AckFirst(c)
      PROVE  ShownIsActive'
  BY <1>6, IdFacts, RegistryAssumption DEF AckFirst, TypeOK, ShownIsActive, Registered, HandlerInv, RegInv, Attached, Shows, stateVars, history
<1>7. ASSUME NEW c \in Conns, Replay(c)
      PROVE  ShownIsActive'
  BY <1>7, IdFacts, RegistryAssumption DEF Replay, TypeOK, ShownIsActive, Registered, HandlerInv, RegInv, Attached, Shows, stateVars, history
<1>8. ASSUME NEW c \in Conns, AckOther(c)
      PROVE  ShownIsActive'
  BY <1>8, IdFacts, RegistryAssumption DEF AckOther, TypeOK, ShownIsActive, Registered, HandlerInv, RegInv, Attached, Shows, stateVars, history
<1>9. ASSUME NEW c \in Conns, SendFails(c)
      PROVE  ShownIsActive'
  BY <1>9, IdFacts, RegistryAssumption DEF SendFails, TypeOK, ShownIsActive, Registered, HandlerInv, RegInv, Attached, Shows, stateVars, history
<1>10. ASSUME NEW c \in Conns, Eof(c)
      PROVE  ShownIsActive'
  BY <1>10, IdFacts, RegistryAssumption DEF Eof, TypeOK, ShownIsActive, Registered, HandlerInv, RegInv, Attached, Shows, stateVars, history
<1>11. ASSUME NEW c \in Conns, Unregister(c)
      PROVE  ShownIsActive'
  BY <1>11, IdFacts, RegistryAssumption DEF Unregister, TypeOK, ShownIsActive, Registered, HandlerInv, RegInv, Attached, Shows, stateVars, history
<1>12. ASSUME NEW c \in Conns, Promote(c)
      PROVE  ShownIsActive'
  BY <1>12, IdFacts, RegistryAssumption DEF Promote, TypeOK, ShownIsActive, Registered, HandlerInv, RegInv, Attached, Shows, stateVars, history
<1>13. ASSUME NEW t \in Toggles, NEW i \in Ids, SetActive(t, i)
      PROVE  ShownIsActive'
  BY <1>13, IdFacts, RegistryAssumption DEF SetActive, TypeOK, ShownIsActive, Registered, HandlerInv, RegInv, Attached, Shows, stateVars, history
<1>14. ASSUME NEW t \in Toggles, Kicked(t)
      PROVE  ShownIsActive'
  BY <1>14, IdFacts, RegistryAssumption DEF Kicked, TypeOK, ShownIsActive, Registered, HandlerInv, RegInv, Attached, Shows, stateVars, history
<1>15. ASSUME NEW t \in Toggles, KickFails(t)
      PROVE  ShownIsActive'
  BY <1>15, IdFacts, RegistryAssumption DEF KickFails, TypeOK, ShownIsActive, Registered, HandlerInv, RegInv, Attached, Shows, stateVars, history
<1>16. ASSUME NEW t \in Toggles, Activated(t)
      PROVE  ShownIsActive'
  BY <1>16, IdFacts, RegistryAssumption DEF Activated, TypeOK, ShownIsActive, Registered, HandlerInv, RegInv, Attached, Shows, stateVars, history
<1>17. ASSUME NEW c \in Conns, ReplayRaises(c)
      PROVE  ShownIsActive'
  BY <1>17, IdFacts, RegistryAssumption DEF ReplayRaises, ReplayOverflows, TypeOK, ShownIsActive, Registered, HandlerInv, RegInv, Attached, Shows, stateVars, history
<1>18. ASSUME NEW c \in Conns, PromoteRaises(c)
      PROVE  ShownIsActive'
  BY <1>18, IdFacts, RegistryAssumption DEF PromoteRaises, ReplayOverflows, TypeOK, ShownIsActive, Registered, HandlerInv, RegInv, Attached, Shows, stateVars, history
<1>19. ASSUME NEW t \in Toggles, ActivatedRaises(t)
      PROVE  ShownIsActive'
  BY <1>19, IdFacts, RegistryAssumption DEF ActivatedRaises, ReplayOverflows, TypeOK, ShownIsActive, Registered, HandlerInv, RegInv, Attached, Shows, stateVars, history
<1> QED
  BY <1>1, <1>2, <1>3, <1>4, <1>5, <1>6, <1>7, <1>8, <1>9, <1>10, <1>11, <1>12, <1>13, <1>14, <1>15, <1>16,
     <1>17, <1>18, <1>19 DEF Next

\* Every step keeps the owed replays under way.
LEMMA OwedStep ==
  ASSUME TypeOK, HandlerInv, RegInv, SlotInv, OwedInv, Next
  PROVE  OwedInv'
<1>1. ASSUME NEW c \in Conns, NEW h \in Hellos, Accept(c, h)
      PROVE  OwedInv'
  BY <1>1, RegistryAssumption DEF Accept, TypeOK, OwedInv, ReplayUnderWay, SlotInv, RegInv, HandlerInv, Serving, stateVars, history
<1>2. ASSUME NEW c \in Conns, PeerGone(c)
      PROVE  OwedInv'
  BY <1>2, RegistryAssumption DEF PeerGone, TypeOK, OwedInv, ReplayUnderWay, SlotInv, RegInv, HandlerInv, Serving, stateVars, history
<1>3. ASSUME NEW c \in Conns, GoneBeforeHello(c)
      PROVE  OwedInv'
  BY <1>3, RegistryAssumption DEF GoneBeforeHello, TypeOK, OwedInv, ReplayUnderWay, SlotInv, RegInv, HandlerInv, Serving, stateVars, history
<1>4. ASSUME NEW c \in Conns, Hello(c)
      PROVE  OwedInv'
  BY <1>4, ResolveFacts, IdFacts, RegistryAssumption DEF Hello, TypeOK, OwedInv, ReplayUnderWay, SlotInv, RegInv, HandlerInv, Serving, stateVars, history
<1>5. ASSUME NEW c \in Conns, Refuse(c)
      PROVE  OwedInv'
  BY <1>5, RegistryAssumption DEF Refuse, TypeOK, OwedInv, ReplayUnderWay, SlotInv, RegInv, HandlerInv, Serving, stateVars, history
<1>6. ASSUME NEW c \in Conns, AckFirst(c)
      PROVE  OwedInv'
  BY <1>6, RegistryAssumption DEF AckFirst, TypeOK, OwedInv, ReplayUnderWay, SlotInv, RegInv, HandlerInv, Serving, stateVars, history
<1>7. ASSUME NEW c \in Conns, Replay(c)
      PROVE  OwedInv'
  BY <1>7, RegistryAssumption DEF Replay, TypeOK, OwedInv, ReplayUnderWay, SlotInv, RegInv, HandlerInv, Serving, stateVars, history, Replayed
<1>8. ASSUME NEW c \in Conns, AckOther(c)
      PROVE  OwedInv'
  BY <1>8, RegistryAssumption DEF AckOther, TypeOK, OwedInv, ReplayUnderWay, SlotInv, RegInv, HandlerInv, Serving, stateVars, history
<1>9. ASSUME NEW c \in Conns, SendFails(c)
      PROVE  OwedInv'
  BY <1>9, RegistryAssumption DEF SendFails, TypeOK, OwedInv, ReplayUnderWay, SlotInv, RegInv, HandlerInv, Serving, stateVars, history
<1>10. ASSUME NEW c \in Conns, Eof(c)
      PROVE  OwedInv'
  BY <1>10, RegistryAssumption DEF Eof, TypeOK, OwedInv, ReplayUnderWay, SlotInv, RegInv, HandlerInv, Serving, stateVars, history
<1>11. ASSUME NEW c \in Conns, Unregister(c)
      PROVE  OwedInv'
  BY <1>11, RegistryAssumption DEF Unregister, TypeOK, OwedInv, ReplayUnderWay, SlotInv, RegInv, HandlerInv, Serving, stateVars, history, Registered
<1>12. ASSUME NEW c \in Conns, Promote(c)
      PROVE  OwedInv'
  BY <1>12, RegistryAssumption DEF Promote, TypeOK, OwedInv, ReplayUnderWay, SlotInv, RegInv, HandlerInv, Serving, stateVars, history, Replayed
<1>13. ASSUME NEW t \in Toggles, NEW i \in Ids, SetActive(t, i)
      PROVE  OwedInv'
  BY <1>13, RegistryAssumption DEF SetActive, TypeOK, OwedInv, ReplayUnderWay, SlotInv, RegInv, HandlerInv, Serving, stateVars, history, Registered
<1>14. ASSUME NEW t \in Toggles, Kicked(t)
      PROVE  OwedInv'
  BY <1>14, RegistryAssumption DEF Kicked, TypeOK, OwedInv, ReplayUnderWay, SlotInv, RegInv, HandlerInv, Serving, stateVars, history
<1>15. ASSUME NEW t \in Toggles, KickFails(t)
      PROVE  OwedInv'
  BY <1>15, RegistryAssumption DEF KickFails, TypeOK, OwedInv, ReplayUnderWay, SlotInv, RegInv, HandlerInv, Serving, stateVars, history
<1>16. ASSUME NEW t \in Toggles, Activated(t)
      PROVE  OwedInv'
  BY <1>16, RegistryAssumption DEF Activated, TypeOK, OwedInv, ReplayUnderWay, SlotInv, RegInv, HandlerInv, Serving, stateVars, history, Replayed
<1>17. ASSUME NEW c \in Conns, ReplayRaises(c)
      PROVE  OwedInv'
  BY <1>17, RegistryAssumption DEF ReplayRaises, ReplayOverflows, TypeOK, OwedInv, ReplayUnderWay, SlotInv, RegInv, HandlerInv, Serving, stateVars, history
<1>18. ASSUME NEW c \in Conns, PromoteRaises(c)
      PROVE  OwedInv'
  BY <1>18, RegistryAssumption DEF PromoteRaises, ReplayOverflows, TypeOK, OwedInv, ReplayUnderWay, SlotInv, RegInv, HandlerInv, Serving, stateVars, history
<1>19. ASSUME NEW t \in Toggles, ActivatedRaises(t)
      PROVE  OwedInv'
  BY <1>19, RegistryAssumption DEF ActivatedRaises, ReplayOverflows, TypeOK, OwedInv, ReplayUnderWay, SlotInv, RegInv, HandlerInv, Serving, stateVars, history
<1> QED
  BY <1>1, <1>2, <1>3, <1>4, <1>5, <1>6, <1>7, <1>8, <1>9, <1>10, <1>11, <1>12, <1>13, <1>14, <1>15, <1>16,
     <1>17, <1>18, <1>19 DEF Next

(***************************************************************************)
(* The theorems.                                                           *)
(***************************************************************************)

\* The invariant holds initially.
LEMMA InitInv == Init => IndInv
<1> SUFFICES ASSUME Init
             PROVE  IndInv
  OBVIOUS
<1>1. TypeOK
  BY DEF Init, TypeOK, Places
<1>2. HandlerInv /\ NoOrphan
  BY DEF Init, HandlerInv, NoOrphan, Attached, Serving
<1>3. RegInv /\ SlotInv
  BY DEF Init, RegInv, SlotInv
<1>4. ShownIsActive /\ OwedInv
  BY DEF Init, ShownIsActive, OwedInv, Registered
<1>5. ToggleInv
  BY DEF Init, ToggleInv
<1> QED
  BY <1>1, <1>2, <1>3, <1>4, <1>5 DEF IndInv

\* The invariant is kept by every step, and by stuttering.
LEMMA NextInv == IndInv /\ [Next]_vars => IndInv'
<1> SUFFICES ASSUME IndInv, [Next]_vars
             PROVE  IndInv'
  OBVIOUS
<1>1. CASE Next
  BY <1>1, TypeStep, HandlerStep, ToggleStep, RegStep, OrphanStep, SlotStep, ShownStep,
     OwedStep DEF IndInv
<1>2. CASE UNCHANGED vars
  <2>1. TypeOK'
    BY <1>2 DEF IndInv, TypeOK, vars, stateVars, history
  <2>2. HandlerInv' /\ RegInv' /\ NoOrphan' /\ ToggleInv'
    BY <1>2 DEF IndInv, HandlerInv, RegInv, NoOrphan, ToggleInv, vars, stateVars, history
  <2>3. SlotInv' /\ ShownIsActive'
    BY <1>2 DEF IndInv, SlotInv, ShownIsActive, Registered, vars, stateVars, history
  <2>4. OwedInv'
    BY <1>2 DEF IndInv, OwedInv, ReplayUnderWay, vars, stateVars, history
  <2> QED
    BY <2>1, <2>2, <2>3, <2>4 DEF IndInv
<1> QED
  BY <1>1, <1>2

\* The inductive invariant holds of every reachable state of the registry.
THEOREM RegistryInvariance == Spec => []IndInv
BY InitInv, NextInv, PTL DEF Spec

\* Every variable of the registry keeps its type.
THEOREM RegistryTypeCorrect == Spec => []TypeOK
<1>1. IndInv => TypeOK
  BY DEF IndInv
<1> QED
  BY <1>1, RegistryInvariance, PTL

\* No served Switch is ever lost from _connections (_handle_client's finally).
THEOREM NoSwitchLost == Spec => []NoOrphan
<1>1. IndInv => NoOrphan
  BY DEF IndInv
<1> QED
  BY <1>1, RegistryInvariance, PTL

\* While Switches are connected and none was refused, one of them is active.
THEOREM SlotStaysBound == Spec => []SlotBound
<1>1. IndInv => SlotBound
  <2> SUFFICES ASSUME IndInv, Registered # {}, refused = {}
               PROVE  active \in Registered
    BY DEF SlotBound
  <2>1. active # NoId
    BY DEF IndInv, SlotInv, Registered
  <2>2. active \in Ids /\ connections[active] # NoConn
    BY <2>1 DEF IndInv, SlotInv, TypeOK
  <2> QED
    BY <2>2 DEF Registered
<1> QED
  BY <1>1, RegistryInvariance, PTL

\* What BridgeState shows agrees with what the server does.
THEOREM ShownAgrees == Spec => []ShownIsActive
<1>1. IndInv => ShownIsActive
  BY DEF IndInv
<1> QED
  BY <1>1, RegistryInvariance, PTL

\* A settled active connection was sent its replay, but for the exceptions
\* ReplayedOnceActive names: a takeover, a kick that failed, a refused connection, a list
\* of checked locations longer than a line.
THEOREM ActiveWasReplayed == Spec => []ReplayedOnceActive
<1>1. IndInv => ReplayedOnceActive
  <2> SUFFICES ASSUME IndInv, Settled, refused = {}, ActiveConn \in up,
                      ActiveConn \in owed, ActiveConn \notin takeovers \cup cut \cup unsent
               PROVE  FALSE
    BY DEF ReplayedOnceActive
  <2>1. ActiveConn \in Conns /\ ReplayUnderWay(ActiveConn)
    BY DEF IndInv, OwedInv, TypeOK
  <2>2. pc[ActiveConn] # "failed"
    BY <2>1 DEF IndInv, HandlerInv
  <2> QED
    BY <2>1, <2>2 DEF ReplayUnderWay, Settled
<1> QED
  BY <1>1, RegistryInvariance, PTL

\* A connection is only ever replaced by one of the same peer.
LEMMA TakeoverStep ==
  ASSUME IndInv, [Next]_vars, NEW i \in Ids,
         connections[i] # NoConn, connections'[i] \notin {connections[i], NoConn}
  PROVE  hello[connections[i]].peer = hello[connections'[i]].peer
<1>1. PICK c \in Conns : Hello(c) /\ i = Resolve(c) /\ connections'[i] = c
  <2>1. Next
    BY DEF vars, stateVars
  <2>2. PICK c \in Conns : Hello(c) \/ Refuse(c) \/ Unregister(c)
    BY <2>1 DEF Next, Accept, PeerGone, GoneBeforeHello, AckFirst, Replay, ReplayRaises, AckOther,
       SendFails, Eof, Promote, PromoteRaises, SetActive, Kicked, KickFails, Activated,
       ActivatedRaises, stateVars
  <2>3. ~ Refuse(c)
    BY DEF Refuse, IndInv, TypeOK, stateVars
  <2>4. ~ Unregister(c)
    BY DEF Unregister, IndInv, TypeOK, stateVars
  <2>5. Hello(c)
    BY <2>2, <2>3, <2>4
  <2> QED
    BY <2>5 DEF Hello, IndInv, TypeOK
<1> DEFINE d == connections[i]
<1>2. d \in Conns /\ eff[d] = i /\ hello[d] \in Hellos
      /\ i \in {Plain(hello[d].raw), Suffix(hello[d].raw, hello[d].peer)}
  BY DEF IndInv, TypeOK, RegInv, HandlerInv, Attached, Serving
<1>3. hello[c] \in Hellos
  BY <1>1 DEF Hello, IndInv, HandlerInv
<1>4. CASE i = Plain(hello[c].raw)
  <2>1. \A p \in Peers : Plain(hello[c].raw) # Suffix(hello[c].raw, p)
    BY <1>3, IdFacts DEF Hellos
  <2>2. hello[c].peer \in Peers
    BY <1>3 DEF Hellos
  <2> QED
    BY <1>1, <1>4, <2>1, <2>2 DEF Resolve
<1>5. CASE i = Suffix(hello[c].raw, hello[c].peer)
  <2>1. i = Suffix(hello[d].raw, hello[d].peer)
    BY <1>2, <1>3, <1>5, IdFacts DEF Hellos
  <2>2. hello[d].peer = hello[c].peer
    BY <1>2, <1>3, <1>5, <2>1, IdFacts DEF Hellos
  <2> QED
    BY <1>1, <2>2
<1> QED
  BY <1>1, <1>3, <1>4, <1>5, ResolveFacts

\* Switches that announce the same id from different addresses coexist.
THEOREM TakeoverKeepsPeer == Spec => SamePeerTakeover
<1>1. IndInv /\ [Next]_vars =>
        [\A i \in Ids : LET c == connections[i]
                            d == connections'[i]
                        IN c # NoConn /\ d \notin {c, NoConn} =>
                             hello[c].peer = hello[d].peer]_vars
  BY TakeoverStep
<1> QED
  BY <1>1, RegistryInvariance, PTL DEF Spec, SamePeerTakeover

=============================================================================
