--------------------------- MODULE Console_proofs ---------------------------
(***************************************************************************)
(* Proofs about the components of the Switch and the client that           *)
(* Console.cfg runs side by side: each for any value of its constants, and *)
(* for any number of lost connections, loads, restarts and slots that its  *)
(* module has.                                                             *)
(***************************************************************************)
EXTENDS CoinGrant, ShinePaint, ScoutTables, CutsceneLabel, DetourGate, SaveSession, Entrances, Talkatoo,
        LineProtocol, FiniteSetTheorems, SequenceTheorems, WellFoundedInduction, TLAPS

(***************************************************************************)
(* CoinGrant: the sum on the way, and what has been granted of it.         *)
(***************************************************************************)

\* No sum on the way is above the most that was ever due.
CoinBound ==
  /\ due100 <= most /\ offered <= most /\ coinsApplied <= most
  /\ \A i \in 1 .. Len(coinLines) : coinLines[i] <= most
  /\ ~rejoined => due100 = most

\* What was added since the game started is the high-water mark, unless the
\* game has no addCoin; until a restart no save has more.
CoinGiven ==
  /\ given <= coinsApplied
  /\ found => given = coinsApplied
  /\ ~regranted => coinPurse <= given /\ coinSave <= given

\* The sum the worker keeps once it has read all lines.
LastSum == IF coinLines = <<>> THEN offered ELSE coinLines[Len(coinLines)]

\* On a connection, a sum that covers what is due is there or on its way.
CoinSent == coinLink /\ ~pushDue => LastSum >= due100

CoinInv == CoinTypeOK /\ CoinBound /\ CoinGiven /\ CoinSent

LEMMA EmptyNats == <<>> \in Seq(Nat) /\ Len(<<>>) = 0
  BY EmptySeq

LEMMA CoinInitial == CoinInit => CoinInv
<1> SUFFICES ASSUME CoinInit PROVE CoinInv
  OBVIOUS
<1>1. CoinTypeOK
  BY EmptyNats DEF CoinInit, CoinTypeOK
<1> QED
  BY <1>1, EmptyNats DEF CoinInit, CoinInv, CoinBound, CoinGiven, CoinSent

\* A batch of items: the push that it owes makes CoinSent hold.
LEMMA ItemsArriveInv == ASSUME CoinInv, NEW n \in 1 .. MaxCoins, ItemsArrive(n) PROVE CoinInv'
<1> USE CoinGrantAssumption DEF CoinInv
<1>1. CoinTypeOK'
  BY DEF CoinTypeOK, ItemsArrive, TotalWith, lineCoins, gameCoins
<1>2. CoinBound'
  BY DEF CoinTypeOK, CoinBound, ItemsArrive, TotalWith, lineCoins, gameCoins
<1>3. CoinGiven' /\ CoinSent'
  BY DEF CoinGiven, CoinSent, ItemsArrive, gameCoins
<1> QED
  BY <1>1, <1>2, <1>3

\* The newest sum goes behind all others.
LEMMA PushInv == ASSUME CoinInv, PushCoinGrant PROVE CoinInv'
<1> USE DEF CoinInv
<1> USE DEF PushCoinGrant, gameCoins, coinMarks
<1>1. CoinTypeOK'
  BY AppendProperties DEF CoinTypeOK
<1>2. CASE coinLink /\ due100 > 0
  <2>1. /\ coinLines \in Seq(Nat) /\ due100 \in Nat
        /\ coinLines' = Append(coinLines, due100)
    BY <1>2 DEF CoinTypeOK
  <2>2. /\ Len(coinLines') = Len(coinLines) + 1 /\ coinLines'[Len(coinLines')] = due100
        /\ \A i \in 1 .. Len(coinLines) : coinLines'[i] = coinLines[i]
        /\ coinLines' # <<>>
    BY <2>1
  <2>3. CoinBound'
    BY <2>1, <2>2 DEF CoinBound, CoinTypeOK
  <2>4. CoinGiven' /\ CoinSent'
    BY <2>1, <2>2 DEF CoinGiven, CoinSent, LastSum
  <2> QED
    BY <1>1, <2>3, <2>4
<1>3. CASE ~(coinLink /\ due100 > 0)
  <2>1. coinLines' = coinLines
    BY <1>3
  <2>2. LastSum >= 0
    <3>1. coinLines # <<>> => Len(coinLines) \in 1 .. Len(coinLines)
      BY EmptySeq, LenProperties DEF CoinTypeOK
    <3> QED
      BY <3>1 DEF CoinTypeOK, LastSum
  <2>3. CoinBound' /\ CoinGiven'
    BY <2>1 DEF CoinBound, CoinGiven
  <2>4. CoinSent'
    BY <1>3, <2>1, <2>2 DEF CoinSent, LastSum, CoinTypeOK
  <2> QED
    BY <1>1, <2>3, <2>4
<1> QED
  BY <1>2, <1>3

\* The worker takes the oldest sum; the last one stays the last.
LEMMA StoreInv == ASSUME CoinInv, StoreGrant PROVE CoinInv'
<1> USE DEF CoinInv
<1> USE DEF StoreGrant, pcCoins, coinMarks
<1>1. /\ coinLines \in Seq(Nat) /\ coinLines # <<>>
      /\ Head(coinLines) = coinLines[1] /\ Head(coinLines) \in Nat
      /\ Tail(coinLines) \in Seq(Nat) /\ Len(Tail(coinLines)) = Len(coinLines) - 1
      /\ \A i \in 1 .. Len(Tail(coinLines)) : Tail(coinLines)[i] = coinLines[i + 1]
      /\ Len(coinLines) \in Nat \ {0}
  BY HeadTailProperties, EmptySeq, LenProperties DEF CoinTypeOK
<1>2. CoinTypeOK'
  BY <1>1 DEF CoinTypeOK
<1>3. CoinBound'
  BY <1>1 DEF CoinBound, CoinTypeOK
<1>4. LastSum' = LastSum
  <2>1. CASE Len(coinLines) = 1
    BY <1>1, <2>1 DEF LastSum
  <2>2. CASE Len(coinLines) # 1
    <3>1. /\ Len(Tail(coinLines)) \in 1 .. Len(Tail(coinLines))
          /\ Len(Tail(coinLines)) + 1 = Len(coinLines)
      BY <1>1, <2>2
    <3>2. Tail(coinLines) # <<>>
      BY <3>1, EmptyNats
    <3>3. Tail(coinLines)[Len(Tail(coinLines))] = coinLines[Len(coinLines)]
      BY <1>1, <3>1
    <3> QED
      BY <1>1, <3>2, <3>3 DEF LastSum
  <2> QED
    BY <2>1, <2>2
<1>5. CoinGiven' /\ CoinSent'
  BY <1>4 DEF CoinGiven, CoinSent
<1> QED
  BY <1>2, <1>3, <1>5

\* Only what is above the mark is added, so the mark and what was added rise alike.
LEMMA ApplyInv == ASSUME CoinInv, ApplyCoinGrant PROVE CoinInv'
<1> USE DEF CoinInv
<1> USE DEF ApplyCoinGrant, AddCoins, pcCoins, lineCoins
<1>1. offered - coinsApplied \in Nat
  BY DEF CoinTypeOK
<1>2. CoinTypeOK'
  BY <1>1 DEF CoinTypeOK
<1>3. CoinBound' /\ CoinSent'
  BY DEF CoinBound, CoinSent, LastSum, CoinTypeOK
<1>4. CoinGiven'
  BY <1>1 DEF CoinGiven, CoinTypeOK
<1> QED
  BY <1>2, <1>3, <1>4

\* The steps that leave the sums alone, or forget them.
LEMMA OtherCoinInv ==
  ASSUME CoinInv,
         \/ JoinOtherSlot \/ CacheHolder \/ SaveCoins \/ LoadCoins \/ CoinHello \/ CoinLinkLost
         \/ CoinRestart \/ UNCHANGED coinVars
  PROVE  CoinInv'
<1> USE DEF CoinInv
<1> USE DEF pcCoins, lineCoins, gameCoins, coinMarks
<1>1. CASE JoinOtherSlot
  <2>1. LastSum' = LastSum /\ due100' <= due100 /\ due100' \in Nat
    BY <1>1 DEF JoinOtherSlot, LastSum, CoinTypeOK
  <2>2. CoinTypeOK'
    BY <1>1, <2>1 DEF JoinOtherSlot, CoinTypeOK, Jolt
  <2>3. CoinBound' /\ CoinGiven'
    BY <1>1, <2>1 DEF JoinOtherSlot, CoinBound, CoinGiven, CoinTypeOK
  <2>4. LastSum \in Nat
    <3>1. coinLines # <<>> => Len(coinLines) \in 1 .. Len(coinLines)
      BY EmptySeq, LenProperties DEF CoinTypeOK
    <3> QED
      BY <3>1 DEF CoinTypeOK, LastSum
  <2>5. CoinSent'
    BY <1>1, <2>1, <2>4 DEF JoinOtherSlot, CoinSent, CoinTypeOK
  <2> QED
    BY <2>2, <2>3, <2>5
<1>2. CASE CacheHolder
  BY <1>2 DEF CacheHolder, CoinTypeOK, CoinBound, CoinGiven, CoinSent, LastSum
<1>3. CASE SaveCoins
  BY <1>3 DEF SaveCoins, CoinTypeOK, CoinBound, CoinGiven, CoinSent, LastSum
<1>4. CASE LoadCoins
  BY <1>4 DEF LoadCoins, CoinTypeOK, CoinBound, CoinGiven, CoinSent, LastSum, Jolt
<1>5. CASE CoinHello
  BY <1>5 DEF CoinHello, CoinTypeOK, CoinBound, CoinGiven, CoinSent
<1>6. CASE CoinLinkLost
  <2>1. CoinTypeOK'
    <3>1. coinLines' \in Seq(Nat)
      BY <1>6, EmptyNats, ZenonT(60) DEF CoinLinkLost
    <3>2. jolts' \in Nat
      BY <1>6 DEF CoinLinkLost, Jolt, CoinTypeOK
    <3> QED
      BY <1>6, <3>1, <3>2 DEF CoinLinkLost, CoinTypeOK
  <2>2. CoinBound'
    <3>1. Len(coinLines') = 0
      BY <1>6, EmptyNats DEF CoinLinkLost
    <3>2. ~(\E i \in 1 .. Len(coinLines') : TRUE)
      BY <3>1
    <3>3. /\ due100' <= most' /\ offered' <= most' /\ coinsApplied' <= most'
          /\ ~rejoined' => due100' = most'
      BY <1>6 DEF CoinLinkLost, CoinBound, CoinTypeOK
    <3> QED
      BY <3>2, <3>3 DEF CoinBound
  <2>3. CoinGiven' /\ CoinSent'
    BY <1>6 DEF CoinLinkLost, CoinGiven, CoinSent, CoinTypeOK
  <2> QED
    BY <2>1, <2>2, <2>3
<1>7. CASE CoinRestart
  <2>1. CoinTypeOK'
    <3>1. coinLines' \in Seq(Nat)
      BY <1>7, EmptyNats, ZenonT(60) DEF CoinRestart
    <3>2. jolts' \in Nat
      BY <1>7 DEF CoinRestart, Jolt, CoinTypeOK
    <3> QED
      BY <1>7, <3>1, <3>2 DEF CoinRestart, CoinTypeOK
  <2>2. CoinBound'
    <3>1. Len(coinLines') = 0
      BY <1>7, EmptyNats DEF CoinRestart
    <3>2. ~(\E i \in 1 .. Len(coinLines') : TRUE)
      BY <3>1
    <3>3. /\ due100' <= most' /\ offered' <= most' /\ coinsApplied' <= most'
          /\ ~rejoined' => due100' = most'
      BY <1>7 DEF CoinRestart, CoinBound, CoinTypeOK
    <3> QED
      BY <3>2, <3>3 DEF CoinBound
  <2>3. CoinGiven' /\ CoinSent'
    BY <1>7 DEF CoinRestart, CoinGiven, CoinSent, CoinTypeOK
  <2> QED
    BY <2>1, <2>2, <2>3
<1>8. CASE UNCHANGED coinVars
  BY <1>8 DEF coinVars, CoinTypeOK, CoinBound, CoinGiven, CoinSent, LastSum
<1> QED
  BY <1>1, <1>2, <1>3, <1>4, <1>5, <1>6, <1>7, <1>8

\* The inductive invariant of the coins holds in every reachable state.
THEOREM CoinInvariance == CoinSpec => []CoinInv
<1>1. CoinInv /\ [CoinNext]_coinVars => CoinInv'
  BY ItemsArriveInv, PushInv, StoreInv, ApplyInv, OtherCoinInv DEF CoinNext
<1> QED
  BY CoinInitial, <1>1, PTL DEF CoinSpec

\* No sum is granted twice between two starts of the game, and once all is sent and
\* read, all that is due has been granted (ApState.cpp, applyCoinGrant).
THEOREM CoinsGrantedOnce == CoinSpec => []CoinsOnce
<1>1. CoinInv => CoinsOnce
  <2> SUFFICES ASSUME CoinInv PROVE CoinsOnce
    OBVIOUS
  <2> USE DEF CoinInv
  <2>1. given <= most
    BY DEF CoinTypeOK, CoinBound, CoinGiven
  <2>2. ~regranted => coinPurse <= most
    BY <2>1 DEF CoinTypeOK, CoinGiven
  <2>3. ASSUME coinLink, ~pushDue, coinLines = <<>>, offered <= coinsApplied, found
        PROVE  IF rejoined THEN given >= due100 ELSE given = due100
    <3>1. offered >= due100 /\ given = coinsApplied
      BY <2>3 DEF CoinSent, LastSum, CoinGiven
    <3>2. given >= due100
      BY <2>3, <3>1 DEF CoinTypeOK
    <3> QED
      BY <2>1, <3>2 DEF CoinTypeOK, CoinBound
  <2> QED
    BY <2>1, <2>2, <2>3 DEF CoinsOnce
<1> QED
  BY <1>1, CoinInvariance, PTL

(***************************************************************************)
(* ShinePaint: the tint a moon may have before it is painted.              *)
(***************************************************************************)

\* PaintHolds, and what it rests on: a moon that was not soiled has no tint but its own.
PaintInv ==
  /\ PaintTypeOK /\ PaintHolds
  /\ ~soiled => tint \in {NoPalette, palette}

\* What a hook makes of animation a and tint t of a model of build b: it types, and it
\* writes nothing the model does not have.
Looks(b, a, t, look) ==
  /\ look[1] \in {Gold} \cup Palettes /\ look[2] \in {NoPalette} \cup Palettes
  /\ "anim" \notin b => look[1] = a
  /\ "material" \notin b => look[2] = t

\* Painting with the moon's own colour c shows it, where there is a model with its
\* material: as the frame of the animation, under whatever tint there was, or as the tint.
LEMMA PaintedShows ==
  ASSUME NEW b \in Builds, NEW a \in {Gold} \cup Palettes, NEW t \in {NoPalette} \cup Palettes,
         NEW c \in {NoPalette} \cup Palettes
  PROVE  /\ Looks(b, a, t, Painted(b, a, t, c))
         /\ Painted(b, a, t, c)[2] \in {t, c}
         /\ c # NoPalette /\ {"model", "material"} \subseteq b =>
              \/ "anim" \in b /\ c \in Frames /\ Painted(b, a, t, c) = <<c, t>>
              \/ Painted(b, a, t, c) = <<a, c>>
<1>1. CASE c = NoPalette \/ ~({"model", "material"} \subseteq b)
  <2>1. Painted(b, a, t, c) = <<a, t>>
    BY <1>1, ShinePaintAssumption DEF Painted, HasFrame, Palettes
  <2> QED
    BY <1>1, <2>1 DEF Looks
<1>2. CASE ~(c = NoPalette \/ ~({"model", "material"} \subseteq b)) /\ HasFrame(b, c)
  <2>1. Painted(b, a, t, c) = <<c, t>>
    BY <1>2 DEF Painted
  <2> QED
    BY <1>2, <2>1 DEF Looks, HasFrame
<1>3. CASE ~(c = NoPalette \/ ~({"model", "material"} \subseteq b)) /\ ~HasFrame(b, c)
  <2>1. Painted(b, a, t, c) = <<a, c>>
    BY <1>3 DEF Painted
  <2> QED
    BY <1>3, <2>1 DEF Looks
<1> QED
  BY <1>1, <1>2, <1>3

\* Where vanilla, or Shine::init, drives an animation that is there to frame f.
LEMMA DrivenLooks ==
  ASSUME PaintTypeOK, NEW b, "anim" \in b, NEW a, NEW t \in {NoPalette} \cup Palettes,
         NEW f \in {Gold} \cup Palettes
  PROVE  Looks(b, a, t, Driven(b, t, f))
<1> DEFINE c == DriveColor
<1>1. c \in {NoPalette} \cup Palettes
  BY DEF PaintTypeOK, DriveColor, DemoColor
<1>2. CASE c \in Frames
  <2>1. Driven(b, t, f) = <<c, t>>
    BY <1>2, ShinePaintAssumption DEF Driven
  <2> QED
    BY <1>1, <1>2, <2>1 DEF Looks, Palettes
<1>3. CASE c \in Tints
  <2>1. c \notin Frames
    BY <1>3, ShinePaintAssumption
  <2>2. Driven(b, t, f) = <<f, Tinted(b, t, c)>>
    BY <1>3, <2>1 DEF Driven
  <2> QED
    BY <1>3, <2>2 DEF Looks, Tinted, Palettes
<1>4. CASE c \notin Frames /\ c \notin Tints
  <2>1. Driven(b, t, f) = <<f, t>>
    BY <1>4 DEF Driven
  <2> QED
    BY <2>1 DEF Looks
<1> QED
  BY <1>2, <1>3, <1>4

LEMMA PaintInitial == PaintInit => PaintInv
  BY ShinePaintAssumption DEF PaintInit, PaintInv, PaintTypeOK, PaintHolds, Palettes, Builds

LEMMA InitShineInv == ASSUME PaintInv, InitShine PROVE PaintInv'
<1> DEFINE b == build'
           q == Made(b, palette)
<1>1. b \in Builds /\ palette \in {NoPalette} \cup Palettes /\ PaintTypeOK
  BY DEF InitShine, PaintInv, PaintTypeOK
<1>2. Looks(b, Gold, NoPalette, q)
  <2>1. CASE palette = NoPalette \/ b = {}
    <3>1. q = <<Gold, NoPalette>>
      BY <2>1 DEF Made
    <3> QED
      BY <3>1 DEF Looks
  <2>2. CASE ~(palette = NoPalette \/ b = {}) /\ HasFrame(b, palette)
    <3>1. q = Driven(b, NoPalette, palette)
      BY <2>2 DEF Made
    <3>2. "anim" \in b /\ palette \in {Gold} \cup Palettes
      BY <1>1, <2>2 DEF HasFrame
    <3> QED
      BY <1>1, <3>1, <3>2, DrivenLooks
  <2>3. CASE ~(palette = NoPalette \/ b = {}) /\ ~HasFrame(b, palette)
    <3>1. q = <<Gold, Tinted(b, NoPalette, palette)>>
      BY <2>3 DEF Made
    <3> QED
      BY <1>1, <3>1 DEF Looks, Tinted
  <2> QED
    BY <2>1, <2>2, <2>3
<1>3. /\ anim' = q[1] /\ tint' = q[2]
      /\ crashed' = \/ crashed
                    \/ q[1] # Gold /\ "anim" \notin b
                    \/ q[2] # NoPalette /\ "material" \notin b
      /\ ticked' = FALSE /\ soiled' = (tint' \notin {NoPalette, palette})
      /\ UNCHANGED <<palette, latched, recentGet>>
  BY DEF InitShine, Shows
<1>4. ~crashed' /\ anim' \in {Gold} \cup Palettes /\ tint' \in {NoPalette} \cup Palettes
  BY <1>2, <1>3 DEF Looks, PaintInv, PaintHolds
<1> HIDE DEF q
<1> QED
  BY <1>1, <1>3, <1>4 DEF PaintInv, PaintTypeOK, PaintHolds

\* What the next frame does, whatever was shown before.
LEMMA ControlInv == ASSUME PaintInv, Control PROVE PaintInv'
<1> DEFINE q == Painted(build, anim, tint, palette)
<1> USE ShinePaintAssumption
<1>1. /\ build \in Builds /\ palette \in {NoPalette} \cup Palettes /\ anim \in {Gold} \cup Palettes
      /\ tint \in {NoPalette} \cup Palettes
  BY DEF PaintInv, PaintTypeOK
<1>2. /\ Looks(build, anim, tint, q)
      /\ q[2] \in {tint, palette}
      /\ palette # NoPalette /\ {"model", "material"} \subseteq build =>
           \/ "anim" \in build /\ palette \in Frames /\ q = <<palette, tint>>
           \/ q = <<anim, palette>>
  BY <1>1, PaintedShows
<1>3. /\ anim' = q[1] /\ tint' = q[2]
      /\ crashed' = \/ crashed
                    \/ q[1] # anim /\ "anim" \notin build
                    \/ q[2] # tint /\ "material" \notin build
      /\ ticked' = TRUE /\ UNCHANGED <<palette, build, latched, recentGet, soiled>>
  BY DEF Control, Shows
<1> HIDE DEF q
<1>4. PaintTypeOK' /\ ~crashed'
  BY <1>1, <1>2, <1>3 DEF PaintInv, PaintTypeOK, PaintHolds, Looks
<1>5. ~soiled' => tint' \in {NoPalette, palette'}
  BY <1>2, <1>3 DEF PaintInv
<1>6. CASE "anim" \in build /\ palette \in Frames /\ q = <<palette, tint>>
  BY <1>3, <1>4, <1>5, <1>6 DEF PaintInv, PaintHolds, Look
<1>7. CASE q = <<anim, palette>>
  BY <1>3, <1>4, <1>5, <1>7 DEF PaintInv, PaintHolds, Look
<1>8. CASE palette = NoPalette \/ ~({"model", "material"} \subseteq build)
  BY <1>3, <1>4, <1>5, <1>8 DEF PaintInv, PaintHolds
<1> QED
  BY <1>2, <1>6, <1>7, <1>8

\* A step of vanilla soils the moon when it tints it with another colour.
LEMMA DriveAnimInv == ASSUME PaintInv, DriveAnim PROVE PaintInv'
<1> DEFINE q == Driven(build, tint, Gold)
<1>1. Looks(build, anim, tint, q)
  <2>1. "anim" \in build /\ PaintTypeOK /\ tint \in {NoPalette} \cup Palettes
    BY DEF PaintInv, PaintTypeOK, DriveAnim
  <2> QED
    BY <2>1, DrivenLooks
<1>2. /\ anim' = q[1] /\ tint' = q[2]
      /\ crashed' = \/ crashed
                    \/ q[1] # anim /\ "anim" \notin build
                    \/ q[2] # tint /\ "material" \notin build
      /\ ticked' = FALSE /\ soiled' = (soiled \/ tint' \notin {NoPalette, palette})
      /\ UNCHANGED <<palette, build, latched, recentGet>>
  BY DEF DriveAnim, Shows
<1> HIDE DEF q
<1> QED
  BY <1>1, <1>2 DEF PaintInv, PaintTypeOK, PaintHolds, Looks

LEMMA PaintStep == ASSUME PaintInv, [PaintNext]_paintVars PROVE PaintInv'
<1>1. CASE InitShine
  BY <1>1, InitShineInv
<1>2. CASE LearnColor
  BY <1>2 DEF LearnColor, PaintInv, PaintTypeOK, PaintHolds
<1>3. CASE ShowModel
  BY <1>3 DEF ShowModel, PaintInv, PaintTypeOK, PaintHolds, Look
<1>4. CASE StampGet
  BY <1>4 DEF StampGet, PaintInv, PaintTypeOK, PaintHolds, Look
<1>5. CASE WindowsEnd
  BY <1>5 DEF WindowsEnd, PaintInv, PaintTypeOK, PaintHolds, Look
<1>6. CASE DriveAnim
  BY <1>6, DriveAnimInv
<1>7. CASE Control
  BY <1>7, ControlInv
<1>8. CASE UNCHANGED paintVars
  BY <1>8 DEF paintVars, PaintInv, PaintTypeOK, PaintHolds, Look
<1> QED
  BY <1>1, <1>2, <1>3, <1>4, <1>5, <1>6, <1>7, <1>8 DEF PaintNext

\* However a moon is made, driven and collected around, the next frame shows one with
\* the body material in its colour, and no animation is played and no material written
\* that is not there (ShineAppearanceHook.cpp).
THEOREM MoonsKeepTheirColour == PaintSpec => []PaintHolds
<1>1. PaintInv => PaintHolds
  BY DEF PaintInv
<1> QED
  BY PaintInitial, PaintStep, <1>1, PTL DEF PaintSpec

(***************************************************************************)
(* ScoutTables: what the cache, the stash and the Switch have of one       *)
(* another, and what is on its way.                                        *)
(***************************************************************************)

\* Before the first Connected, and while its handler runs, nothing is asked for.
ScoutOrder ==
  /\ signature = shopStash
  /\ tenant # Nobody => shopStash # Unset
  /\ tenant = Nobody => ~warming /\ cache = Blank /\ tints = Blank
  /\ tenant = Nobody \/ warming => asked = {}
  /\ tenant # Nobody => asked \subseteq Holds[tenant]
  /\ \A c \in Painters : errand[c] = "none" => load[c] = Blank

\* The cache has what was asked for and answered, and no more.
CacheFilled ==
  tenant # Nobody /\ ~warming =>
    \A m \in Shines : cache[m] = IF m \in Holds[tenant] \ asked THEN tenant ELSE Nobody

\* A batch has yet to derive the labels.
Batching == \E c \in Painters : errand[c] = "batch"

\* The labels are those of the cache, unless a batch has yet to derive them.
ShopFollows ==
  /\ tenant # Nobody /\ ~warming => asked # {} \/ Batching \/ shopStash = ShopEntries
  /\ plugged /\ ~helloDue /\ shopStash # Unset => shopLabels = shopStash

\* A colour of moon m has yet to be sent.
OnItsWay(m) == \E c \in Painters : load[c][m] # Nobody

\* So are the colours; none is of another slot.
TintsFollow ==
  /\ ~warming => \A m \in Shines : cache[m] # Nobody => tints[m] = tenant
  /\ ~tangled => \A m \in Shines :
       tints[m] \in {Nobody, tenant} /\ \A c \in Painters : load[c][m] \in {Nobody, tenant}

\* The Switch has every colour, or a push on its way does.
PaletteFollows ==
  plugged /\ ~helloDue /\ ~tangled =>
    \A m \in Shines : tints[m] # Nobody => shinePalette[m] = tenant \/ OnItsWay(m)

ScoutInv == ScoutTypeOK /\ ScoutOrder /\ CacheFilled /\ ShopFollows /\ TintsFollow /\ PaletteFollows

LEMMA BlankType == Blank \in Column /\ Blank # Unset /\ \A m \in Shines : Blank[m] = Nobody
  BY ScoutTablesAssumption DEF Blank, Column

LEMMA EntriesType ==
  ASSUME cache \in Column
  PROVE  /\ ShopEntries \in Column /\ ShopEntries # Unset
         /\ \A m \in ShopShines : ShopEntries[m] = cache[m]
         /\ \A m \in Shines \ ShopShines : ShopEntries[m] = Nobody
<1>1. ShopEntries \in Column
  BY DEF ShopEntries, ShopLabel, Column
<1>2. ShopEntries # Unset
  BY <1>1, ScoutTablesAssumption DEF Column
<1> QED
  BY <1>1, <1>2, ScoutTablesAssumption DEF ShopEntries, ShopLabel

\* Deriving leaves the stash with the entries and, when a Switch is connected that has
\* the stash, the Switch with them too.
LEMMA Derived ==
  ASSUME ScoutInv, DeriveShop(ShopEntries)
  PROVE  /\ signature' = shopStash' /\ shopStash' = ShopEntries /\ shopStash' # Unset
         /\ shopStash' \in Column /\ shopLabels' \in Column
         /\ plugged /\ ~helloDue => shopLabels' = shopStash'
<1>1. /\ cache \in Column /\ shopLabels \in Column /\ signature = shopStash
      /\ plugged /\ ~helloDue /\ shopStash # Unset => shopLabels = shopStash
  BY DEF ScoutInv, ScoutTypeOK, ScoutOrder, ShopFollows
<1>2. ShopEntries \in Column /\ ShopEntries # Unset
  BY <1>1, EntriesType
<1>3. CASE ShopEntries = signature
  BY <1>1, <1>2, <1>3 DEF DeriveShop
<1>4. CASE ShopEntries # signature
  BY <1>1, <1>2, <1>4 DEF DeriveShop
<1> QED
  BY <1>3, <1>4

LEMMA ScoutInitial == ScoutInit => ScoutInv
<1> SUFFICES ASSUME ScoutInit PROVE ScoutInv
  OBVIOUS
<1>1. ScoutTypeOK
  BY BlankType DEF ScoutInit, ScoutTypeOK
<1>2. ScoutOrder
  BY DEF ScoutInit, ScoutOrder
<1>3. CacheFilled /\ ShopFollows /\ PaletteFollows
  BY DEF ScoutInit, CacheFilled, ShopFollows, PaletteFollows
<1>4. TintsFollow
  BY BlankType DEF ScoutInit, TintsFollow
<1> QED
  BY <1>1, <1>2, <1>3, <1>4 DEF ScoutInv

\* Connected: the labels of what is still in the cache; the colours of another slot go.
LEMMA ConnectInv == ASSUME ScoutInv, NEW s \in Players, Connect(s) PROVE ScoutInv'
<1>1. /\ signature' = shopStash' /\ shopStash' # Unset
      /\ shopStash' \in Column /\ shopLabels' \in Column
      /\ plugged /\ ~helloDue => shopLabels' = shopStash'
  BY Derived DEF Connect
<1>2. /\ tenant' = s /\ warming' = TRUE /\ asked' = {} /\ s # Nobody
      /\ UNCHANGED <<cache, errand, load, helloDue, plugged, shinePalette>>
  BY ScoutTablesAssumption DEF Connect
<1>3. /\ tints' \in {tints, Blank} /\ turns' \in {turns, turns + 1}
      /\ tangled' \in BOOLEAN
  BY DEF Connect, Turn, ScoutInv, ScoutTypeOK
<1>4. ScoutTypeOK'
  <2>1. tenant' \in Players \cup {Nobody} /\ asked' \subseteq Shines /\ turns' \in Nat
    BY <1>2, <1>3 DEF ScoutInv, ScoutTypeOK
  <2>2. {cache', tints', shinePalette', shopLabels'} \subseteq Column
    BY <1>1, <1>2, <1>3, BlankType DEF ScoutInv, ScoutTypeOK
  <2>3. /\ {shopStash', signature'} \subseteq Column \cup {Unset}
        /\ {warming', helloDue', plugged', tangled'} \subseteq BOOLEAN
    BY <1>1, <1>2, <1>3 DEF ScoutInv, ScoutTypeOK
  <2>4. errand' \in [Painters -> {"none", "batch", "replay"}] /\ load' \in [Painters -> Column]
    BY <1>2 DEF ScoutInv, ScoutTypeOK
  <2> QED
    BY <2>1, <2>2, <2>3, <2>4 DEF ScoutTypeOK, Column
<1>5. ScoutOrder'
  BY <1>1, <1>2 DEF ScoutInv, ScoutOrder, Blank
<1>6. CacheFilled' /\ ShopFollows'
  BY <1>1, <1>2 DEF CacheFilled, ShopFollows
<1>7. CASE tangled'
  BY <1>2, <1>4, <1>5, <1>6, <1>7 DEF ScoutInv, TintsFollow, PaletteFollows
<1>8. CASE tenant = s /\ ~tangled'
  <2>1. tints' = tints /\ ~tangled
    BY <1>8 DEF Connect
  <2>2. TintsFollow' /\ PaletteFollows'
    BY <1>2, <1>8, <2>1 DEF ScoutInv, TintsFollow, PaletteFollows, OnItsWay
  <2> QED
    BY <1>4, <1>5, <1>6, <2>2 DEF ScoutInv
<1>9. CASE tenant # s /\ ~tangled'
  <2>1. ~tangled /\ tints' = Blank
    <3>1. CASE tenant = Nobody
      BY <1>9, <3>1 DEF Connect, ScoutInv, ScoutOrder
    <3>2. CASE tenant # Nobody
      BY <1>9, <3>2 DEF Connect
    <3> QED
      BY <3>1, <3>2
  <2>2. \A c \in Painters, m \in Shines : load[c][m] = Nobody
    <3>1. CASE tenant = Nobody
      BY <2>1, <3>1 DEF ScoutInv, TintsFollow
    <3>2. CASE tenant # Nobody
      <4>1. Running = {}
        BY <1>9, <3>2 DEF Connect
      <4>2. \A c \in Painters : errand[c] = "none"
        BY <4>1 DEF Running
      <4>3. \A c \in Painters : load[c] = Blank
        BY <4>2 DEF ScoutInv, ScoutOrder
      <4> QED
        BY <4>3, BlankType
    <3> QED
      BY <3>1, <3>2
  <2>3. TintsFollow' /\ PaletteFollows'
    BY <1>2, <2>1, <2>2, BlankType DEF TintsFollow, PaletteFollows, Blank
  <2> QED
    BY <1>4, <1>5, <1>6, <2>3 DEF ScoutInv
<1> QED
  BY <1>7, <1>8, <1>9

\* The end of its handler: an empty cache, and every location of the slot to ask for.
LEMMA WarmInv == ASSUME ScoutInv, Warm PROVE ScoutInv'
<1>1. /\ warming /\ warming' = FALSE /\ cache' = Blank /\ asked' = RequestScout(Blank)
      /\ UNCHANGED <<tenant, tints, shopStash, signature, errand, load, helloDue, plugged,
                     shinePalette, shopLabels, tangled, turns>>
  BY DEF Warm
<1>2. tenant # Nobody /\ tenant \in Players
  BY <1>1 DEF ScoutInv, ScoutOrder, ScoutTypeOK
<1>3. asked' = Holds[tenant] /\ Holds[tenant] # {} /\ Holds[tenant] \subseteq Shines
  BY <1>1, <1>2, BlankType, ScoutTablesAssumption DEF RequestScout
<1>4. ScoutTypeOK'
  BY <1>1, <1>3, BlankType DEF ScoutInv, ScoutTypeOK, Column
<1>5. ScoutOrder'
  BY <1>1, <1>2, <1>3 DEF ScoutInv, ScoutOrder, Blank
<1>6. CacheFilled' /\ ShopFollows'
  BY <1>1, <1>2, <1>3, BlankType DEF ScoutInv, CacheFilled, ShopFollows
<1>7. TintsFollow'
  BY <1>1, BlankType DEF ScoutInv, TintsFollow
<1>8. PaletteFollows'
  BY <1>1 DEF ScoutInv, PaletteFollows, OnItsWay
<1> QED
  BY <1>4, <1>5, <1>6, <1>7, <1>8 DEF ScoutInv

LEMMA MergedType ==
  ASSUME NEW column \in Column, NEW batch \in SUBSET Shines, tenant \in Players
  PROVE  /\ Merged(column, batch) \in Column
         /\ \A m \in batch : Merged(column, batch)[m] = tenant
         /\ \A m \in Shines \ batch : Merged(column, batch)[m] = column[m]
  BY DEF Merged, Column

\* LocationInfo.
LEMMA AbsorbInv ==
  ASSUME ScoutInv, NEW c \in Painters, NEW batch \in SUBSET Shines, Absorb(c, batch)
  PROVE  ScoutInv'
<1>1. /\ errand[c] = "none" /\ batch # {} /\ batch \subseteq asked /\ asked' = asked \ batch
      /\ cache' = Merged(cache, batch) /\ tints' = Merged(tints, batch)
      /\ errand' = [errand EXCEPT ![c] = "batch"]
      /\ load' = [load EXCEPT ![c] = Merged(Blank, batch)]
      /\ UNCHANGED <<tenant, warming, shopStash, signature, helloDue, plugged, shinePalette,
                     shopLabels, tangled, turns>>
  BY DEF Absorb
<1>2. tenant # Nobody /\ tenant \in Players /\ ~warming
  BY <1>1 DEF ScoutInv, ScoutOrder, ScoutTypeOK
<1>3. /\ cache \in Column /\ tints \in Column /\ Blank \in Column
      /\ errand \in [Painters -> {"none", "batch", "replay"}] /\ load \in [Painters -> Column]
      /\ batch \subseteq Holds[tenant]
  BY <1>1, <1>2, BlankType DEF ScoutInv, ScoutTypeOK, ScoutOrder
<1>4. /\ cache' \in Column /\ \A m \in batch : cache'[m] = tenant
      /\ \A m \in Shines \ batch : cache'[m] = cache[m]
  BY <1>1, <1>2, <1>3, MergedType
<1>5. /\ tints' \in Column /\ \A m \in batch : tints'[m] = tenant
      /\ \A m \in Shines \ batch : tints'[m] = tints[m]
  BY <1>1, <1>2, <1>3, MergedType
<1>6. /\ Merged(Blank, batch) \in Column /\ \A m \in batch : Merged(Blank, batch)[m] = tenant
      /\ \A m \in Shines \ batch : Merged(Blank, batch)[m] = Nobody
  BY <1>2, <1>3, MergedType, BlankType
<1>7. /\ load' \in [Painters -> Column] /\ errand' \in [Painters -> {"none", "batch", "replay"}]
      /\ load'[c] = Merged(Blank, batch) /\ errand'[c] = "batch"
      /\ \A d \in Painters \ {c} : load'[d] = load[d] /\ errand'[d] = errand[d]
  BY <1>1, <1>3, <1>6
<1>8. ScoutTypeOK'
  BY <1>1, <1>4, <1>5, <1>7 DEF ScoutInv, ScoutTypeOK, Column
<1>9. ScoutOrder'
  BY <1>1, <1>2, <1>7 DEF ScoutInv, ScoutOrder, Blank
<1>10. CacheFilled'
  BY <1>1, <1>2, <1>3, <1>4 DEF ScoutInv, CacheFilled
<1>11. ShopFollows'
  BY <1>1, <1>7 DEF ScoutInv, ShopFollows, Batching
<1>12. TintsFollow'
  <2>1. \A m \in Shines : cache'[m] # Nobody => tints'[m] = tenant
    BY <1>2, <1>4, <1>5 DEF ScoutInv, TintsFollow
  <2>2. ASSUME ~tangled, NEW m \in Shines
        PROVE  tints'[m] \in {Nobody, tenant} /\ \A d \in Painters : load'[d][m] \in {Nobody, tenant}
    BY <1>5, <1>6, <1>7, <2>2 DEF ScoutInv, TintsFollow
  <2> QED
    BY <1>1, <2>1, <2>2 DEF TintsFollow
<1>13. PaletteFollows'
  <2> SUFFICES ASSUME plugged, ~helloDue, ~tangled, NEW m \in Shines, tints'[m] # Nobody
               PROVE  shinePalette[m] = tenant \/ OnItsWay(m)'
    BY <1>1 DEF PaletteFollows
  <2>1. CASE m \in batch
    BY <1>2, <1>6, <1>7, <2>1 DEF OnItsWay
  <2>2. CASE m \notin batch /\ shinePalette[m] = tenant
    BY <2>2
  <2>3. CASE m \notin batch /\ shinePalette[m] # tenant
    <3>1. OnItsWay(m)
      BY <1>5, <2>3 DEF ScoutInv, PaletteFollows
    <3>2. PICK d \in Painters : load[d][m] # Nobody
      BY <3>1 DEF OnItsWay
    <3>3. d # c
      BY <1>1, <3>2, BlankType DEF ScoutInv, ScoutOrder
    <3> QED
      BY <1>7, <3>2, <3>3 DEF OnItsWay
  <2> QED
    BY <2>1, <2>2, <2>3
<1> QED
  BY <1>8, <1>9, <1>10, <1>11, <1>12, <1>13 DEF ScoutInv

\* One chunk: the colour is on the Switch, or there is no Switch to have it.
LEMMA SendScoutsInv ==
  ASSUME ScoutInv, NEW c \in Painters, NEW m \in Shines, SendScouts(c, m)
  PROVE  ScoutInv'
<1>1. /\ load[c][m] # Nobody /\ load' = [load EXCEPT ![c][m] = Nobody]
      /\ shinePalette' = IF plugged THEN [shinePalette EXCEPT ![m] = load[c][m]] ELSE shinePalette
      /\ UNCHANGED <<tenant, warming, cache, asked, tints, shopStash, signature, errand, helloDue,
                     plugged, shopLabels, tangled, turns>>
  BY DEF SendScouts, Laden
<1>2. shinePalette \in Column /\ load \in [Painters -> Column] /\ load[c] \in Column
  BY DEF ScoutInv, ScoutTypeOK
<1>3. load' = [load EXCEPT ![c] = [load[c] EXCEPT ![m] = Nobody]]
  BY <1>1
<1>4. PICK col \in Column : col = [load[c] EXCEPT ![m] = Nobody]
  BY <1>2 DEF Column
<1>5. col[m] = Nobody /\ \A n \in Shines \ {m} : col[n] = load[c][n]
  BY <1>2, <1>4 DEF Column
<1>6. /\ load' \in [Painters -> Column] /\ load'[c] = col
      /\ \A d \in Painters \ {c} : load'[d] = load[d]
  BY <1>2, <1>3, <1>4
<1>7. /\ shinePalette' \in Column
      /\ plugged => shinePalette'[m] = load[c][m]
      /\ \A n \in Shines \ {m} : shinePalette'[n] = shinePalette[n]
  BY <1>1, <1>2 DEF Column
<1>8. ScoutTypeOK'
  BY <1>1, <1>6, <1>7 DEF ScoutInv, ScoutTypeOK, Column
<1>9. ScoutOrder'
  <2>1. errand[c] # "none"
    BY <1>1, BlankType DEF ScoutInv, ScoutOrder
  <2> QED
    BY <1>1, <1>6, <2>1 DEF ScoutInv, ScoutOrder, Blank
<1>10. CacheFilled' /\ ShopFollows'
  BY <1>1 DEF ScoutInv, CacheFilled, ShopFollows, Batching, ShopEntries, ShopLabel
<1>11. TintsFollow'
  BY <1>1, <1>5, <1>6 DEF ScoutInv, TintsFollow
<1>12. PaletteFollows'
  <2> SUFFICES ASSUME plugged, ~helloDue, ~tangled, NEW n \in Shines, tints[n] # Nobody
               PROVE  shinePalette'[n] = tenant \/ OnItsWay(n)'
    BY <1>1 DEF PaletteFollows
  <2>1. CASE n = m
    <3>1. load[c][m] \in {Nobody, tenant}
      BY DEF ScoutInv, TintsFollow
    <3> QED
      BY <1>1, <1>7, <2>1, <3>1
  <2>2. CASE n # m
    <3>1. shinePalette[n] = tenant \/ OnItsWay(n)
      BY DEF ScoutInv, PaletteFollows
    <3>2. ASSUME OnItsWay(n) PROVE OnItsWay(n)'
      <4>1. PICK d \in Painters : load[d][n] # Nobody
        BY <3>2 DEF OnItsWay
      <4>2. load'[d][n] = load[d][n]
        BY <1>5, <1>6, <2>2
      <4> QED
        BY <4>1, <4>2 DEF OnItsWay
    <3> QED
      BY <1>7, <2>2, <3>1, <3>2
  <2> QED
    BY <2>1, <2>2
<1> QED
  BY <1>8, <1>9, <1>10, <1>11, <1>12 DEF ScoutInv

\* A coroutine with nothing left to send has a blank load.
LEMMA NothingLaden ==
  ASSUME ScoutTypeOK, NEW c \in Painters, Laden(c) = {}
  PROVE  load[c] = Blank
<1>1. load[c] \in [Shines -> Players \cup {Nobody}]
  BY DEF ScoutTypeOK, Column
<1>2. \A m \in Shines : load[c][m] = Nobody
  BY DEF Laden
<1> QED
  BY <1>1, <1>2 DEF Blank

LEMMA FinishBatchInv == ASSUME ScoutInv, NEW c \in Painters, FinishBatch(c) PROVE ScoutInv'
<1>1. /\ signature' = shopStash' /\ shopStash' = ShopEntries /\ shopStash' # Unset
      /\ shopStash' \in Column /\ shopLabels' \in Column
      /\ plugged /\ ~helloDue => shopLabels' = shopStash'
  BY Derived DEF FinishBatch
<1>2. /\ errand' = [errand EXCEPT ![c] = "none"] /\ Laden(c) = {}
      /\ UNCHANGED <<tenant, warming, cache, asked, tints, load, helloDue, plugged, shinePalette,
                     tangled, turns>>
  BY DEF FinishBatch
<1>3. load[c] = Blank
  BY <1>2, NothingLaden DEF ScoutInv
<1>4. ScoutTypeOK'
  BY <1>1, <1>2 DEF ScoutInv, ScoutTypeOK, Column
<1>5. ScoutOrder'
  BY <1>1, <1>2, <1>3 DEF ScoutInv, ScoutTypeOK, ScoutOrder, Blank
<1>6. CacheFilled' /\ ShopFollows'
  BY <1>1, <1>2 DEF ScoutInv, CacheFilled, ShopFollows, ShopEntries, ShopLabel
<1>7. TintsFollow' /\ PaletteFollows'
  BY <1>2 DEF ScoutInv, TintsFollow, PaletteFollows, OnItsWay
<1> QED
  BY <1>4, <1>5, <1>6, <1>7 DEF ScoutInv

\* A hello: the labels at once, the colours as the load of the replay.
LEMMA ReplayTablesInv == ASSUME ScoutInv, NEW c \in Painters, ReplayTables(c) PROVE ScoutInv'
<1>1. /\ helloDue /\ errand[c] = "none" /\ helloDue' = FALSE
      /\ shopLabels' = IF plugged /\ shopStash # Unset THEN shopStash ELSE shopLabels
      /\ errand' = [errand EXCEPT ![c] = "replay"] /\ load' = [load EXCEPT ![c] = tints]
      /\ UNCHANGED <<tenant, warming, cache, asked, tints, shopStash, signature, plugged,
                     shinePalette, tangled, turns>>
  BY DEF ReplayTables
<1>2. /\ tints \in Column /\ load \in [Painters -> Column] /\ shopLabels \in Column
      /\ errand \in [Painters -> {"none", "batch", "replay"}]
      /\ shopStash \in Column \cup {Unset}
  BY DEF ScoutInv, ScoutTypeOK
<1>3. /\ load' \in [Painters -> Column] /\ errand' \in [Painters -> {"none", "batch", "replay"}]
      /\ load'[c] = tints /\ errand'[c] = "replay"
      /\ \A d \in Painters \ {c} : load'[d] = load[d] /\ errand'[d] = errand[d]
  BY <1>1, <1>2
<1>4. ScoutTypeOK'
  <2>1. {cache', tints', shinePalette', shopLabels'} \subseteq Column
    BY <1>1, <1>2 DEF ScoutInv, ScoutTypeOK
  <2>2. {shopStash', signature'} \subseteq Column \cup {Unset}
    BY <1>1 DEF ScoutInv, ScoutTypeOK
  <2>3. tenant' \in Players \cup {Nobody} /\ asked' \subseteq Shines /\ turns' \in Nat
    BY <1>1 DEF ScoutInv, ScoutTypeOK
  <2>4. {warming', helloDue', plugged', tangled'} \subseteq BOOLEAN
    BY <1>1 DEF ScoutInv, ScoutTypeOK
  <2> QED
    BY <1>3, <2>1, <2>2, <2>3, <2>4 DEF ScoutTypeOK
<1>5. ScoutOrder'
  BY <1>1, <1>3 DEF ScoutInv, ScoutOrder, Blank
<1>6. CacheFilled'
  BY <1>1 DEF ScoutInv, CacheFilled
<1>7. Batching' <=> Batching
  BY <1>1, <1>3 DEF Batching
<1>8. ShopFollows'
  BY <1>1, <1>7 DEF ScoutInv, ShopFollows, ShopEntries, ShopLabel
<1>9. TintsFollow'
  BY <1>1, <1>3 DEF ScoutInv, TintsFollow
<1>10. PaletteFollows'
  BY <1>1, <1>3 DEF PaletteFollows, OnItsWay
<1> QED
  BY <1>4, <1>5, <1>6, <1>8, <1>9, <1>10 DEF ScoutInv

LEMMA FinishReplayInv == ASSUME ScoutInv, NEW c \in Painters, FinishReplay(c) PROVE ScoutInv'
<1>1. /\ errand[c] = "replay" /\ errand' = [errand EXCEPT ![c] = "none"] /\ Laden(c) = {}
      /\ UNCHANGED <<tenant, warming, cache, asked, tints, shopStash, signature, load, helloDue,
                     plugged, shinePalette, shopLabels, tangled, turns>>
  BY DEF FinishReplay
<1>2. load[c] = Blank
  BY <1>1, NothingLaden DEF ScoutInv
<1>3. errand \in [Painters -> {"none", "batch", "replay"}]
  BY DEF ScoutInv, ScoutTypeOK
<1>4. ScoutTypeOK'
  BY <1>1 DEF ScoutInv, ScoutTypeOK, Column
<1>5. ScoutOrder'
  BY <1>1, <1>2, <1>3 DEF ScoutInv, ScoutOrder, Blank
<1>6. Batching' <=> Batching
  BY <1>1, <1>3 DEF Batching
<1>7. CacheFilled' /\ ShopFollows'
  BY <1>1, <1>6 DEF ScoutInv, CacheFilled, ShopFollows, ShopEntries, ShopLabel
<1>8. TintsFollow' /\ PaletteFollows'
  BY <1>1 DEF ScoutInv, TintsFollow, PaletteFollows, OnItsWay
<1> QED
  BY <1>4, <1>5, <1>7, <1>8 DEF ScoutInv

\* The connection is lost: what a replay had yet to send goes nowhere, a batch goes on.
LEMMA UnpluggedInv ==
  ASSUME ScoutInv, Unplugged, shinePalette' \in Column, shopLabels' \in Column, turns' \in Nat
  PROVE  ScoutInv'
<1>1. /\ plugged' = FALSE /\ helloDue' = FALSE
      /\ errand' = [c \in Painters |-> IF errand[c] = "replay" THEN "none" ELSE errand[c]]
      /\ load' = [c \in Painters |-> IF errand[c] = "replay" THEN Blank ELSE load[c]]
      /\ UNCHANGED <<tenant, warming, cache, asked, tints, shopStash, signature, tangled>>
  BY DEF Unplugged
<1>2. /\ load \in [Painters -> Column] /\ errand \in [Painters -> {"none", "batch", "replay"}]
      /\ Blank \in Column
  BY BlankType DEF ScoutInv, ScoutTypeOK
<1>3. load' \in [Painters -> Column] /\ errand' \in [Painters -> {"none", "batch", "replay"}]
  BY <1>1, <1>2
<1>4. ScoutTypeOK'
  BY <1>1, <1>3 DEF ScoutInv, ScoutTypeOK, Column
<1>5. ScoutOrder'
  BY <1>1 DEF ScoutInv, ScoutOrder, Blank
<1>6. Batching => Batching'
  BY <1>1 DEF Batching
<1>7. CacheFilled' /\ ShopFollows'
  BY <1>1, <1>6 DEF ScoutInv, CacheFilled, ShopFollows, ShopEntries, ShopLabel
<1>8. TintsFollow' /\ PaletteFollows'
  BY <1>1, BlankType DEF ScoutInv, TintsFollow, PaletteFollows
<1> QED
  BY <1>4, <1>5, <1>7, <1>8 DEF ScoutInv

LEMMA ScoutStep == ASSUME ScoutInv, [ScoutNext]_scoutVars PROVE ScoutInv'
<1>1. CASE \E s \in Players : Connect(s)
  BY <1>1, ConnectInv
<1>2. CASE Warm
  BY <1>2, WarmInv
<1>3. CASE Plug
  <2>1. ScoutTypeOK' /\ ScoutOrder'
    BY <1>3 DEF Plug, ScoutInv, ScoutTypeOK, ScoutOrder, Column, Blank
  <2>2. CacheFilled' /\ ShopFollows'
    BY <1>3 DEF Plug, ScoutInv, CacheFilled, ShopFollows, ShopEntries, ShopLabel, Batching
  <2>3. TintsFollow' /\ PaletteFollows'
    BY <1>3 DEF Plug, ScoutInv, TintsFollow, PaletteFollows
  <2> QED
    BY <2>1, <2>2, <2>3 DEF ScoutInv
<1>4. CASE Cut
  <2>1. Unplugged /\ shinePalette' \in Column /\ shopLabels' \in Column /\ turns' \in Nat
    BY <1>4 DEF Cut, Turn, ScoutInv, ScoutTypeOK
  <2> QED
    BY <2>1, UnpluggedInv
<1>5. CASE PowerCycle
  <2>1. Unplugged /\ shinePalette' \in Column /\ shopLabels' \in Column /\ turns' \in Nat
    BY <1>5, BlankType DEF PowerCycle, Turn, ScoutInv, ScoutTypeOK
  <2> QED
    BY <2>1, UnpluggedInv
<1>6. CASE \E c \in Painters :
              \/ (\E batch \in SUBSET Shines : Absorb(c, batch)) \/ (\E m \in Shines : SendScouts(c, m))
              \/ FinishBatch(c) \/ ReplayTables(c) \/ FinishReplay(c)
  BY <1>6, AbsorbInv, SendScoutsInv, FinishBatchInv, ReplayTablesInv, FinishReplayInv
<1>7. CASE UNCHANGED scoutVars
  <2>1. ScoutTypeOK' /\ ScoutOrder'
    BY <1>7 DEF scoutVars, ScoutInv, ScoutTypeOK, ScoutOrder, Column, Blank
  <2>2. CacheFilled' /\ ShopFollows'
    BY <1>7 DEF scoutVars, ScoutInv, CacheFilled, ShopFollows, ShopEntries, ShopLabel, Batching
  <2>3. TintsFollow' /\ PaletteFollows'
    BY <1>7 DEF scoutVars, ScoutInv, TintsFollow, PaletteFollows, OnItsWay
  <2> QED
    BY <2>1, <2>2, <2>3 DEF ScoutInv
<1> QED
  BY <1>1, <1>2, <1>3, <1>4, <1>5, <1>6, <1>7 DEF ScoutNext

LEMMA ScoutsAllSent == ScoutInv => TablesCurrent
<1> SUFFICES ASSUME ScoutInv, AllSent PROVE TablesCurrent
  BY DEF TablesCurrent
<1>1. /\ plugged /\ tenant # Nobody /\ ~warming /\ ~helloDue /\ asked = {}
      /\ \A c \in Painters : errand[c] = "none"
  BY DEF AllSent, Running
<1>2. cache \in Column /\ tenant \in Players /\ Holds[tenant] \subseteq Shines /\ ShopShines \subseteq Shines
  BY <1>1, ScoutTablesAssumption DEF ScoutInv, ScoutTypeOK
<1>3. \A m \in Shines : cache[m] = IF m \in Holds[tenant] THEN tenant ELSE Nobody
  BY <1>1 DEF ScoutInv, CacheFilled
<1>4. shopLabels = ShopEntries
  BY <1>1, <1>2, EntriesType DEF ScoutInv, ShopFollows, Batching
<1>5. \A m \in ShopShines : shopLabels[m] = IF m \in Holds[tenant] THEN tenant ELSE Nobody
  BY <1>2, <1>3, <1>4, EntriesType
<1>6. \A c \in Painters, m \in Shines : load[c][m] = Nobody
  BY <1>1, BlankType DEF ScoutInv, ScoutOrder
<1>7. ASSUME ~tangled, NEW m \in Holds[tenant] PROVE shinePalette[m] = tenant
  <2>1. m \in Shines /\ tints[m] # Nobody
    BY <1>1, <1>2, <1>3 DEF ScoutInv, TintsFollow
  <2> QED
    BY <1>1, <1>6, <1>7, <2>1 DEF ScoutInv, PaletteFollows, OnItsWay
<1> QED
  BY <1>5, <1>7 DEF TablesCurrent

\* Once every answer is in and every push done, the labels and colours on the Switch are
\* those of the slot (context.py, state.py), whatever the batches, replays and lost
\* connections did in between.
THEOREM SwitchTablesAreCurrent == ScoutSpec => []TablesCurrent
  BY ScoutInitial, ScoutStep, ScoutsAllSent, PTL DEF ScoutSpec

(***************************************************************************)
(* CutsceneLabel: the numbers that are on their way, and what the worker   *)
(* writes when.                                                            *)
(***************************************************************************)

\* A check or a label on the way: of a moon that was collected, with a number that was
\* given and is not published, and the number of the cutscene's check if it is of its moon.
Due(x) ==
  /\ x.of \in 1 .. moons /\ x.seq \in 1 .. nextSeq - 1 /\ x.seq \notin {published, consumed}
  /\ cutscene # 0 => (x.seq = cutSeq <=> x.of = cutscene)

Tag == [seq : Nat, of : Nat]

AllDue(s) == s \in Seq(Tag) /\ \A i \in 1 .. Len(s) : Due(s[i])

Distinct(s) == \A i, j \in 1 .. Len(s) : s[i].seq = s[j].seq => i = j

Apart(s, t) == \A i \in 1 .. Len(s), j \in 1 .. Len(t) : s[i].seq # t[j].seq

\* No two of them have the same number.
NumbersApart(w, p, r) ==
  Len(w) <= 1 /\ Distinct(p) /\ Distinct(r) /\ Apart(w, p) /\ Apart(w, r) /\ Apart(p, r)

LabelLines ==
  AllDue(writing) /\ AllDue(replies) /\ AllDue(reports) /\ NumbersApart(writing, replies, reports)

LabelNumbers ==
  /\ {moons, cutscene, cutSeq} \subseteq Nat /\ nextSeq \in Nat \ {0}
  /\ {published, consumed} \subseteq 0 .. nextSeq - 1
  /\ published = 0 => consumed = 0
  /\ cutscene # 0 => cutscene <= moons /\ cutSeq \in 1 .. nextSeq - 1

\* What the worker has written when, and that it wrote alone.
LabelText ==
  /\ ~overrun
  /\ text \in {Vanilla, Garbled} \cup 1 .. moons
  /\ text = Vanilla => published = 0
  /\ text = Garbled => writing # <<>>
  /\ writing # <<>> /\ written => text = writing[1].of

\* What the frame would take, and what the pane shows.
LabelShown ==
  /\ published \notin {0, consumed} => text \in {Vanilla, Garbled, cutscene} \cup tardy
  /\ cutscene # 0 =>
       /\ pane \in {Vanilla, Garbled, cutscene} \cup tardy
       /\ pane = Garbled => ~tooLate /\ ~(writing = <<>> /\ consumed = published)

\* The label of this cutscene: written in time, and shown once it was taken.
LabelInTime ==
  cutscene # 0 =>
    /\ writing # <<>> /\ written /\ writing[1].seq = cutSeq => ~tooLate
    /\ writing = <<>> /\ published = cutSeq =>
         text = cutscene /\ ~tooLate /\ (consumed = published => pane \in {cutscene} \cup tardy)

LabelCore == LabelLines /\ LabelNumbers /\ LabelText /\ LabelShown /\ LabelInTime

LabelInv == ~clashed => LabelCore

LEMMA LabelConstants ==
  Vanilla # Garbled /\ \A n \in Nat : n # Vanilla /\ n # Garbled
  BY CutsceneLabelAssumption

LEMMA EmptyLines ==
  /\ AllDue(<<>>) /\ Len(<<>>) = 0
  /\ NumbersApart(<<>>, <<>>, <<>>)
<1>1. <<>> \in Seq(Tag) /\ Len(<<>>) = 0
  BY EmptySeq
<1> QED
  BY <1>1 DEF AllDue, NumbersApart, Distinct, Apart

\* What is taken from the front, dropped or added at the end of a line.
LEMMA TailLine ==
  ASSUME NEW s \in Seq(Tag), s # <<>>
  PROVE  /\ Tail(s) \in Seq(Tag) /\ Len(Tail(s)) = Len(s) - 1 /\ Len(s) \in Nat \ {0}
         /\ Head(s) = s[1] /\ s[1] \in Tag
         /\ \A i \in 1 .. Len(Tail(s)) : i + 1 \in 1 .. Len(s) /\ Tail(s)[i] = s[i + 1]
<1>1. Len(s) \in Nat /\ Len(s) # 0
  BY EmptySeq, LenProperties
<1> QED
  BY <1>1, HeadTailProperties, ElementOfSeq

LEMMA SubLine ==
  ASSUME NEW s \in Seq(Tag), NEW n \in 0 .. Len(s)
  PROVE  /\ SubSeq(s, n + 1, Len(s)) \in Seq(Tag)
         /\ Len(SubSeq(s, n + 1, Len(s))) = Len(s) - n
         /\ \A i \in 1 .. Len(s) - n : i + n \in 1 .. Len(s) /\ SubSeq(s, n + 1, Len(s))[i] = s[i + n]
<1>1. Len(s) \in Nat
  BY LenProperties
<1>2. \A i \in n + 1 .. Len(s) : s[i] \in Tag
  BY <1>1, ElementOfSeq
<1> QED
  BY <1>1, <1>2, SubSeqProperties

LEMMA AddLine ==
  ASSUME NEW s \in Seq(Tag), NEW x \in Tag
  PROVE  /\ Append(s, x) \in Seq(Tag) /\ Len(Append(s, x)) = Len(s) + 1 /\ Len(s) \in Nat
         /\ \A i \in 1 .. Len(s) : Append(s, x)[i] = s[i]
         /\ Append(s, x)[Len(s) + 1] = x
  BY AppendProperties, LenProperties

\* Items stay due when what Due says of them does.
LEMMA StillDue ==
  ASSUME LabelLines, \A x \in Tag : Due(x) => Due(x)'
  PROVE  /\ writing' = writing => AllDue(writing)'
         /\ replies' = replies => AllDue(replies)'
         /\ reports' = reports => AllDue(reports)'
         /\ \A i \in 1 .. Len(reports) : \E x \in Tag : x = reports[i] /\ Due(x)'
<1>1. ASSUME NEW s, AllDue(s) PROVE \A i \in 1 .. Len(s) : \E x \in Tag : x = s[i] /\ Due(x)'
  <2> TAKE i \in 1 .. Len(s)
  <2>1. s[i] \in Tag /\ Due(s[i])
    BY <1>1, ElementOfSeq DEF AllDue
  <2>2. PICK x \in Tag : x = s[i]
    BY <2>1
  <2>3. Due(x)
    BY <2>1, <2>2
  <2> QED
    BY <2>2, <2>3
<1>2. ASSUME writing' = writing PROVE AllDue(writing)'
  <2>1. AllDue(writing)
    BY DEF LabelLines
  <2>2. \A i \in 1 .. Len(writing) : \E x \in Tag : x = writing[i] /\ Due(x)'
    BY <1>1, <2>1
  <2> QED
    BY <1>2, <2>1, <2>2 DEF AllDue, Due
<1>3. ASSUME replies' = replies PROVE AllDue(replies)'
  <2>1. AllDue(replies)
    BY DEF LabelLines
  <2>2. \A i \in 1 .. Len(replies) : \E x \in Tag : x = replies[i] /\ Due(x)'
    BY <1>1, <2>1
  <2> QED
    BY <1>3, <2>1, <2>2 DEF AllDue, Due
<1>4. \A i \in 1 .. Len(reports) : \E x \in Tag : x = reports[i] /\ Due(x)'
  <2>1. AllDue(reports)
    BY DEF LabelLines
  <2> QED
    BY <1>1, <2>1
<1>5. ASSUME reports' = reports PROVE AllDue(reports)'
  <2>1. AllDue(reports)
    BY DEF LabelLines
  <2> QED
    BY <1>4, <1>5, <2>1 DEF AllDue, Due
<1> QED
  BY <1>2, <1>3, <1>4, <1>5

LEMMA LabelInitial == LabelInit => LabelInv
<1> SUFFICES ASSUME LabelInit PROVE LabelCore
  BY DEF LabelInv
<1>1. LabelLines
  BY EmptyLines DEF LabelInit, LabelLines
<1>2. LabelNumbers /\ LabelText /\ LabelShown /\ LabelInTime
  BY LabelConstants DEF LabelInit, LabelNumbers, LabelText, LabelShown, LabelInTime
<1> QED
  BY <1>1, <1>2 DEF LabelCore

\* A moon is collected: its number and the number of its check are new.
LEMMA PlayDue ==
  ASSUME LabelNumbers, Play, consumed' = consumed, published' \in {published, nextSeq}
  PROVE  \A x \in Tag : Due(x) => Due(x)'
<1>1. /\ moons \in Nat /\ nextSeq \in Nat /\ cutscene = 0 /\ moons' = moons + 1
      /\ cutscene' = moons + 1 /\ cutSeq' = nextSeq /\ nextSeq' = nextSeq + 1
  BY DEF Play, LabelNumbers
<1> QED
  BY <1>1 DEF Due, Tag

LEMMA PlayNumbers ==
  ASSUME LabelNumbers, Play, consumed' = consumed, published' \in {published, nextSeq}
  PROVE  LabelNumbers'
  BY DEF LabelNumbers, Play

LEMMA CollectMoonInv == ASSUME LabelCore, CollectMoon PROVE LabelCore'
<1>1. /\ Play
      /\ UNCHANGED <<consumed, text, published, tooLate, writing, written, overrun, replies, tardy>>
  BY DEF CollectMoon, pendingVars, textVars
<1>2. /\ moons \in Nat /\ nextSeq \in Nat \ {0} /\ cutscene = 0 /\ moons' = moons + 1
      /\ cutscene' = moons + 1 /\ cutSeq' = nextSeq /\ nextSeq' = nextSeq + 1 /\ pane' = Vanilla
      /\ published \in 0 .. nextSeq - 1 /\ consumed \in 0 .. nextSeq - 1
  BY <1>1 DEF Play, LabelCore, LabelNumbers
<1>3. LabelNumbers'
  BY <1>1, PlayNumbers DEF LabelCore
<1>4. \A x \in Tag : Due(x) => Due(x)'
  BY <1>1, PlayDue DEF LabelCore
<1>5. /\ AllDue(writing)' /\ AllDue(replies)' /\ (reports' = reports => AllDue(reports)')
      /\ \A i \in 1 .. Len(reports) : \E x \in Tag : x = reports[i] /\ Due(x)'
  BY <1>1, <1>4, StillDue DEF LabelCore
<1>7. reports' \in {reports, Append(reports, [seq |-> nextSeq, of |-> moons + 1])}
  BY DEF CollectMoon
<1>8. LabelLines'
  <2>1. CASE reports' = reports
    BY <1>1, <1>5, <2>1 DEF LabelCore, LabelLines, NumbersApart, Distinct, Apart
  <2>2. CASE reports' = Append(reports, [seq |-> nextSeq, of |-> moons + 1])
    <3>1. PICK x \in Tag : x = [seq |-> nextSeq, of |-> moons + 1]
      <4>1. [seq |-> nextSeq, of |-> moons + 1] \in Tag
        BY <1>2 DEF Tag
      <4> QED
        BY <4>1
    <3>2. x.seq = nextSeq /\ x.of = moons + 1
      BY <3>1
    <3>3. reports \in Seq(Tag) /\ reports' = Append(reports, x)
      BY <2>2, <3>1 DEF LabelCore, LabelLines, AllDue
    <3>4. /\ reports' \in Seq(Tag) /\ Len(reports') = Len(reports) + 1 /\ Len(reports) \in Nat
          /\ \A i \in 1 .. Len(reports) : reports'[i] = reports[i]
          /\ reports'[Len(reports) + 1] = x
      BY <3>3, AddLine
    <3>5. Due(x)'
      BY <1>1, <1>2, <3>2 DEF Due
    <3>6. AllDue(reports)'
      <4>2. \A i \in 1 .. Len(reports') : i \in 1 .. Len(reports) \/ i = Len(reports) + 1
        BY <3>4
      <4>3. ASSUME NEW i \in 1 .. Len(reports') PROVE Due(reports[i])'
        <5>1. CASE i \in 1 .. Len(reports)
          BY <1>5, <3>4, <5>1 DEF Due
        <5>2. CASE i = Len(reports) + 1
          BY <3>4, <3>5, <5>2 DEF Due
        <5> QED
          BY <4>2, <5>1, <5>2
      <4> QED
        BY <3>4, <4>3 DEF AllDue
    <3>7. /\ \A i \in 1 .. Len(writing) : writing[i].seq \in 1 .. nextSeq - 1
          /\ \A i \in 1 .. Len(replies) : replies[i].seq \in 1 .. nextSeq - 1
          /\ \A i \in 1 .. Len(reports) : reports[i].seq \in 1 .. nextSeq - 1
      BY DEF LabelCore, LabelLines, AllDue, Due
    <3>8. NumbersApart(writing, replies, reports)'
      <4>1. /\ Len(writing) <= 1 /\ Distinct(replies) /\ Distinct(reports)
            /\ Apart(writing, replies) /\ Apart(writing, reports) /\ Apart(replies, reports)
        BY DEF LabelCore, LabelLines, NumbersApart
      <4>2. Distinct(reports)'
        <5> SUFFICES ASSUME NEW i \in 1 .. Len(reports'), NEW j \in 1 .. Len(reports'),
                            reports'[i].seq = reports'[j].seq
                     PROVE  i = j
          BY DEF Distinct
        <5>1. CASE i \in 1 .. Len(reports) /\ j \in 1 .. Len(reports)
          BY <3>4, <4>1, <5>1 DEF Distinct
        <5>2. CASE i \in 1 .. Len(reports) /\ j = Len(reports) + 1
          BY <1>2, <3>2, <3>4, <3>7, <5>2
        <5>3. CASE i = Len(reports) + 1 /\ j \in 1 .. Len(reports)
          BY <1>2, <3>2, <3>4, <3>7, <5>3
        <5> QED
          BY <3>4, <5>1, <5>2, <5>3
      <4>3. Apart(writing, reports)'
        BY <1>1, <1>2, <3>2, <3>4, <3>7, <4>1 DEF Apart
      <4>4. Apart(replies, reports)'
        BY <1>1, <1>2, <3>2, <3>4, <3>7, <4>1 DEF Apart
      <4> QED
        BY <1>1, <4>1, <4>2, <4>3, <4>4 DEF NumbersApart, Distinct, Apart
    <3> QED
      BY <1>5, <3>6, <3>8 DEF LabelLines
  <2> QED
    BY <1>7, <2>1, <2>2
<1>9. LabelText'
  BY <1>1, <1>2 DEF LabelCore, LabelText
<1>10. LabelShown'
  BY <1>1, <1>2, LabelConstants DEF LabelCore, LabelText, LabelShown
<1>11. LabelInTime'
  <2>1. writing # <<>> => writing[1].seq # nextSeq
    <3>1. writing \in Seq(Tag) /\ \A i \in 1 .. Len(writing) : writing[i].seq \in 1 .. nextSeq - 1
      BY DEF LabelCore, LabelLines, AllDue, Due
    <3>2. writing # <<>> => 1 \in 1 .. Len(writing)
      BY <3>1, TailLine
    <3> QED
      BY <1>2, <3>1, <3>2
  <2> QED
    BY <1>1, <1>2, <2>1 DEF LabelInTime
<1> QED
  BY <1>3, <1>8, <1>9, <1>10, <1>11 DEF LabelCore

\* The frame thread writes a label of its own; with the worker idle, no harm is done.
LEMMA CollectBlockedInv == ASSUME LabelCore, CollectBlocked, ~clashed' PROVE LabelCore'
<1>1. /\ Play /\ writing = <<>>
      /\ text' = moons + 1 /\ published' = nextSeq /\ tooLate' = FALSE /\ ~overrun'
      /\ UNCHANGED <<consumed, writing, written, replies, reports, tardy>>
  BY DEF CollectBlocked, lineTables
<1>2. /\ moons \in Nat /\ nextSeq \in Nat \ {0} /\ cutscene = 0 /\ moons' = moons + 1
      /\ cutscene' = moons + 1 /\ cutSeq' = nextSeq /\ nextSeq' = nextSeq + 1 /\ pane' = Vanilla
      /\ published \in 0 .. nextSeq - 1 /\ consumed \in 0 .. nextSeq - 1
  BY <1>1 DEF Play, LabelCore, LabelNumbers
<1>3. LabelNumbers'
  BY <1>1, PlayNumbers DEF LabelCore
<1>4. \A x \in Tag : Due(x) => Due(x)'
  BY <1>1, PlayDue DEF LabelCore
<1>5. AllDue(writing)' /\ AllDue(replies)' /\ AllDue(reports)'
  BY <1>1, <1>4, StillDue DEF LabelCore
<1>6. LabelLines'
  BY <1>1, <1>5 DEF LabelCore, LabelLines, NumbersApart, Distinct, Apart
<1>7. LabelText'
  BY <1>1, <1>2, LabelConstants DEF LabelText
<1>8. LabelShown'
  BY <1>1, <1>2, LabelConstants DEF LabelShown
<1>9. LabelInTime'
  BY <1>1, <1>2 DEF LabelInTime
<1> QED
  BY <1>3, <1>6, <1>7, <1>8, <1>9 DEF LabelCore

\* What is due does not depend on anything but these.
LEMMA LinesKept ==
  ASSUME LabelLines, UNCHANGED <<moons, nextSeq, published, consumed, cutscene, cutSeq>>,
         UNCHANGED <<writing, replies, reports>>
  PROVE  LabelLines'
  BY DEF LabelLines, AllDue, Due, NumbersApart, Distinct, Apart

\* A frame takes what is published: a label of this cutscene shows, any other was late.
LEMMA CutsceneFrameInv == ASSUME LabelCore, CutsceneFrame PROVE LabelCore'
<1>1. /\ cutscene # 0 /\ cutscene' \in {cutscene, 0}
      /\ consumed' = IF published = 0 THEN consumed ELSE published
      /\ pane' = IF published \in {0, consumed} \/ tooLate \/ text = Vanilla THEN pane ELSE text
      /\ UNCHANGED <<cutSeq, nextSeq, text, published, tooLate, writing, written, overrun,
                     replies, reports, moons, tardy>>
  BY DEF CutsceneFrame, Take, pendingVars, textVars, lineTables
<1>2. LabelNumbers
  BY DEF LabelCore
<1>3. consumed' = published
  BY <1>1, <1>2 DEF LabelNumbers
<1>4. LabelNumbers'
  BY <1>1, <1>2, <1>3 DEF LabelNumbers
<1>5. \A x \in Tag : Due(x) => Due(x)'
  BY <1>1, <1>3 DEF Due
<1>6. AllDue(writing)' /\ AllDue(replies)' /\ AllDue(reports)'
  BY <1>1, <1>5, StillDue DEF LabelCore
<1>7. LabelLines'
  BY <1>1, <1>6 DEF LabelCore, LabelLines, NumbersApart, Distinct, Apart
<1>8. LabelText'
  BY <1>1 DEF LabelCore, LabelText
<1>9. LabelShown'
  <2>1. pane' \in {Vanilla, Garbled, cutscene} \cup tardy
    BY <1>1 DEF LabelCore, LabelShown
  <2>2. pane' = Garbled => ~tooLate /\ writing # <<>>
    BY <1>1, <1>2 DEF LabelCore, LabelShown, LabelText, LabelNumbers
  <2> QED
    BY <1>1, <1>3, <2>1, <2>2 DEF LabelShown
<1>10. LabelInTime'
  <2> SUFFICES ASSUME cutscene' # 0 PROVE LabelInTime'
    BY DEF LabelInTime
  <2>1. writing # <<>> /\ written /\ writing[1].seq = cutSeq => ~tooLate
    BY <1>1 DEF LabelCore, LabelInTime
  <2>2. ASSUME writing = <<>>, published = cutSeq
        PROVE  text = cutscene /\ ~tooLate /\ pane' \in {cutscene} \cup tardy
    <3>1. /\ text = cutscene /\ ~tooLate /\ (consumed = published => pane \in {cutscene} \cup tardy)
          /\ published # 0 /\ cutscene \in Nat
      BY <1>1, <1>2, <2>2 DEF LabelCore, LabelInTime, LabelNumbers
    <3>2. text # Vanilla
      BY <3>1, LabelConstants
    <3> QED
      BY <1>1, <3>1, <3>2
  <2> QED
    BY <1>1, <2>1, <2>2 DEF LabelInTime
<1> QED
  BY <1>4, <1>7, <1>8, <1>9, <1>10 DEF LabelCore

LEMMA LabelExpiresInv == ASSUME LabelCore, LabelExpires PROVE LabelCore'
<1>1. /\ cutscene = 0
      /\ UNCHANGED <<cutscene, cutSeq, pane, nextSeq, consumed, text, published, writing, written,
                     overrun, replies, reports, moons, tardy>>
  BY DEF LabelExpires, frameVars, textVars, lineTables
<1>2. LabelLines'
  BY <1>1, LinesKept DEF LabelCore
<1> QED
  BY <1>1, <1>2 DEF LabelCore, LabelNumbers, LabelText, LabelShown, LabelInTime

\* The lines of the connection move on: only what Due says nothing of changes.
LEMMA LinesShift ==
  ASSUME LabelLines, NEW w, NEW p, NEW r, w \in Seq(Tag), p \in Seq(Tag), r \in Seq(Tag),
         \A i \in 1 .. Len(w) : Due(w[i]), \A i \in 1 .. Len(p) : Due(p[i]),
         \A i \in 1 .. Len(r) : Due(r[i]), NumbersApart(w, p, r),
         UNCHANGED <<moons, nextSeq, published, consumed, cutscene, cutSeq>>,
         writing' = w, replies' = p, reports' = r
  PROVE  LabelLines'
  BY DEF LabelLines, AllDue, Due, NumbersApart, Distinct, Apart

LEMMA BeginTextInv == ASSUME LabelCore, BeginText PROVE LabelCore'
<1>1. /\ writing = <<>> /\ replies # <<>> /\ writing' = <<Head(replies)>> /\ replies' = Tail(replies)
      /\ text' = Garbled /\ written' = FALSE /\ overrun' = FALSE
      /\ UNCHANGED <<cutscene, cutSeq, pane, nextSeq, consumed, published, tooLate, reports, moons,
                     tardy>>
  BY DEF BeginText, frameVars
<1>2. AllDue(replies) /\ AllDue(reports) /\ NumbersApart(writing, replies, reports)
  BY DEF LabelCore, LabelLines
<1>3. /\ Tail(replies) \in Seq(Tag) /\ Len(Tail(replies)) = Len(replies) - 1
      /\ Len(replies) \in Nat \ {0} /\ Head(replies) = replies[1] /\ replies[1] \in Tag
      /\ \A i \in 1 .. Len(Tail(replies)) :
           i + 1 \in 1 .. Len(replies) /\ Tail(replies)[i] = replies[i + 1]
  BY <1>1, <1>2, TailLine DEF AllDue
<1>4. PICK x \in Tag : x = replies[1]
  BY <1>3
<1>5. PICK p \in Seq(Tag) : p = Tail(replies)
  BY <1>3
<1>6. <<x>> \in Seq(Tag) /\ Len(<<x>>) = 1 /\ <<x>>[1] = x /\ <<x>> # <<>>
  BY <1>4
<1>7. PICK w \in Seq(Tag) : w = <<x>>
  BY <1>6
<1>8. /\ Len(p) = Len(replies) - 1
      /\ \A i \in 1 .. Len(p) : i + 1 \in 1 .. Len(replies) /\ p[i] = replies[i + 1]
      /\ Len(w) = 1 /\ w[1] = x
  BY <1>3, <1>5, <1>6, <1>7
<1>9. NumbersApart(w, p, reports)
  <2>1. /\ Distinct(replies) /\ Distinct(reports) /\ Apart(replies, reports)
    BY <1>2 DEF NumbersApart
  <2>2. Distinct(p)
    BY <1>3, <1>8, <2>1 DEF Distinct
  <2>3. Apart(w, p)
    BY <1>3, <1>4, <1>8, <2>1 DEF Apart, Distinct
  <2>4. Apart(w, reports)
    BY <1>3, <1>4, <1>8, <2>1 DEF Apart
  <2>5. Apart(p, reports)
    BY <1>8, <2>1 DEF Apart
  <2> QED
    BY <1>8, <2>1, <2>2, <2>3, <2>4, <2>5 DEF NumbersApart
<1>10. /\ \A i \in 1 .. Len(w) : Due(w[i])
       /\ \A i \in 1 .. Len(p) : Due(p[i])
       /\ \A i \in 1 .. Len(reports) : Due(reports[i])
       /\ reports \in Seq(Tag)
  BY <1>2, <1>3, <1>4, <1>8 DEF AllDue
<1>11. LabelLines'
  <2>1. writing' = w /\ replies' = p /\ reports' = reports
    BY <1>1, <1>3, <1>4, <1>5, <1>7
  <2>2. LabelLines
    BY DEF LabelCore
  <2>3. UNCHANGED <<moons, nextSeq, published, consumed, cutscene, cutSeq>>
    BY <1>1
  <2> QED
    BY <1>9, <1>10, <2>1, <2>2, <2>3, LinesShift
<1>12. writing' # <<>>
  BY <1>1, <1>3, <1>4, <1>6
<1>13. LabelNumbers' /\ LabelText'
  BY <1>1, <1>12, LabelConstants DEF LabelCore, LabelNumbers, LabelText
<1>14. LabelShown' /\ LabelInTime'
  BY <1>1, <1>12 DEF LabelCore, LabelShown, LabelInTime
<1> QED
  BY <1>11, <1>13, <1>14 DEF LabelCore

\* The first, and only, label the worker writes.
LEMMA WritingDue ==
  ASSUME LabelLines, writing # <<>>
  PROVE  /\ writing[1].of \in 1 .. moons /\ writing[1].seq \in 1 .. nextSeq - 1
         /\ writing[1].seq \notin {published, consumed}
         /\ cutscene # 0 => (writing[1].seq = cutSeq <=> writing[1].of = cutscene)
<1>1. AllDue(writing)
  BY DEF LabelLines
<1>2. 1 \in 1 .. Len(writing)
  BY <1>1, TailLine DEF AllDue
<1> QED
  BY <1>1, <1>2 DEF AllDue, Due

LEMMA EndTextInv == ASSUME LabelCore, EndText PROVE LabelCore'
<1>1. /\ writing # <<>> /\ ~written /\ written' = TRUE
      /\ text' = (IF overrun THEN Garbled ELSE writing[1].of)
      /\ tooLate' = FALSE /\ tardy' = Stray(writing[1].of)
      /\ UNCHANGED <<cutscene, cutSeq, pane, nextSeq, consumed, published, writing, overrun,
                     replies, reports, moons>>
  BY DEF EndText, frameVars, lineTables
<1>2. PICK m : m = writing[1].of
  OBVIOUS
<1>3. LabelLines'
  BY <1>1, LinesKept DEF LabelCore
<1>4. m \in 1 .. moons /\ text' = m
  BY <1>1, <1>2, WritingDue DEF LabelCore, LabelText
<1>5. m \in {cutscene} \cup tardy' /\ tardy \subseteq tardy'
  BY <1>1, <1>2 DEF Stray
<1>6. LabelNumbers'
  BY <1>1 DEF LabelCore, LabelNumbers
<1>7. text' # Garbled /\ text' # Vanilla
  BY <1>4, <1>6, LabelConstants DEF LabelCore, LabelNumbers
<1>8. LabelText'
  BY <1>1, <1>2, <1>4, <1>7 DEF LabelCore, LabelText
<1>9. LabelShown' /\ LabelInTime'
  BY <1>1, <1>4, <1>5 DEF LabelCore, LabelShown, LabelInTime
<1> QED
  BY <1>3, <1>6, <1>8, <1>9 DEF LabelCore

\* The number goes last: what it announces is whole.
LEMMA PublishInv == ASSUME LabelCore, Publish PROVE LabelCore'
<1>1. /\ writing # <<>> /\ written /\ published' = writing[1].seq /\ writing' = <<>>
      /\ tardy' = Stray(writing[1].of)
      /\ UNCHANGED <<cutscene, cutSeq, pane, nextSeq, consumed, text, tooLate, written, overrun,
                     replies, reports, moons>>
  BY DEF Publish, frameVars, lineTables
<1>2. PICK m : m = writing[1].of
  OBVIOUS
<1>3. PICK n : n = writing[1].seq
  OBVIOUS
<1>4. /\ m \in 1 .. moons /\ n \in 1 .. nextSeq - 1 /\ n \notin {published, consumed}
      /\ cutscene # 0 => (n = cutSeq <=> m = cutscene)
      /\ text = m
  BY <1>1, <1>2, <1>3, WritingDue DEF LabelCore, LabelText
<1>5. m \in {cutscene} \cup tardy' /\ tardy \subseteq tardy'
  BY <1>1, <1>2 DEF Stray
<1>6. LabelNumbers'
  BY <1>1, <1>3, <1>4 DEF LabelCore, LabelNumbers
<1>7. text # Garbled /\ text # Vanilla
  BY <1>4, <1>6, LabelConstants DEF LabelCore, LabelNumbers
<1>8. LabelText'
  BY <1>1, <1>7 DEF LabelCore, LabelText
<1>9. LabelShown'
  BY <1>1, <1>3, <1>4, <1>5, <1>7 DEF LabelCore, LabelShown
<1>10. LabelInTime'
  BY <1>1, <1>3, <1>4 DEF LabelCore, LabelInTime
<1>11. 1 \in 1 .. Len(writing)
  BY <1>1, TailLine DEF LabelCore, LabelLines, AllDue
<1>12. AllDue(replies)'
  <2>1. replies \in Seq(Tag) /\ \A i \in 1 .. Len(replies) : Due(replies[i])
    BY DEF LabelCore, LabelLines, AllDue
  <2>2. \A i \in 1 .. Len(replies) : n # replies[i].seq
    BY <1>3, <1>11 DEF LabelCore, LabelLines, NumbersApart, Apart
  <2> QED
    BY <1>1, <1>3, <2>1, <2>2 DEF AllDue, Due
<1>13. AllDue(reports)'
  <2>1. reports \in Seq(Tag) /\ \A i \in 1 .. Len(reports) : Due(reports[i])
    BY DEF LabelCore, LabelLines, AllDue
  <2>2. \A i \in 1 .. Len(reports) : n # reports[i].seq
    BY <1>3, <1>11 DEF LabelCore, LabelLines, NumbersApart, Apart
  <2> QED
    BY <1>1, <1>3, <2>1, <2>2 DEF AllDue, Due
<1>14. AllDue(writing)' /\ Len(writing') = 0
  BY <1>1, EmptyLines DEF AllDue
<1>15. NumbersApart(writing, replies, reports)'
  BY <1>1, <1>14 DEF LabelCore, LabelLines, NumbersApart, Distinct, Apart
<1> QED
  BY <1>6, <1>8, <1>9, <1>10, <1>12, <1>13, <1>14, <1>15 DEF LabelCore, LabelLines

\* Steps of the client and the connection leave the threads of the game alone.
LEMMA OnlyLines ==
  ASSUME LabelCore, LabelLines',
         UNCHANGED <<cutscene, cutSeq, pane, nextSeq, consumed, text, published, tooLate, writing,
                     written, overrun, moons, tardy>>
  PROVE  LabelCore'
  BY DEF LabelCore, LabelNumbers, LabelText, LabelShown, LabelInTime

LEMMA AnswerCheckInv == ASSUME LabelCore, AnswerCheck PROVE LabelCore'
<1>1. /\ reports # <<>> /\ reports' = Tail(reports)
      /\ UNCHANGED <<cutscene, cutSeq, pane, nextSeq, consumed, text, published, tooLate, writing,
                     written, overrun, moons, tardy>>
  BY DEF AnswerCheck, frameVars, pendingVars, textVars
<1>2. PICK label \in {<<Head(reports)>>, <<>>} : replies' = replies \o label
  BY DEF AnswerCheck, ComposeLabel
<1>3. /\ AllDue(writing) /\ AllDue(replies) /\ AllDue(reports)
      /\ NumbersApart(writing, replies, reports)
  BY DEF LabelCore, LabelLines
<1>4. /\ Tail(reports) \in Seq(Tag) /\ Len(Tail(reports)) = Len(reports) - 1
      /\ Len(reports) \in Nat \ {0} /\ Head(reports) = reports[1] /\ reports[1] \in Tag
      /\ \A i \in 1 .. Len(Tail(reports)) :
           i + 1 \in 1 .. Len(reports) /\ Tail(reports)[i] = reports[i + 1]
  BY <1>1, <1>3, TailLine DEF AllDue
<1>5. PICK r \in Seq(Tag) : r = Tail(reports)
  BY <1>4
<1>6. PICK x \in Tag : x = reports[1]
  BY <1>4
<1>7. replies \in Seq(Tag) /\ writing \in Seq(Tag)
  BY <1>3 DEF AllDue
<1>8. replies' \in {replies, Append(replies, x)}
  <2>1. CASE label = <<>>
    BY <1>2, <1>7, <2>1
  <2>2. CASE label = <<x>>
    BY <1>2, <1>7, <2>2
  <2> QED
    BY <1>2, <1>4, <1>6, <2>1, <2>2
<1>9. PICK p \in Seq(Tag) : p = Append(replies, x)
  <2>1. Append(replies, x) \in Seq(Tag)
    BY <1>7, AddLine
  <2> QED
    BY <2>1
<1>10. /\ Len(p) = Len(replies) + 1 /\ Len(replies) \in Nat
       /\ \A i \in 1 .. Len(replies) : p[i] = replies[i]
       /\ p[Len(replies) + 1] = x
  BY <1>7, <1>9, AddLine
<1>11. /\ Len(r) = Len(reports) - 1
       /\ \A i \in 1 .. Len(r) : i + 1 \in 1 .. Len(reports) /\ r[i] = reports[i + 1]
  BY <1>4, <1>5
<1>12. /\ Len(writing) <= 1 /\ Distinct(replies) /\ Distinct(reports)
       /\ Apart(writing, replies) /\ Apart(writing, reports) /\ Apart(replies, reports)
  BY <1>3 DEF NumbersApart
<1>13. Distinct(r) /\ Apart(writing, r) /\ Apart(replies, r)
  <2>1. Distinct(r)
    BY <1>4, <1>11, <1>12 DEF Distinct
  <2>2. Apart(writing, r)
    BY <1>11, <1>12 DEF Apart
  <2>3. Apart(replies, r)
    BY <1>11, <1>12 DEF Apart
  <2> QED
    BY <2>1, <2>2, <2>3
<1>14. 1 \in 1 .. Len(reports)
  BY <1>4
<1>15. \A i \in 1 .. Len(p) : i \in 1 .. Len(replies) \/ i = Len(replies) + 1
  BY <1>10
<1>16. Distinct(p)
  <2>1. \A i \in 1 .. Len(replies) : replies[i].seq # x.seq
    BY <1>6, <1>12, <1>14 DEF Apart
  <2> SUFFICES ASSUME NEW i \in 1 .. Len(p), NEW j \in 1 .. Len(p), p[i].seq = p[j].seq
               PROVE  i = j
    BY DEF Distinct
  <2>2. CASE i \in 1 .. Len(replies) /\ j \in 1 .. Len(replies)
    BY <1>10, <1>12, <2>2 DEF Distinct
  <2>3. CASE i \in 1 .. Len(replies) /\ j = Len(replies) + 1
    BY <1>10, <2>1, <2>3
  <2>4. CASE i = Len(replies) + 1 /\ j \in 1 .. Len(replies)
    BY <1>10, <2>1, <2>4
  <2> QED
    BY <1>15, <2>2, <2>3, <2>4
<1>17. Apart(writing, p)
  <2>1. \A i \in 1 .. Len(writing) : writing[i].seq # x.seq
    BY <1>6, <1>12, <1>14 DEF Apart
  <2> QED
    BY <1>10, <1>12, <1>15, <2>1 DEF Apart
<1>18. Apart(p, r)
  <2>1. \A j \in 1 .. Len(r) : x.seq # r[j].seq
    BY <1>4, <1>6, <1>11, <1>12, <1>14 DEF Distinct
  <2> QED
    BY <1>10, <1>13, <1>15, <2>1 DEF Apart
<1>19. /\ \A i \in 1 .. Len(r) : Due(r[i])
       /\ \A i \in 1 .. Len(writing) : Due(writing[i])
       /\ \A i \in 1 .. Len(replies) : Due(replies[i])
       /\ Due(x)
  BY <1>3, <1>6, <1>11, <1>14 DEF AllDue
<1>20. \A i \in 1 .. Len(p) : Due(p[i])
  BY <1>10, <1>15, <1>19
<1>21. LabelLines
  BY DEF LabelCore
<1>22. CASE replies' = replies
  <2>1. NumbersApart(writing, replies, r)
    BY <1>12, <1>13 DEF NumbersApart
  <2>2. LabelLines'
    BY <1>1, <1>5, <1>7, <1>19, <1>21, <1>22, <2>1, LinesShift
  <2> QED
    BY <1>1, <2>2, OnlyLines
<1>23. CASE replies' = p
  <2>1. NumbersApart(writing, p, r)
    BY <1>12, <1>13, <1>16, <1>17, <1>18 DEF NumbersApart
  <2>2. LabelLines'
    BY <1>1, <1>5, <1>7, <1>19, <1>20, <1>21, <1>23, <2>1, LinesShift
  <2> QED
    BY <1>1, <2>2, OnlyLines
<1> QED
  BY <1>8, <1>9, <1>22, <1>23

\* What is lost makes room for nothing.
LEMMA UnlinkInv == ASSUME LabelCore, Unlink PROVE LabelCore'
<1>1. /\ replies' = <<>>
      /\ UNCHANGED <<cutscene, cutSeq, pane, nextSeq, consumed, text, published, tooLate, writing,
                     written, overrun, moons, tardy>>
  BY DEF Unlink, frameVars, pendingVars, textVars
<1>2. PICK n \in 0 .. Len(reports) : reports' = SubSeq(reports, n + 1, Len(reports))
  BY DEF Unlink
<1>3. /\ AllDue(writing) /\ AllDue(reports) /\ NumbersApart(writing, replies, reports)
  BY DEF LabelCore, LabelLines
<1>4. /\ SubSeq(reports, n + 1, Len(reports)) \in Seq(Tag)
      /\ Len(SubSeq(reports, n + 1, Len(reports))) = Len(reports) - n /\ Len(reports) \in Nat
      /\ \A i \in 1 .. Len(reports) - n :
           i + n \in 1 .. Len(reports) /\ SubSeq(reports, n + 1, Len(reports))[i] = reports[i + n]
  BY <1>3, SubLine, LenProperties DEF AllDue
<1>5. PICK r \in Seq(Tag) : r = SubSeq(reports, n + 1, Len(reports))
  BY <1>4
<1>6. \A i \in 1 .. Len(r) : i + n \in 1 .. Len(reports) /\ r[i] = reports[i + n]
  BY <1>4, <1>5
<1>7. PICK e \in Seq(Tag) : e = <<>>
  BY EmptyLines DEF AllDue
<1>8. Len(e) = 0
  BY <1>7, EmptyLines
<1>9. NumbersApart(writing, e, r)
  <2>1. Len(writing) <= 1 /\ Distinct(reports) /\ Apart(writing, reports)
    BY <1>3 DEF NumbersApart
  <2>2. Distinct(r)
    <3> SUFFICES ASSUME NEW i \in 1 .. Len(r), NEW j \in 1 .. Len(r), r[i].seq = r[j].seq
                 PROVE  i = j
      BY DEF Distinct
    <3>1. i + n \in 1 .. Len(reports) /\ j + n \in 1 .. Len(reports) /\ n \in Nat
      BY <1>2, <1>6
    <3>2. reports[i + n].seq = reports[j + n].seq
      BY <1>6
    <3>3. i + n = j + n
      BY <2>1, <3>1, <3>2 DEF Distinct
    <3> QED
      BY <3>1, <3>3
  <2>3. Apart(writing, r)
    BY <1>6, <2>1 DEF Apart
  <2>4. Distinct(e) /\ Apart(writing, e) /\ Apart(e, r)
    BY <1>8 DEF Distinct, Apart
  <2> QED
    BY <2>1, <2>2, <2>3, <2>4 DEF NumbersApart
<1>10. /\ \A i \in 1 .. Len(r) : Due(r[i])
       /\ \A i \in 1 .. Len(e) : Due(e[i])
       /\ \A i \in 1 .. Len(writing) : Due(writing[i])
       /\ writing \in Seq(Tag)
  BY <1>3, <1>6, <1>8 DEF AllDue
<1>11. LabelLines'
  <2>1. replies' = e /\ reports' = r /\ writing' = writing
    BY <1>1, <1>2, <1>5, <1>7
  <2>2. LabelLines
    BY DEF LabelCore
  <2> QED
    BY <1>1, <1>9, <1>10, <2>1, <2>2, LinesShift
<1> QED
  BY <1>1, <1>11, OnlyLines

LEMMA RestartLabelsInv == ASSUME LabelCore, RestartLabels, ~clashed' PROVE LabelCore'
<1>1. /\ cutscene' = 0 /\ cutSeq' = 0 /\ pane' = Vanilla /\ nextSeq' = 1 /\ consumed' = 0
      /\ text' = Vanilla /\ published' = 0 /\ tooLate' = FALSE
      /\ writing' = <<>> /\ written' = FALSE /\ overrun' = FALSE /\ replies' = <<>>
      /\ reports' = <<>> /\ UNCHANGED <<moons, tardy>>
  BY DEF RestartLabels
<1>2. LabelLines'
  BY <1>1, EmptyLines DEF LabelLines, AllDue, NumbersApart, Distinct, Apart
<1>3. LabelNumbers' /\ LabelText' /\ LabelShown' /\ LabelInTime'
  BY <1>1, LabelConstants DEF LabelCore, LabelNumbers, LabelText, LabelShown, LabelInTime
<1> QED
  BY <1>2, <1>3 DEF LabelCore

LEMMA LabelStep == ASSUME LabelInv, [LabelNext]_labelVars PROVE LabelInv'
<1> SUFFICES ASSUME ~clashed' PROVE LabelCore'
  BY DEF LabelInv
<1>1. ~clashed
  BY DEF LabelNext, labelVars, CollectMoon, CollectBlocked, CutsceneFrame, LabelExpires, BeginText,
         EndText, Publish, AnswerCheck, Link, Unlink, RestartLabels
<1>2. LabelCore
  BY <1>1 DEF LabelInv
<1>3. CASE CollectMoon \/ CollectBlocked \/ CutsceneFrame \/ LabelExpires
  BY <1>2, <1>3, CollectMoonInv, CollectBlockedInv, CutsceneFrameInv, LabelExpiresInv
<1>4. CASE BeginText \/ EndText \/ Publish
  BY <1>2, <1>4, BeginTextInv, EndTextInv, PublishInv
<1>5. CASE AnswerCheck \/ Unlink \/ RestartLabels
  BY <1>2, <1>5, AnswerCheckInv, UnlinkInv, RestartLabelsInv
<1>6. CASE Link \/ UNCHANGED labelVars
  <2>1. UNCHANGED <<cutscene, cutSeq, pane, nextSeq, consumed, text, published, tooLate, writing,
                    written, overrun, reports, replies, moons, tardy>>
    BY <1>6 DEF Link, labelVars, frameVars, pendingVars, textVars, lineTables
  <2>2. LabelLines'
    BY <1>2, <2>1, LinesKept DEF LabelCore
  <2> QED
    BY <1>2, <2>1, <2>2, OnlyLines
<1> QED
  BY <1>3, <1>4, <1>5, <1>6 DEF LabelNext

\* A cutscene shows its own label or none, unless the other was too late or the threads
\* wrote at once (ApState.cpp, MoonLabelHook.cpp).
THEOREM CutscenesShowTheirLabel == LabelSpec => []LabelOwn
<1>1. LabelInv => LabelOwn
  <2> SUFFICES ASSUME LabelCore, cutscene # 0 PROVE LabelOwn
    BY DEF LabelInv, LabelOwn
  <2> QED
    BY DEF LabelCore, LabelShown, LabelInTime, LabelOwn
<1> QED
  BY LabelInitial, LabelStep, <1>1, PTL DEF LabelSpec

(***************************************************************************)
(* DetourGate: what the Switch has of the gates and the balance, and what  *)
(* that says of the moons received.                                        *)
(***************************************************************************)

\* The gates that are stored are those of the slot, and the balance is that of the last
\* reading, wherever the Switch has what the client sent.
DetourTypes ==
  /\ rolled \in Rolls \cup {Unrolled} /\ storing \subseteq Siblings
  /\ received \in [Siblings -> Nat] /\ purse \in [Siblings -> Nat] /\ paid \in [Siblings -> Nat]
  /\ reading \in [Siblings -> Nat] \cup {NoReading}
  /\ gate \in [Siblings -> Nat \cup {-1}]

GatesStored == open /\ ~gatesDue => \A k \in Siblings \ storing : gate[k] = rolled[k]

BalanceSent ==
  open /\ ~reportDue =>
    /\ reading = paid
    /\ \A k \in Siblings : purse[k] = Most(0, received[k] - paid[k])

OutEarned == place = "exit" /\ ~hasty => Earned

DetourInv == DetourTypes /\ GatesStored /\ BalanceSent /\ OutEarned

\* A roll asks for at least one moon, and for no more than the pool has.
LEMMA RollBounds ==
  ASSUME NEW g \in Rolls, NEW k \in Siblings
  PROVE  g[k] \in Nat \ {0} /\ (Capacity[k] > 0 => g[k] <= Capacity[k])
<1>1. g[k] \in RollsOf(k)
  BY DEF Rolls
<1>2. VanillaGate[k] \in Nat \ {0} /\ Capacity[k] \in Nat /\ Spread \in Nat
  BY DetourAssumption
<1>3. Lo(k) \in Nat \ {0} /\ Hi(k) \in Nat /\ Hi(k) <= Capacity[k]
  BY <1>2 DEF Lo, Hi, Least, Most
<1>4. CASE k \in Walkers
  BY <1>1, <1>2, <1>3, <1>4 DEF RollsOf
<1>5. CASE k \notin Walkers
  BY <1>1, <1>2, <1>3, <1>5 DEF RollsOf, Most
<1> QED
  BY <1>4, <1>5

LEMMA RolledType ==
  ASSUME NEW g \in Rolls \cup {Unrolled}
  PROVE  g \in [Siblings -> Nat \cup {-1}]
<1>1. CASE g = Unrolled
  BY <1>1 DEF Unrolled
<1>2. CASE g \in Rolls
  <2>1. \A k \in Siblings : g[k] \in Nat
    BY <1>2, RollBounds
  <2>2. g = [k \in Siblings |-> g[k]]
    BY <1>2 DEF Rolls
  <2> QED
    BY <2>1, <2>2
<1> QED
  BY <1>1, <1>2

LEMMA OutstandingType ==
  ASSUME purse \in [Siblings -> Nat], NEW r \in [Siblings -> Nat],
         NEW n \in [Siblings -> Nat] \cup {NoReading}
  PROVE  /\ Outstanding(r, n) \in [Siblings -> Nat]
         /\ open /\ n # NoReading => \A k \in Siblings : Outstanding(r, n)[k] = Most(0, r[k] - n[k])
<1>1. CASE n = NoReading \/ ~open
  BY <1>1 DEF Outstanding
<1>2. CASE n # NoReading /\ open
  <2>1. Outstanding(r, n) = [k \in Siblings |-> Most(0, r[k] - n[k])]
    BY <1>2 DEF Outstanding
  <2>2. \A k \in Siblings : Most(0, r[k] - n[k]) \in Nat
    BY <1>2 DEF Most
  <2> QED
    BY <1>2, <2>1, <2>2
<1> QED
  BY <1>1, <1>2

\* What lets him out has been received: the purse and the deposits together.
LEMMA ExitIsEarned ==
  ASSUME DetourInv, InStep
  PROVE  Unmet = {} <=> Earned
<1>1. ASSUME NEW k \in Siblings PROVE Collected(k) = received[k] /\ Need(k) = Asked(k)
  <2>1. purse[k] = Most(0, received[k] - paid[k]) /\ received[k] \in Nat /\ paid[k] \in Nat
    BY DEF DetourInv, DetourTypes, BalanceSent, InStep
  <2>2. paid[k] <= received[k]
    BY DEF InStep
  <2>3. Collected(k) = received[k]
    BY <2>1, <2>2 DEF Collected, Most
  <2>4. gate[k] = rolled[k]
    BY DEF DetourInv, GatesStored, InStep
  <2>5. CASE rolled = Unrolled
    <3>1. gate[k] = -1
      BY <2>4, <2>5 DEF Unrolled
    <3>2. Need(k) = VanillaGate[k] /\ Asked(k) = VanillaGate[k]
      BY <2>5, <3>1 DEF Need, Asked
    <3> QED
      BY <2>3, <3>2
  <2>6. CASE rolled # Unrolled
    <3>1. rolled[k] \in Nat
      BY <2>6, RollBounds DEF DetourInv, DetourTypes
    <3> QED
      BY <2>3, <2>4, <2>6, <3>1 DEF Need, Asked
  <2> QED
    BY <2>3, <2>5, <2>6
<1>2. \A k \in Siblings : received[k] \in Nat /\ Asked(k) \in Int
  <2> TAKE k \in Siblings
  <2>1. CASE rolled = Unrolled
    BY <2>1, DetourAssumption DEF Asked, DetourInv, DetourTypes
  <2>2. CASE rolled # Unrolled
    BY <2>2, RollBounds DEF Asked, DetourInv, DetourTypes
  <2> QED
    BY <2>1, <2>2
<1>3. Unmet = {} <=> \A k \in Siblings : ~(Collected(k) < Need(k))
  BY DEF Unmet
<1>4. \A k \in Siblings : ~(Collected(k) < Need(k)) <=> received[k] >= Asked(k)
  BY <1>1, <1>2
<1> QED
  BY <1>3, <1>4 DEF Earned

LEMMA DetourInitial == DetourInit => DetourInv
<1> SUFFICES ASSUME DetourInit PROVE DetourInv
  OBVIOUS
<1>1. DetourTypes
  BY RolledType DEF DetourInit, DetourTypes, Zeroes, Unrolled
<1> QED
  BY <1>1, DetourAssumption DEF DetourInit, DetourInv, GatesStored, BalanceSent, OutEarned

LEMMA ReceiveMoonInv == ASSUME DetourInv, NEW k \in Siblings, ReceiveMoon(k) PROVE DetourInv'
<1>1. /\ received' = [received EXCEPT ![k] = received[k] + 1]
      /\ purse' = Outstanding(received', reading)
      /\ UNCHANGED <<rolled, reading, gatesDue, open, reportDue, gate, storing, paid, place, hasty>>
  BY DEF ReceiveMoon
<1>2. DetourTypes
  BY DEF DetourInv
<1>3. /\ received' \in [Siblings -> Nat] /\ received \in [Siblings -> Nat]
      /\ \A j \in Siblings : received'[j] >= received[j]
  BY <1>1, <1>2 DEF DetourTypes
<1>4. /\ purse' \in [Siblings -> Nat]
      /\ open /\ reading # NoReading =>
           \A j \in Siblings : purse'[j] = Most(0, received'[j] - reading[j])
  BY <1>1, <1>2, <1>3, OutstandingType DEF DetourTypes
<1>5. DetourTypes'
  BY <1>1, <1>2, <1>3, <1>4 DEF DetourTypes
<1>6. GatesStored'
  BY <1>1 DEF DetourInv, GatesStored
<1>7. BalanceSent'
  <2> SUFFICES ASSUME open, ~reportDue
               PROVE  reading = paid /\ \A j \in Siblings : purse'[j] = Most(0, received'[j] - paid[j])
    BY <1>1 DEF BalanceSent
  <2>1. reading = paid
    BY DEF DetourInv, BalanceSent
  <2>2. reading # NoReading
    BY <1>2, <2>1, DetourAssumption DEF DetourTypes
  <2> QED
    BY <1>4, <2>1, <2>2
<1>8. OutEarned'
  <2>1. ASSUME Earned PROVE Earned'
    <3> SUFFICES ASSUME NEW j \in Siblings PROVE received'[j] >= Asked(j)'
      BY DEF Earned
    <3>1. Asked(j)' = Asked(j)
      BY <1>1 DEF Asked
    <3>2. received[j] >= Asked(j)
      BY <2>1 DEF Earned
    <3>3. Asked(j) \in Int
      <4>1. CASE rolled = Unrolled
        BY <4>1, DetourAssumption DEF Asked
      <4>2. CASE rolled # Unrolled
        BY <1>2, <4>2, RollBounds DEF Asked, DetourTypes
      <4> QED
        BY <4>1, <4>2
    <3> QED
      BY <1>3, <3>1, <3>2, <3>3
  <2> QED
    BY <1>1, <2>1 DEF DetourInv, OutEarned
<1> QED
  BY <1>5, <1>6, <1>7, <1>8 DEF DetourInv

\* Who is out has earned it as long as neither the slot nor what it has received changes.
LEMMA EarnedStays ==
  ASSUME DetourInv, UNCHANGED <<rolled, received>>,
         place' = "exit" => place = "exit" /\ hasty' = hasty
  PROVE  OutEarned'
  BY DEF DetourInv, OutEarned, Earned, Asked

LEMMA ReportInv == ASSUME DetourInv, Report PROVE DetourInv'
<1>1. /\ open /\ reportDue' = FALSE /\ reading' = paid /\ purse' = Outstanding(received, paid)
      /\ UNCHANGED <<rolled, received, gatesDue, open, gate, storing, paid, place, hasty>>
  BY DEF Report
<1>2. DetourTypes
  BY DEF DetourInv
<1>3. paid # NoReading
  BY <1>2, DetourAssumption DEF DetourTypes
<1>4. /\ purse' \in [Siblings -> Nat]
      /\ \A j \in Siblings : purse'[j] = Most(0, received[j] - paid[j])
  BY <1>1, <1>2, <1>3, OutstandingType DEF DetourTypes
<1>5. DetourTypes' /\ GatesStored' /\ BalanceSent'
  BY <1>1, <1>2, <1>4 DEF DetourInv, DetourTypes, GatesStored, BalanceSent
<1> QED
  BY <1>1, <1>5, EarnedStays DEF DetourInv

LEMMA PushGatesInv == ASSUME DetourInv, PushGates PROVE DetourInv'
<1>1. /\ storing = {} /\ gatesDue' = FALSE /\ gate' = Unrolled
      /\ storing' = (IF rolled = Unrolled THEN {} ELSE Siblings)
      /\ UNCHANGED <<rolled, received, reading, open, reportDue, purse, paid, place, hasty>>
  BY DEF PushGates
<1>2. DetourTypes' /\ BalanceSent'
  BY <1>1, RolledType DEF DetourInv, DetourTypes, BalanceSent
<1>3. GatesStored'
  BY <1>1 DEF GatesStored
<1> QED
  BY <1>1, <1>2, <1>3, EarnedStays DEF DetourInv

LEMMA StoreGateInv == ASSUME DetourInv, NEW k \in Siblings, StoreGate(k) PROVE DetourInv'
<1>1. /\ storing' = storing \ {k} /\ gate' = [gate EXCEPT ![k] = rolled[k]]
      /\ UNCHANGED <<rolled, received, reading, gatesDue, open, reportDue, purse, paid, place, hasty>>
  BY DEF StoreGate
<1>2. rolled[k] \in Nat \cup {-1}
  BY RolledType DEF DetourInv, DetourTypes
<1>3. DetourTypes'
  BY <1>1, <1>2 DEF DetourInv, DetourTypes
<1>4. GatesStored' /\ BalanceSent'
  BY <1>1 DEF DetourInv, DetourTypes, GatesStored, BalanceSent
<1> QED
  BY <1>1, <1>3, <1>4, EarnedStays DEF DetourInv

LEMMA DepositInv == ASSUME DetourInv, NEW k \in Siblings, Deposit(k) PROVE DetourInv'
<1>1. /\ paid' = [paid EXCEPT ![k] = paid[k] + 1] /\ reportDue' = TRUE
      /\ UNCHANGED <<rolled, received, reading, gatesDue, open, gate, storing, purse, place, hasty>>
  BY DEF Deposit
<1>2. DetourTypes' /\ GatesStored' /\ BalanceSent'
  BY <1>1 DEF DetourInv, DetourTypes, GatesStored, BalanceSent
<1> QED
  BY <1>1, <1>2, EarnedStays DEF DetourInv

LEMMA FlyOutInv == ASSUME DetourInv, FlyOut PROVE DetourInv'
<1>1. UNCHANGED <<rolled, received, reading, gatesDue, open, reportDue, gate, storing, purse, paid>>
  BY DEF FlyOut
<1>2. DetourTypes' /\ GatesStored' /\ BalanceSent'
  BY <1>1 DEF DetourInv, DetourTypes, GatesStored, BalanceSent
<1>3. OutEarned'
  <2> SUFFICES ASSUME place' = "exit", ~hasty' PROVE Earned'
    BY DEF OutEarned
  <2>1. Unmet = {} /\ InStep
    BY DetourAssumption DEF FlyOut, Unmet
  <2>2. Earned
    BY <2>1, ExitIsEarned
  <2> QED
    BY <1>1, <2>2 DEF Earned, Asked
<1> QED
  BY <1>2, <1>3 DEF DetourInv

\* Steps that cut the connection, or make the client send everything again.
LEMMA DetourLinkInv ==
  ASSUME DetourInv, OpenLink \/ CloseLink \/ LoadSave \/ ChangeSlot \/ RestartGame
  PROVE  DetourInv'
<1>1. CASE OpenLink
  <2>1. DetourTypes' /\ GatesStored' /\ BalanceSent'
    BY <1>1 DEF OpenLink, DetourInv, DetourTypes, GatesStored, BalanceSent
  <2> QED
    BY <1>1, <2>1, EarnedStays DEF OpenLink, DetourInv
<1>2. CASE CloseLink
  <2>1. DetourTypes' /\ GatesStored' /\ BalanceSent'
    BY <1>2 DEF CloseLink, DetourInv, DetourTypes, GatesStored, BalanceSent
  <2> QED
    BY <1>2, <2>1, EarnedStays DEF CloseLink, DetourInv
<1>3. place' \in Siblings \cup {"away"} => place' # "exit"
  BY DetourAssumption
<1>4. Saves \subseteq [Siblings -> Nat] /\ Zeroes \in [Siblings -> Nat]
  BY DEF Saves, Zeroes
<1>5. CASE LoadSave
  BY <1>3, <1>4, <1>5 DEF LoadSave, DetourInv, DetourTypes, GatesStored, BalanceSent, OutEarned
<1>6. CASE ChangeSlot
  BY <1>3, <1>4, <1>6 DEF ChangeSlot, DetourInv, DetourTypes, GatesStored, BalanceSent, OutEarned
<1>7. CASE RestartGame
  BY <1>3, <1>4, <1>7, RolledType
     DEF RestartGame, DetourInv, DetourTypes, GatesStored, BalanceSent, OutEarned
<1> QED
  BY <1>1, <1>2, <1>5, <1>6, <1>7

LEMMA DetourStep == ASSUME DetourInv, [DetourNext]_detourVars PROVE DetourInv'
<1>1. CASE \E k \in Siblings : ReceiveMoon(k) \/ StoreGate(k) \/ Deposit(k)
  BY <1>1, ReceiveMoonInv, StoreGateInv, DepositInv
<1>2. CASE Report \/ PushGates \/ FlyOut
  BY <1>2, ReportInv, PushGatesInv, FlyOutInv
<1>3. CASE OpenLink \/ CloseLink \/ LoadSave \/ ChangeSlot \/ RestartGame
  BY <1>3, DetourLinkInv
<1>4. CASE UNCHANGED detourVars
  <2>1. DetourTypes' /\ GatesStored' /\ BalanceSent'
    BY <1>4 DEF detourVars, DetourInv, DetourTypes, GatesStored, BalanceSent
  <2> QED
    BY <1>4, <2>1, EarnedStays DEF detourVars, DetourInv
<1> QED
  BY <1>1, <1>2, <1>3, <1>4 DEF DetourNext

LEMMA DetourHonest == DetourInv => GateHonest
<1> SUFFICES ASSUME DetourInv PROVE GateHonest
  OBVIOUS
<1>1. place = "exit" /\ ~hasty => Earned
  BY DEF DetourInv, OutEarned
<1>2. InStep /\ Earned => Unmet = {}
  BY ExitIsEarned
<1>3. ASSUME rolled # Unrolled, \A k \in Siblings : received[k] = Capacity[k] /\ Capacity[k] > 0
      PROVE  Earned
  <2> SUFFICES ASSUME NEW k \in Siblings PROVE received[k] >= Asked(k)
    BY DEF Earned
  <2>1. rolled \in Rolls /\ Asked(k) = rolled[k]
    BY <1>3 DEF DetourInv, DetourTypes, Asked
  <2>2. rolled[k] \in Nat /\ rolled[k] <= Capacity[k] /\ Capacity[k] \in Nat
    BY <1>3, <2>1, RollBounds, DetourAssumption
  <2> QED
    BY <1>3, <2>1, <2>2
<1> QED
  BY <1>1, <1>2, <1>3 DEF GateHonest

\* Nobody leaves a detour without the moons both kingdoms ask for, whoever has them does,
\* and the pool has them (EntranceShuffleHook.cpp, KingdomOrderGate.cpp, kingdom_gates.py).
THEOREM DetourIsHonest == DetourSpec => []GateHonest
  BY DetourInitial, DetourStep, DetourHonest, PTL DEF DetourSpec

(***************************************************************************)
(* SaveSession: what the player has been told, and what is still to be     *)
(* said.                                                                   *)
(***************************************************************************)

\* The last status in queue s is w.
LastSays(s, w) == \E i \in 1 .. Len(s) : s[i] = w /\ \A j \in 1 .. Len(s) : i < j => s[j] \notin Status

\* What the player knows, or will know once the queue is shown.
Hears(w) == LastSays(queue, w) \/ (~Has(queue, Status) /\ told = w)

Word(b) == IF b THEN "on" ELSE "off"

QueueTypes ==
  /\ queue \in Seq(Bubbles) /\ Len(queue) <= QueueCap /\ told \in Status
  /\ last \in BOOLEAN /\ apReady \in BOOLEAN /\ lines \in Seq(BOOLEAN)

\* The worker has said what it knows, unless it owes the announcement after a load.
ToldOrOwed == ~excused /\ ~announce => Hears(Word(last))

\* It knows what the PC said last, or a line that says so is on its way.
LinesTell ==
  /\ ~online => ~hello /\ ~broken /\ lines = <<>>
  /\ ~online /\ ~grace => ~last
  /\ online /\ ~broken /\ ~hello =>
       /\ lines = <<>> => last = apReady /\ ~grace
       /\ lines # <<>> => lines[Len(lines)] = apReady

SesInv == QueueTypes /\ ToldOrOwed /\ LinesTell

LEMMA SesConstants == QueueCap \in Nat
  BY SaveSessionAssumption

LEMMA StatusWords == "on" \in Status /\ "off" \in Status /\ "other" \notin Status /\ Status \subseteq Bubbles
                     /\ "other" \in Bubbles /\ \A b : Word(b) \in Status
  BY DEF Status, Bubbles, Word

LEMMA HasStatus ==
  ASSUME NEW s \in Seq(Bubbles)
  PROVE  Has(s, Status) <=> \E i \in 1 .. Len(s) : s[i] \in Status
  BY LenProperties DEF Has

LEMMA BubblesJoined ==
  ASSUME QueueTypes, NEW s \in Seq(Bubbles)
  PROVE  /\ Len(queue) \in Nat /\ Len(s) \in Nat
         /\ queue \o s \in Seq(Bubbles) /\ Len(queue \o s) = Len(queue) + Len(s)
         /\ \A i \in 1 .. Len(queue) : (queue \o s)[i] = queue[i]
         /\ \A i \in 1 .. Len(s) : (queue \o s)[Len(queue) + i] = s[i]
<1>1. queue \in Seq(Bubbles)
  BY DEF QueueTypes
<1>2. Len(queue) \in Nat /\ Len(s) \in Nat
  BY <1>1, LenProperties
<1>3. /\ queue \o s \in Seq(Bubbles) /\ Len(queue \o s) = Len(queue) + Len(s)
      /\ \A i \in 1 .. Len(queue) + Len(s) :
           (queue \o s)[i] = IF i <= Len(queue) THEN queue[i] ELSE s[i - Len(queue)]
  BY <1>1, ConcatProperties
<1>4. \A i \in 1 .. Len(queue) : (queue \o s)[i] = queue[i]
  BY <1>2, <1>3
<1>5. ASSUME NEW i \in 1 .. Len(s) PROVE (queue \o s)[Len(queue) + i] = s[i]
  <2>1. /\ Len(queue) + i \in 1 .. Len(queue) + Len(s) /\ ~(Len(queue) + i <= Len(queue))
        /\ (Len(queue) + i) - Len(queue) = i
    BY <1>2
  <2> QED
    BY <1>3, <2>1
<1> QED
  BY <1>2, <1>3, <1>4, <1>5

\* Either all of s is queued; or what does not fit, and that is the end of s, is not.
LEMMA Enqueued ==
  ASSUME QueueTypes, NEW s \in Seq(Bubbles), NEW untold, Enqueue(s, untold)
  PROVE  /\ queue' \in Seq(Bubbles) /\ Len(queue') <= QueueCap
         /\ \/ queue' = queue \o s /\ (excused' <=> untold /\ ~Has(s, Status))
            \/ /\ Len(s) \in Nat \ {0} /\ Len(queue') = QueueCap
               /\ \A i \in 1 .. Len(queue') : queue'[i] = (queue \o s)[i]
               /\ s[Len(s)] \in Status => excused'
               /\ Len(s) = 1 /\ s[1] \notin Status =>
                    Len(queue') = Len(queue) /\ (excused' <=> untold)
<1>1. PICK all : all = queue \o s
  OBVIOUS
<1>2. PICK fits : fits = IF Len(all) <= QueueCap THEN all ELSE SubSeq(all, 1, QueueCap)
  OBVIOUS
<1>3. PICK rest : rest = SubSeq(all, Len(fits) + 1, Len(all))
  OBVIOUS
<1>4. queue' = fits /\ excused' = (Has(rest, Status) \/ (untold /\ ~Has(s, Status)))
  BY <1>1, <1>2, <1>3 DEF Enqueue
<1>5. /\ all \in Seq(Bubbles) /\ Len(all) = Len(queue) + Len(s) /\ Len(queue) \in Nat /\ Len(s) \in Nat
      /\ \A i \in 1 .. Len(s) : all[Len(queue) + i] = s[i]
  BY <1>1, BubblesJoined
<1>6. Len(queue) <= QueueCap /\ QueueCap \in Nat /\ Len(all) \in Nat
  BY <1>5, SesConstants DEF QueueTypes
<1>7. CASE Len(all) <= QueueCap
  <2>1. fits = all
    BY <1>2, <1>7
  <2>2. rest \in Seq(Bubbles) /\ Len(rest) = 0
    <3>1. \A i \in Len(all) + 1 .. Len(all) : all[i] \in Bubbles
      BY <1>6
    <3> QED
      BY <1>3, <1>6, <2>1, <3>1, SubSeqProperties
  <2>3. ~Has(rest, Status)
    <3>1. rest \in Seq(Bubbles) /\ \A i \in 1 .. Len(rest) : rest[i] \notin Status
      BY <2>2
    <3> QED
      BY <3>1, HasStatus
  <2> QED
    BY <1>1, <1>4, <1>5, <1>7, <2>1, <2>3
<1>8. CASE ~(Len(all) <= QueueCap)
  <2>1. \A i \in 1 .. Len(all) : all[i] \in Bubbles
    BY <1>5, ElementOfSeq
  <2>2. fits = SubSeq(all, 1, QueueCap)
    BY <1>2, <1>8
  <2>3. \A i \in 1 .. QueueCap : all[i] \in Bubbles
    BY <1>6, <1>8, <2>1
  <2>4. /\ fits \in Seq(Bubbles) /\ Len(fits) = QueueCap
        /\ \A i \in 1 .. QueueCap : fits[i] = all[i]
    <3>1. /\ fits \in Seq(Bubbles) /\ Len(fits) = (IF 1 <= QueueCap THEN QueueCap - 1 + 1 ELSE 0)
          /\ \A i \in 1 .. QueueCap - 1 + 1 : fits[i] = all[1 + i - 1]
      BY <1>6, <2>2, <2>3, SubSeqProperties
    <3> QED
      BY <1>6, <3>1
  <2>5. \A i \in QueueCap + 1 .. Len(all) : all[i] \in Bubbles
    BY <1>6, <2>1
  <2>6. /\ rest \in Seq(Bubbles) /\ Len(rest) = Len(all) - QueueCap
        /\ \A i \in 1 .. Len(all) - QueueCap : rest[i] = all[QueueCap + i]
    <3>1. /\ rest \in Seq(Bubbles)
          /\ Len(rest) = (IF QueueCap + 1 <= Len(all) THEN Len(all) - (QueueCap + 1) + 1 ELSE 0)
          /\ \A i \in 1 .. Len(all) - (QueueCap + 1) + 1 : rest[i] = all[(QueueCap + 1) + i - 1]
      BY <1>3, <1>6, <2>4, <2>5, SubSeqProperties
    <3>2. \A i \in 1 .. Len(all) - QueueCap : (QueueCap + 1) + i - 1 = QueueCap + i
      BY <1>6
    <3> QED
      BY <1>6, <1>8, <3>1, <3>2
  <2>7. Len(s) \in Nat \ {0} /\ Len(s) \in 1 .. Len(s)
    BY <1>5, <1>6, <1>8
  <2>8. Len(rest) \in 1 .. Len(rest) /\ rest[Len(rest)] = s[Len(s)]
    <3>1. rest[Len(rest)] = all[QueueCap + Len(rest)]
      BY <1>6, <1>8, <2>6
    <3>2. QueueCap + Len(rest) = Len(queue) + Len(s)
      BY <1>5, <1>6, <2>6
    <3> QED
      BY <1>5, <1>6, <1>8, <2>6, <2>7, <3>1, <3>2
  <2>9. s[Len(s)] \in Status => excused'
    BY <1>4, <2>6, <2>8, HasStatus
  <2>10. ASSUME Len(s) = 1, s[1] \notin Status
         PROVE  Len(fits) = Len(queue) /\ (excused' <=> untold)
    <3>1. QueueCap = Len(queue) /\ Len(rest) = 1
      BY <1>5, <1>6, <1>8, <2>6, <2>10
    <3>2. rest[1] = s[1]
      BY <2>8, <2>10, <3>1
    <3>3. ~Has(rest, Status) /\ ~Has(s, Status)
      BY <2>6, <2>10, <3>1, <3>2, HasStatus
    <3> QED
      BY <1>4, <2>4, <3>1, <3>3
  <2>11. \A i \in 1 .. Len(queue') : queue'[i] = (queue \o s)[i]
    BY <1>1, <1>4, <2>4
  <2>12. Len(s) = 1 /\ s[1] \notin Status => Len(queue') = Len(queue) /\ (excused' <=> untold)
    BY <1>4, <2>10
  <2>13. queue' \in Seq(Bubbles) /\ Len(queue') = QueueCap
    BY <1>4, <2>4
  <2>14. Len(queue') <= QueueCap
    BY <1>6, <2>13
  <2> QED
    BY <2>7, <2>9, <2>11, <2>12, <2>13, <2>14, Zenon
<1> QED
  BY <1>7, <1>8

\* Statuses that all say w: the player hears w, or is excused.
LEMMA StatusEnqueued ==
  ASSUME QueueTypes, NEW w \in Status, NEW s \in Seq(Bubbles), s # <<>>,
         \A i \in 1 .. Len(s) : s[i] = w, NEW untold, Enqueue(s, untold)
  PROVE  queue' \in Seq(Bubbles) /\ Len(queue') <= QueueCap /\ (excused' \/ LastSays(queue', w))
<1>1. Len(s) \in Nat \ {0}
  BY EmptySeq
<1>2. queue' \in Seq(Bubbles) /\ Len(queue') <= QueueCap
  BY Enqueued
<1>3. ASSUME ~excused' PROVE queue' = queue \o s
  <2>1. s[Len(s)] = w
    BY <1>1
  <2> QED
    BY <1>3, <2>1, Enqueued
<1>4. ASSUME queue' = queue \o s PROVE LastSays(queue', w)
  <2>1. /\ Len(queue') = Len(queue) + Len(s) /\ Len(queue) \in Nat
        /\ queue'[Len(queue) + Len(s)] = s[Len(s)]
    BY <1>1, <1>4, BubblesJoined
  <2>2. queue'[Len(queue')] = w /\ Len(queue') \in 1 .. Len(queue')
    BY <1>1, <2>1
  <2> QED
    BY <2>1, <2>2 DEF LastSays
<1> QED
  BY <1>2, <1>3, <1>4

\* Nothing to say.
LEMMA NoneEnqueued ==
  ASSUME QueueTypes, NEW untold, Enqueue(<<>>, untold)
  PROVE  queue' = queue /\ (excused' <=> untold)
<1>1. PICK s \in Seq(Bubbles) : s = <<>>
  BY EmptySeq
<1>2. Len(s) = 0
  BY <1>1
<1>3. Enqueue(s, untold)
  BY <1>1
<1>4. queue' = queue \o s /\ (excused' <=> untold /\ ~Has(s, Status))
  BY <1>2, <1>3, Enqueued
<1>5. ~Has(s, Status)
  <2>1. \A i \in 1 .. Len(s) : s[i] \notin Status
    BY <1>2
  <2> QED
    BY <2>1, HasStatus
<1>6. queue \in Seq(Bubbles)
  BY DEF QueueTypes
<1>7. queue \o <<>> = queue
  BY <1>6
<1> QED
  BY <1>1, <1>4, <1>5, <1>7

\* A bubble about an item changes nothing of what the player hears of the connection.
LEMMA OtherEnqueued ==
  ASSUME QueueTypes, NEW untold, Enqueue(<<"other">>, untold), told' = told
  PROVE  /\ queue' \in Seq(Bubbles) /\ Len(queue') <= QueueCap /\ (excused' <=> untold)
         /\ \A w \in Status : Hears(w) => Hears(w)'
<1>1. PICK s \in Seq(Bubbles) : s = <<"other">>
  <2>1. PICK x \in Bubbles : x = "other"
    BY StatusWords
  <2>2. <<x>> \in Seq(Bubbles)
    OBVIOUS
  <2> QED
    BY <2>1, <2>2
<1>2. Len(s) = 1 /\ s[1] = "other" /\ s[1] \notin Status
  BY <1>1, StatusWords
<1>3. Enqueue(s, untold)
  BY <1>1
<1>4. ~Has(s, Status)
  BY <1>2, HasStatus
<1>5. queue' \in Seq(Bubbles) /\ Len(queue') <= QueueCap
  BY <1>3, Enqueued
<1>6. /\ Len(queue) \in Nat /\ Len(queue \o s) = Len(queue) + 1
      /\ \A i \in 1 .. Len(queue) : (queue \o s)[i] = queue[i]
      /\ (queue \o s)[Len(queue) + 1] = "other"
  <2>1. /\ Len(queue) \in Nat /\ Len(queue \o s) = Len(queue) + Len(s)
        /\ \A i \in 1 .. Len(queue) : (queue \o s)[i] = queue[i]
        /\ \A i \in 1 .. Len(s) : (queue \o s)[Len(queue) + i] = s[i]
    BY BubblesJoined
  <2>2. 1 \in 1 .. Len(s)
    BY <1>2
  <2>3. (queue \o s)[Len(queue) + 1] = s[1]
    BY <2>1, <2>2
  <2> QED
    BY <1>2, <2>1, <2>3
<1>7. /\ excused' <=> untold
      /\ Len(queue') \in {Len(queue), Len(queue) + 1}
      /\ \A i \in 1 .. Len(queue') : queue'[i] = (queue \o s)[i]
  <2>1. CASE queue' = queue \o s /\ (excused' <=> untold /\ ~Has(s, Status))
    BY <1>4, <1>6, <2>1
  <2>2. CASE ~(queue' = queue \o s /\ (excused' <=> untold /\ ~Has(s, Status)))
    BY <1>2, <1>3, <2>2, Enqueued
  <2> QED
    BY <2>1, <2>2
<1>8. /\ \A i \in 1 .. Len(queue) : i \in 1 .. Len(queue') /\ queue'[i] = queue[i]
      /\ \A i \in 1 .. Len(queue') : i \in 1 .. Len(queue) \/ queue'[i] \notin Status
  BY <1>6, <1>7, StatusWords
<1>9. ASSUME NEW w \in Status, LastSays(queue, w) PROVE LastSays(queue, w)'
  <2>1. PICK i \in 1 .. Len(queue) : queue[i] = w /\ \A j \in 1 .. Len(queue) : i < j => queue[j] \notin Status
    BY <1>9 DEF LastSays
  <2>2. i \in 1 .. Len(queue') /\ queue'[i] = w
    BY <1>8, <2>1
  <2>3. \A j \in 1 .. Len(queue') : i < j => queue'[j] \notin Status
    BY <1>8, <2>1
  <2> QED
    BY <2>2, <2>3 DEF LastSays
<1>10. ASSUME ~Has(queue, Status) PROVE ~Has(queue', Status)
  <2>1. queue \in Seq(Bubbles)
    BY DEF QueueTypes
  <2>2. \A i \in 1 .. Len(queue) : queue[i] \notin Status
    BY <1>10, <2>1, HasStatus
  <2>3. \A i \in 1 .. Len(queue') : queue'[i] \notin Status
    BY <1>8, <2>2
  <2> QED
    BY <1>5, <2>3, HasStatus
<1>11. \A w \in Status : Hears(w) => Hears(w)'
  BY <1>9, <1>10 DEF Hears
<1> QED
  BY <1>5, <1>7, <1>11

\* The head leaves the queue.  If it was the last status in it, told' or excused' is.
LEMMA HeadLeaves ==
  ASSUME QueueTypes, queue # <<>>, queue' = Tail(queue), NEW w \in Status, Hears(w)
  PROVE  /\ queue' \in Seq(Bubbles) /\ Len(queue') <= QueueCap
         /\ \/ LastSays(queue', w)
            \/ ~Has(queue', Status) /\ Head(queue) = w
            \/ ~Has(queue', Status) /\ Head(queue) \notin Status /\ told = w
<1>1. queue \in Seq(Bubbles) /\ Len(queue) \in Nat \ {0} /\ Len(queue) <= QueueCap
  BY EmptySeq DEF QueueTypes
<1>2. /\ queue' \in Seq(Bubbles) /\ Len(queue') = Len(queue) - 1 /\ Head(queue) = queue[1]
      /\ \A i \in 1 .. Len(queue') : queue'[i] = queue[i + 1]
  BY <1>1, HeadTailProperties
<1>3. Len(queue') <= QueueCap
  BY <1>1, <1>2, SesConstants
<1>4. CASE LastSays(queue, w)
  <2>1. PICK i \in 1 .. Len(queue) : queue[i] = w /\ \A j \in 1 .. Len(queue) : i < j => queue[j] \notin Status
    BY <1>4 DEF LastSays
  <2>2. CASE i = 1
    <3>1. \A j \in 1 .. Len(queue') : queue'[j] \notin Status
      BY <1>1, <1>2, <2>1, <2>2
    <3>2. ~Has(queue', Status)
      BY <1>2, <3>1, HasStatus
    <3> QED
      BY <1>2, <1>3, <2>1, <2>2, <3>2
  <2>3. CASE i # 1
    <3>1. i - 1 \in 1 .. Len(queue')
      BY <1>1, <1>2, <2>3
    <3>2. queue'[i - 1] = w
      BY <1>2, <2>1, <3>1
    <3>3. \A j \in 1 .. Len(queue') : i - 1 < j => queue'[j] \notin Status
      BY <1>1, <1>2, <2>1
    <3>4. LastSays(queue', w)
      BY <3>1, <3>2, <3>3 DEF LastSays
    <3> QED
      BY <1>2, <1>3, <3>4
  <2> QED
    BY <2>2, <2>3
<1>5. CASE ~Has(queue, Status) /\ told = w
  <2>1. \A j \in 1 .. Len(queue) : queue[j] \notin Status
    BY <1>1, <1>5, HasStatus
  <2>2. \A j \in 1 .. Len(queue') : queue'[j] \notin Status
    BY <1>1, <1>2, <2>1
  <2>3. ~Has(queue', Status)
    BY <1>2, <2>2, HasStatus
  <2>4. queue[1] \notin Status
    BY <1>1, <2>1
  <2> QED
    BY <1>2, <1>3, <1>5, <2>3, <2>4
<1> QED
  BY <1>4, <1>5 DEF Hears

LEMMA SesInitial == SesInit => SesInv
<1> SUFFICES ASSUME SesInit PROVE SesInv
  OBVIOUS
<1>1. queue \in Seq(Bubbles) /\ Len(queue) = 0 /\ lines \in Seq(BOOLEAN)
  BY EmptySeq DEF SesInit
<1>2. ~Has(queue, Status)
  <2>1. \A i \in 1 .. Len(queue) : queue[i] \notin Status
    BY <1>1
  <2> QED
    BY <1>1, <2>1, HasStatus
<1>3. QueueTypes
  <2>1. Len(queue) <= QueueCap
    BY <1>1, SesConstants
  <2>2. told \in Status /\ last \in BOOLEAN /\ apReady \in BOOLEAN
    BY StatusWords DEF SesInit
  <2> QED
    BY <1>1, <2>1, <2>2 DEF QueueTypes
<1>4. Word(last) = "off"
  BY DEF SesInit, Word
<1>5. ToldOrOwed
  BY <1>2, <1>4 DEF SesInit, ToldOrOwed, Hears
<1>6. LinesTell
  BY DEF SesInit, LinesTell
<1> QED
  BY <1>3, <1>5, <1>6 DEF SesInv

\* What the invariant is about.
talkLine == <<queue, told, excused, announce, last, grace, online, hello, lines, broken, apReady>>

LEMMA TalkUnchanged == ASSUME SesInv, UNCHANGED talkLine PROVE SesInv'
<1>1. UNCHANGED <<queue, told, excused, announce, last, grace, online, hello, lines, broken, apReady>>
  BY DEF talkLine
<1>2. QueueTypes' /\ LinesTell'
  BY <1>1 DEF SesInv, QueueTypes, LinesTell
<1>3. ToldOrOwed'
  BY <1>1 DEF SesInv, ToldOrOwed, Hears, LastSays, Has
<1> QED
  BY <1>2, <1>3 DEF SesInv

\* The load itself: nothing is said until the announcement.
LEMMA LoadStepsInv ==
  ASSUME SesInv, Load \/ Forget \/ Request \/ Defer \/ Clock \/ Gate \/ SendSnapshot
  PROVE  SesInv'
<1>1. CASE Load \/ Forget \/ Request
  <2>1. UNCHANGED talkLine
    BY <1>1 DEF talkLine, Load, Forget, Request, cappyVars, timers, sesWorker, wireVars, talkVars
  <2> QED
    BY <2>1, TalkUnchanged
<1>2. CASE Clock
  <2>1. UNCHANGED talkLine
    BY <1>2 DEF talkLine, Clock, SceneLeaves, SceneStarts, SceneSettles, ClockRuns, cappyVars,
                timers, sesWorker, wireVars, talkVars
  <2> QED
    BY <2>1, TalkUnchanged
<1>3. CASE Gate \/ SendSnapshot
  <2>1. UNCHANGED talkLine
    BY <1>3 DEF talkLine, Gate, SendSnapshot, cappyVars, timers, sesWorker, wireVars, talkVars
  <2> QED
    BY <2>1, TalkUnchanged
<1>4. CASE Defer
  <2>1. /\ announce' = TRUE
        /\ UNCHANGED <<queue, told, excused, last, grace, online, hello, lines, broken, apReady>>
    BY <1>4 DEF Defer, cappyVars, sesWorker, wireVars, talkVars
  <2> QED
    BY <2>1 DEF SesInv, QueueTypes, ToldOrOwed, LinesTell
<1> QED
  BY <1>1, <1>2, <1>3, <1>4

LEMMA ShowInv == ASSUME SesInv, Show PROVE SesInv'
<1>1. /\ queue # <<>> /\ queue' = Tail(queue)
      /\ told' = (IF Head(queue) \in Status THEN Head(queue) ELSE told)
      /\ UNCHANGED <<excused, announce, last, grace, online, hello, lines, broken, apReady>>
  BY DEF Show, timers, sesWorker, wireVars
<1>2. QueueTypes
  BY DEF SesInv
<1>3. queue' \in Seq(Bubbles) /\ Len(queue') <= QueueCap
  <2>1. queue \in Seq(Bubbles) /\ Len(queue) \in Nat /\ Len(queue) <= QueueCap
    BY <1>2, LenProperties DEF QueueTypes
  <2>2. queue' \in Seq(Bubbles) /\ Len(queue') = Len(queue) - 1
    BY <1>1, <2>1, HeadTailProperties
  <2> QED
    BY <2>1, <2>2, SesConstants
<1>4. QueueTypes'
  BY <1>1, <1>2, <1>3 DEF QueueTypes
<1>5. LinesTell'
  BY <1>1 DEF SesInv, LinesTell
<1>6. ToldOrOwed'
  <2> SUFFICES ASSUME ~excused, ~announce PROVE Hears(Word(last))'
    BY <1>1 DEF ToldOrOwed
  <2>1. PICK w \in Status : w = Word(last)
    BY StatusWords
  <2>2. Hears(w)
    BY <2>1 DEF SesInv, ToldOrOwed
  <2>3. \/ LastSays(queue', w)
        \/ ~Has(queue', Status) /\ Head(queue) = w
        \/ ~Has(queue', Status) /\ Head(queue) \notin Status /\ told = w
    BY <1>1, <1>2, <2>2, HeadLeaves
  <2>4. LastSays(queue', w) \/ (~Has(queue', Status) /\ told' = w)
    BY <1>1, <2>3
  <2>5. Hears(w)'
    BY <2>4 DEF Hears
  <2>6. w = Word(last)'
    BY <1>1, <2>1 DEF Word
  <2> QED
    BY <2>5, <2>6
<1> QED
  BY <1>4, <1>5, <1>6 DEF SesInv

LEMMA DropHeadInv == ASSUME SesInv, DropHead PROVE SesInv'
<1>1. /\ queue # <<>> /\ queue' = Tail(queue)
      /\ excused' = (excused \/ (Head(queue) \in Status /\ ~Has(queue', Status)))
      /\ UNCHANGED <<told, announce, last, grace, online, hello, lines, broken, apReady>>
  BY DEF DropHead, timers, sesWorker, wireVars
<1>2. QueueTypes
  BY DEF SesInv
<1>3. queue' \in Seq(Bubbles) /\ Len(queue') <= QueueCap
  <2>1. queue \in Seq(Bubbles) /\ Len(queue) \in Nat /\ Len(queue) <= QueueCap
    BY <1>2, LenProperties DEF QueueTypes
  <2>2. queue' \in Seq(Bubbles) /\ Len(queue') = Len(queue) - 1
    BY <1>1, <2>1, HeadTailProperties
  <2> QED
    BY <2>1, <2>2, SesConstants
<1>4. QueueTypes'
  BY <1>1, <1>2, <1>3 DEF QueueTypes
<1>5. LinesTell'
  BY <1>1 DEF SesInv, LinesTell
<1>6. ToldOrOwed'
  <2> SUFFICES ASSUME ~excused', ~announce PROVE Hears(Word(last))'
    BY <1>1 DEF ToldOrOwed
  <2>1. PICK w \in Status : w = Word(last)
    BY StatusWords
  <2>2. Hears(w)
    BY <1>1, <2>1 DEF SesInv, ToldOrOwed
  <2>3. \/ LastSays(queue', w)
        \/ ~Has(queue', Status) /\ Head(queue) = w
        \/ ~Has(queue', Status) /\ Head(queue) \notin Status /\ told = w
    BY <1>1, <1>2, <2>2, HeadLeaves
  <2>4. LastSays(queue', w) \/ (~Has(queue', Status) /\ told' = w)
    BY <1>1, <2>3
  <2>5. Hears(w)'
    BY <2>4 DEF Hears
  <2>6. w = Word(last)'
    BY <1>1, <2>1 DEF Word
  <2> QED
    BY <2>5, <2>6
<1> QED
  BY <1>4, <1>5, <1>6 DEF SesInv

LEMMA ItemBubbleInv == ASSUME SesInv, ItemBubble PROVE SesInv'
<1>1. /\ Enqueue(<<"other">>, excused)
      /\ UNCHANGED <<told, announce, last, grace, online, hello, lines, broken, apReady>>
  BY DEF ItemBubble, timers, sesWorker, wireVars
<1>2. QueueTypes
  BY DEF SesInv
<1>3. /\ queue' \in Seq(Bubbles) /\ Len(queue') <= QueueCap /\ (excused' <=> excused)
      /\ \A w \in Status : Hears(w) => Hears(w)'
  BY <1>1, <1>2, OtherEnqueued
<1>4. QueueTypes' /\ LinesTell'
  BY <1>1, <1>3 DEF SesInv, QueueTypes, LinesTell
<1>5. ToldOrOwed'
  <2>1. PICK w \in Status : w = Word(last)
    BY StatusWords
  <2>2. w = Word(last)'
    BY <1>1, <2>1 DEF Word
  <2>3. ~excused /\ ~announce => Hears(w)
    BY <2>1 DEF SesInv, ToldOrOwed
  <2> QED
    BY <1>1, <1>3, <2>2, <2>3 DEF ToldOrOwed
<1> QED
  BY <1>4, <1>5 DEF SesInv

\* A status of what last is now.
LEMMA SayLast ==
  ASSUME SesInv, NEW s \in Seq(Bubbles), s # <<>>, \A i \in 1 .. Len(s) : s[i] = Word(last'),
         NEW untold, Enqueue(s, untold), UNCHANGED <<told, apReady>>,
         last' \in BOOLEAN, lines' \in Seq(BOOLEAN)
  PROVE  QueueTypes' /\ ToldOrOwed'
<1>1. PICK w \in Status : w = Word(last')
  BY StatusWords
<1>2. \A i \in 1 .. Len(s) : s[i] = w
  BY <1>1
<1>3. queue' \in Seq(Bubbles) /\ Len(queue') <= QueueCap /\ (excused' \/ LastSays(queue', w))
  BY <1>2, StatusEnqueued DEF SesInv
<1>4. QueueTypes'
  BY <1>3 DEF SesInv, QueueTypes
<1>5. w = Word(last)'
  BY <1>1 DEF Word
<1>6. LastSays(queue', w) => Hears(w)'
  BY DEF Hears
<1> QED
  BY <1>3, <1>4, <1>5, <1>6 DEF ToldOrOwed

LEMMA OneWord == \A b : /\ <<Word(b)>> \in Seq(Bubbles) /\ <<Word(b)>> # <<>>
                        /\ \A i \in 1 .. Len(<<Word(b)>>) : <<Word(b)>>[i] = Word(b)
<1> TAKE b
<1>1. PICK w \in Bubbles : w = Word(b)
  BY StatusWords
<1>2. <<w>> \in Seq(Bubbles) /\ <<w>> # <<>> /\ Len(<<w>>) = 1 /\ <<w>>[1] = w
  OBVIOUS
<1> QED
  BY <1>1, <1>2

LEMMA GraceEndsInv == ASSUME SesInv, GraceEnds PROVE SesInv'
<1>1. /\ grace /\ grace' = FALSE /\ last' = FALSE /\ Enqueue(<<"off">>, excused)
      /\ UNCHANGED <<told, announce, online, hello, lines, broken, apReady>>
  BY DEF GraceEnds, wireVars
<1>2. Word(last') = "off"
  BY <1>1 DEF Word
<1>3. Enqueue(<<Word(last')>>, excused)
  BY <1>1, <1>2
<1>4. last' \in BOOLEAN /\ lines' \in Seq(BOOLEAN)
  BY <1>1 DEF SesInv, QueueTypes
<1>5. QueueTypes' /\ ToldOrOwed'
  BY <1>1, <1>3, <1>4, OneWord, SayLast
<1>6. LinesTell'
  BY <1>1 DEF SesInv, LinesTell
<1> QED
  BY <1>5, <1>6 DEF SesInv

LEMMA AnnounceInv == ASSUME SesInv, Announce PROVE SesInv'
<1>1. /\ Enqueue(IF last THEN <<"on">> ELSE <<"off">>, excused)
      /\ UNCHANGED <<told, last, grace, online, hello, lines, broken, apReady>>
  BY DEF Announce, sesWorker, wireVars
<1>2. (IF last THEN <<"on">> ELSE <<"off">>) = <<Word(last')>>
  BY <1>1 DEF Word
<1>3. Enqueue(<<Word(last')>>, excused)
  BY <1>1, <1>2
<1>4. last' \in BOOLEAN /\ lines' \in Seq(BOOLEAN)
  BY <1>1 DEF SesInv, QueueTypes
<1>5. QueueTypes' /\ ToldOrOwed'
  BY <1>1, <1>3, <1>4, OneWord, SayLast
<1>6. LinesTell'
  BY <1>1 DEF SesInv, LinesTell
<1> QED
  BY <1>5, <1>6 DEF SesInv

\* A connection is given up: in silence, which excuses it, or for a grace period.
LEMMA HangUpInv ==
  ASSUME SesInv, HangUp, UNCHANGED <<queue, told, announce, apReady>>
  PROVE  SesInv'
<1>1. online' = FALSE /\ hello' = FALSE /\ lines' = <<>> /\ broken' = FALSE
  BY DEF HangUp
<1>2. \/ last /\ grace' = TRUE /\ UNCHANGED <<last, excused>>
      \/ last' = FALSE /\ grace' = grace /\ excused' = (excused \/ (last /\ ~announce))
  BY DEF HangUp
<1>3. last' \in BOOLEAN /\ lines' \in Seq(BOOLEAN)
  BY <1>1, <1>2, EmptySeq DEF SesInv, QueueTypes
<1>4. QueueTypes'
  BY <1>3 DEF SesInv, QueueTypes
<1>5. LinesTell'
  BY <1>1, <1>2 DEF LinesTell
<1>6. \A w : Hears(w) => Hears(w)'
  BY DEF Hears, LastSays, Has
<1>7. ToldOrOwed'
  <2> SUFFICES ASSUME ~excused', ~announce PROVE Hears(Word(last))'
    BY DEF ToldOrOwed
  <2>1. last' = last /\ ~excused
    <3>1. last \in BOOLEAN
      BY DEF SesInv, QueueTypes
    <3>2. CASE last /\ grace' = TRUE /\ UNCHANGED <<last, excused>>
      BY <3>2
    <3>3. CASE last' = FALSE /\ excused' = (excused \/ (last /\ ~announce))
      <4>1. ~excused /\ ~last
        BY <3>3
      <4>2. last = FALSE
        BY <3>1, <4>1
      <4> QED
        BY <3>3, <4>1, <4>2
    <3> QED
      BY <1>2, <3>2, <3>3
  <2>2. PICK w : w = Word(last)
    OBVIOUS
  <2>3. Hears(w)
    BY <2>1, <2>2 DEF SesInv, ToldOrOwed
  <2>4. w = Word(last)'
    BY <2>1, <2>2 DEF Word
  <2> QED
    BY <1>6, <2>3, <2>4
<1> QED
  BY <1>4, <1>5, <1>7 DEF SesInv

LEMMA SameWords ==
  ASSUME NEW w \in Bubbles, NEW c \in {<<>>, <<w>>}, NEW d \in {<<>>, <<w>>}
  PROVE  /\ c \o d \in Seq(Bubbles)
         /\ \A i \in 1 .. Len(c \o d) : (c \o d)[i] = w
         /\ c = <<>> /\ d = <<>> <=> c \o d = <<>>
<1>1. <<>> \in Seq(Bubbles) /\ Len(<<>>) = 0
  BY EmptySeq
<1>2. <<w>> \in Seq(Bubbles) /\ Len(<<w>>) = 1 /\ <<w>>[1] = w /\ <<w>> # <<>>
  OBVIOUS
<1>3. /\ c \in Seq(Bubbles) /\ Len(c) \in {0, 1} /\ (Len(c) = 0 <=> c = <<>>)
      /\ Len(c) = 1 => c[1] = w
  <2>1. CASE c = <<>>
    BY <1>1, <2>1
  <2>2. CASE c = <<w>>
    BY <1>2, <2>2
  <2> QED
    BY <2>1, <2>2
<1>4. /\ d \in Seq(Bubbles) /\ Len(d) \in {0, 1} /\ (Len(d) = 0 <=> d = <<>>)
      /\ Len(d) = 1 => d[1] = w
  <2>1. CASE d = <<>>
    BY <1>1, <2>1
  <2>2. CASE d = <<w>>
    BY <1>2, <2>2
  <2> QED
    BY <2>1, <2>2
<1>5. /\ c \o d \in Seq(Bubbles) /\ Len(c \o d) = Len(c) + Len(d)
      /\ \A i \in 1 .. Len(c) + Len(d) : (c \o d)[i] = IF i <= Len(c) THEN c[i] ELSE d[i - Len(c)]
  BY <1>3, <1>4, ConcatProperties
<1>6. \A i \in 1 .. Len(c \o d) : (c \o d)[i] = w
  BY <1>3, <1>4, <1>5
<1>7. Len(c \o d) = 0 <=> c \o d = <<>>
  BY <1>1, <1>5, EmptySeq
<1> QED
  BY <1>3, <1>4, <1>5, <1>6, <1>7

\* A line of the PC.  What it changes is said, or excused; what was owed is said.
LEMMA HandleApStateInv == ASSUME SesInv, HandleApState PROVE SesInv'
<1>1. PICK change : change = IF Silent \/ last = last' THEN <<>>
                            ELSE IF last' THEN <<"on">> ELSE <<"off">>
  OBVIOUS
<1>2. PICK said : said = IF last' /\ announce THEN <<"on">> ELSE <<>>
  OBVIOUS
<1>3. PICK untold : untold = (excused \/ (last # last' /\ ~announce))
  OBVIOUS
<1>4. /\ online /\ ~broken /\ lines # <<>> /\ lines' = Tail(lines) /\ last' = Head(lines) /\ grace' = FALSE
      /\ Enqueue(change \o said, untold) /\ announce' = (announce /\ said = <<>>)
      /\ UNCHANGED <<told, online, hello, broken, apReady>>
  BY <1>1, <1>2, <1>3 DEF HandleApState, Connected
<1>5. lines \in Seq(BOOLEAN) /\ Len(lines) \in Nat \ {0}
  BY <1>4, EmptySeq DEF SesInv, QueueTypes
<1>6. /\ lines' \in Seq(BOOLEAN) /\ Len(lines') = Len(lines) - 1 /\ last' \in BOOLEAN
      /\ last' = lines[1] /\ \A i \in 1 .. Len(lines') : lines'[i] = lines[i + 1]
  BY <1>4, <1>5, HeadTailProperties
<1>7. LinesTell'
  <2> SUFFICES ASSUME ~hello
               PROVE  /\ lines' = <<>> => last' = apReady
                      /\ lines' # <<>> => lines'[Len(lines')] = apReady
    BY <1>4 DEF LinesTell
  <2>1. lines[Len(lines)] = apReady
    BY <1>4 DEF SesInv, LinesTell
  <2>2. CASE lines' = <<>>
    <3>1. Len(lines') = 0
      BY <2>2
    <3>2. Len(lines) = 1
      BY <1>5, <1>6, <3>1
    <3> QED
      BY <1>6, <2>1, <2>2, <3>2
  <2>3. CASE lines' # <<>>
    <3>1. Len(lines') \in Nat \ {0}
      BY <1>6, <2>3, EmptySeq
    <3>2. lines'[Len(lines')] = lines[Len(lines') + 1] /\ Len(lines') + 1 = Len(lines)
      BY <1>5, <1>6, <3>1
    <3> QED
      BY <2>1, <2>3, <3>2
  <2> QED
    BY <2>2, <2>3
<1>8. PICK w \in Status : w = Word(last')
  BY StatusWords
<1>9. w \in Bubbles
  BY <1>8, StatusWords
<1>10. change \in {<<>>, <<w>>} /\ said \in {<<>>, <<w>>}
  BY <1>1, <1>2, <1>8 DEF Word
<1>11. /\ change \o said \in Seq(Bubbles)
       /\ \A i \in 1 .. Len(change \o said) : (change \o said)[i] = w
       /\ change = <<>> /\ said = <<>> <=> change \o said = <<>>
  BY <1>9, <1>10, SameWords
<1>12. CASE change = <<>> /\ said = <<>>
  <2>1. Enqueue(<<>>, untold)
    BY <1>4, <1>11, <1>12
  <2>2. queue' = queue /\ (excused' <=> untold)
    BY <2>1, NoneEnqueued DEF SesInv
  <2>3. QueueTypes'
    BY <1>4, <1>6, <2>2 DEF SesInv, QueueTypes
  <2>4. ToldOrOwed'
    <3> SUFFICES ASSUME ~excused', ~announce' PROVE Hears(Word(last))'
      BY DEF ToldOrOwed
    <3>1. ~announce /\ ~excused /\ last' = last
      BY <1>3, <1>4, <1>12, <2>2 DEF SesInv, QueueTypes
    <3>2. Hears(w)
      BY <1>8, <3>1 DEF SesInv, ToldOrOwed
    <3>3. Hears(w)'
      BY <1>4, <2>2, <3>2 DEF Hears, LastSays, Has
    <3>4. w = Word(last)'
      BY <1>8 DEF Word
    <3> QED
      BY <3>3, <3>4
  <2> QED
    BY <1>7, <2>3, <2>4 DEF SesInv
<1>13. CASE ~(change = <<>> /\ said = <<>>)
  <2>2. PICK s \in Seq(Bubbles) : s = change \o said
    BY <1>11
  <2>3. s # <<>> /\ \A i \in 1 .. Len(s) : s[i] = w
    BY <1>11, <1>13, <2>2
  <2>4. Enqueue(s, untold)
    BY <1>4, <2>2
  <2>5. QueueTypes' /\ ToldOrOwed'
    BY <1>4, <1>6, <1>8, <2>3, <2>4, SayLast
  <2> QED
    BY <1>7, <2>5 DEF SesInv
<1> QED
  BY <1>12, <1>13

LEMMA ReconnectInv == ASSUME SesInv, Reconnect PROVE SesInv'
<1>1. /\ ~online /\ online' = TRUE /\ hello' = TRUE
      /\ UNCHANGED <<queue, told, excused, announce, last, grace, lines, broken, apReady>>
  BY DEF Reconnect, ConnectOnce, SendHello, cappyVars, timers, talkVars
<1>2. QueueTypes' /\ LinesTell'
  BY <1>1 DEF SesInv, QueueTypes, LinesTell
<1>3. ToldOrOwed'
  BY <1>1 DEF SesInv, ToldOrOwed, Hears, LastSays, Has
<1> QED
  BY <1>2, <1>3 DEF SesInv

\* The last line says what the PC knows.
LEMMA PcStepsInv == ASSUME SesInv, PcSteps PROVE SesInv'
<1>1. UNCHANGED <<queue, told, excused, announce, last, grace, online>>
  BY DEF PcSteps, PcReplays, ApChanges, ConnectionLost, cappyVars, timers, sesWorker, talkVars
<1>2. ToldOrOwed'
  BY <1>1 DEF SesInv, ToldOrOwed, Hears, LastSays, Has
<1>3. lines \in Seq(BOOLEAN) /\ apReady \in BOOLEAN
  BY DEF SesInv, QueueTypes
<1>4. \A b \in BOOLEAN : /\ Append(lines, b) \in Seq(BOOLEAN) /\ Append(lines, b) # <<>>
                         /\ Append(lines, b)[Len(Append(lines, b))] = b
  <2> TAKE b \in BOOLEAN
  <2> QED
    BY <1>3, AppendProperties
<1>5. CASE PcReplays
  <2>1. hello /\ ~broken /\ hello' = FALSE /\ lines' = Append(lines, apReady) /\ UNCHANGED <<broken, apReady>>
    BY <1>5 DEF PcReplays
  <2>2. QueueTypes'
    BY <1>1, <1>3, <1>4, <2>1 DEF SesInv, QueueTypes
  <2>3. online
    BY <2>1 DEF SesInv, LinesTell
  <2>4. lines' # <<>> /\ lines'[Len(lines')] = apReady'
    BY <1>3, <1>4, <2>1
  <2>5. LinesTell'
    BY <1>1, <2>1, <2>3, <2>4 DEF LinesTell
  <2> QED
    BY <1>2, <2>2, <2>5 DEF SesInv
<1>6. CASE ApChanges
  <2>1. /\ apReady' = ~apReady /\ UNCHANGED <<hello, broken>>
        /\ lines' = IF online /\ ~hello /\ ~broken THEN Append(lines, apReady') ELSE lines
    BY <1>6 DEF ApChanges
  <2>2. apReady' \in BOOLEAN
    BY <2>1
  <2>3. CASE online /\ ~hello /\ ~broken
    <3>1. lines' \in Seq(BOOLEAN) /\ lines' # <<>> /\ lines'[Len(lines')] = apReady'
      BY <1>4, <2>1, <2>2, <2>3
    <3>2. QueueTypes' /\ LinesTell'
      BY <1>1, <2>1, <2>2, <2>3, <3>1 DEF SesInv, QueueTypes, LinesTell
    <3> QED
      BY <1>2, <3>2 DEF SesInv
  <2>4. CASE ~(online /\ ~hello /\ ~broken)
    <3>1. QueueTypes' /\ LinesTell'
      BY <1>1, <2>1, <2>2, <2>4 DEF SesInv, QueueTypes, LinesTell
    <3> QED
      BY <1>2, <3>1 DEF SesInv
  <2> QED
    BY <2>3, <2>4
<1>7. CASE ConnectionLost
  <2>1. online /\ broken' = TRUE /\ UNCHANGED <<hello, lines, apReady>>
    BY <1>7 DEF ConnectionLost
  <2>2. QueueTypes' /\ LinesTell'
    BY <1>1, <2>1 DEF SesInv, QueueTypes, LinesTell
  <2> QED
    BY <1>2, <2>2 DEF SesInv
<1> QED
  BY <1>5, <1>6, <1>7 DEF PcSteps

LEMMA SesStep == ASSUME SesInv, [SesNext]_sesVars PROVE SesInv'
<1>1. CASE Load \/ Forget \/ Request \/ Defer \/ Clock \/ Gate \/ SendSnapshot
  BY <1>1, LoadStepsInv
<1>2. CASE Show \/ DropHead \/ ItemBubble
  BY <1>2, ShowInv, DropHeadInv, ItemBubbleInv
<1>3. CASE GraceEnds \/ Announce \/ HandleApState \/ Reconnect
  BY <1>3, GraceEndsInv, AnnounceInv, HandleApStateInv, ReconnectInv
<1>4. CASE Rehello \/ SeeBroken
  <2>1. HangUp /\ UNCHANGED <<queue, told, announce, apReady>>
    BY <1>4 DEF Rehello, SeeBroken, cappyVars
  <2> QED
    BY <2>1, HangUpInv
<1>5. CASE PcSteps
  BY <1>5, PcStepsInv
<1>6. CASE UNCHANGED sesVars
  <2>1. UNCHANGED talkLine
    BY <1>6 DEF sesVars, talkLine, cappyVars, timers, sesWorker, wireVars, talkVars
  <2> QED
    BY <2>1, TalkUnchanged
<1> QED
  BY <1>1, <1>2, <1>3, <1>4, <1>5, <1>6 DEF SesNext, FrameSteps, WorkerSteps

LEMMA SesHonest == SesInv => StatusHonest
<1> SUFFICES ASSUME SesInv, ~announce, ~grace, ~hello, lines = <<>>, ~broken, ~Has(queue, Status), ~excused
             PROVE  told = "on" <=> online /\ apReady
  BY DEF StatusHonest
<1>1. queue \in Seq(Bubbles) /\ last \in BOOLEAN /\ apReady \in BOOLEAN
  BY DEF SesInv, QueueTypes
<1>2. ~LastSays(queue, Word(last))
  <2>1. \A i \in 1 .. Len(queue) : queue[i] \notin Status
    BY <1>1, HasStatus
  <2> QED
    BY <2>1, StatusWords DEF LastSays
<1>3. told = Word(last)
  BY <1>2 DEF SesInv, ToldOrOwed, Hears
<1>4. told = "on" <=> last
  BY <1>3 DEF Word
<1>5. last <=> online /\ apReady
  BY <1>1 DEF SesInv, LinesTell
<1> QED
  BY <1>4, <1>5

\* With nothing left to say, the player was last told whether the PC is connected to
\* Archipelago (ApClient.cpp, CappyMessenger.cpp), unless a bubble was dropped or a change
\* fell into the silence after a re-HELLO.
THEOREM PlayerIsToldTheTruth == SesSpec => []StatusHonest
  BY SesInitial, SesStep, SesHonest, PTL DEF SesSpec

(***************************************************************************)
(* SaveSession: whose snapshot the PC has.                                 *)
(***************************************************************************)

\* While Cappy's bubble is of this load's scene, the save is live.
LatchLive == latch /\ wasLoaded /\ hook # "forget" /\ ~early => live

\* A snapshot that was begun before the load is answered with a new connection.
SendLive == pc = "send" /\ hook \in {"defer", "idle"} /\ ~reask /\ ~early => live

SentOrOwed ==
  (/\ online /\ ~broken /\ ~reask /\ ~pending /\ hook \in {"defer", "idle"}
   /\ pc = "loop" /\ ~early)
    => current

SnapInv ==
  /\ hook \in {"idle", "forget", "request", "defer"} /\ pc \in {"loop", "send"}
  /\ wasLoaded \/ live \/ hook # "idle" => chosen
  /\ LatchLive /\ SendLive /\ SentOrOwed

LEMMA SnapInitial == SesInit => SnapInv
  BY DEF SesInit, SnapInv, LatchLive, SendLive, SentOrOwed

snapLine == <<hook, latch, wasLoaded, reask, live, chosen, pc, online, broken, pending, current, early>>

LEMMA SnapUnchanged == ASSUME SnapInv, UNCHANGED snapLine PROVE SnapInv'
  BY DEF SnapInv, LatchLive, SendLive, SentOrOwed, snapLine

\* The hook, the scenes and the bubbles.
LEMMA SnapFrameInv == ASSUME SnapInv, FrameSteps \/ Clock PROVE SnapInv'
<1>1. CASE Load
  BY <1>1 DEF Load, cappyVars, sesWorker, SnapInv, LatchLive, SendLive, SentOrOwed
<1>2. CASE Forget
  BY <1>2 DEF Forget, sesWorker, SnapInv, LatchLive, SendLive, SentOrOwed
<1>3. CASE Request
  BY <1>3 DEF Request, cappyVars, sesWorker, talkVars, SnapInv, LatchLive, SendLive, SentOrOwed
<1>4. CASE Defer
  BY <1>4 DEF Defer, cappyVars, sesWorker, wireVars, talkVars, SnapInv, LatchLive, SendLive, SentOrOwed
<1>5. CASE Show
  BY <1>5 DEF Show, sesGame, sesWorker, wireVars, SnapInv, LatchLive, SendLive, SentOrOwed
<1>6. CASE SceneStarts
  BY <1>6 DEF SceneStarts, cappyVars, sesWorker, wireVars, talkVars, SnapInv, LatchLive, SendLive, SentOrOwed
<1>7. CASE DropHead \/ ItemBubble \/ SceneLeaves \/ SceneSettles \/ ClockRuns
  BY <1>7, SnapUnchanged DEF DropHead, ItemBubble, SceneLeaves, SceneSettles, ClockRuns, sesGame, cappyVars,
     sesWorker, wireVars, talkVars, snapLine
<1> QED
  BY <1>1, <1>2, <1>3, <1>4, <1>5, <1>6, <1>7 DEF FrameSteps, Clock

\* The worker, the PC and the network.
LEMMA SnapWorkerInv == ASSUME SnapInv, WorkerSteps \/ PcSteps PROVE SnapInv'
<1>1. CASE Rehello
  BY <1>1 DEF Rehello, HangUp, sesGame, cappyVars, SnapInv, LatchLive, SendLive, SentOrOwed
<1>2. CASE SeeBroken
  BY <1>2 DEF SeeBroken, HangUp, sesGame, cappyVars, SnapInv, LatchLive, SendLive, SentOrOwed
<1>3. CASE Reconnect
  BY <1>3 DEF Reconnect, ConnectOnce, GateOpen, sesGame, cappyVars, talkVars, SnapInv, LatchLive, SendLive, SentOrOwed
<1>4. CASE Gate
  BY <1>4 DEF Gate, Connected, GateOpen, sesGame, cappyVars, wireVars, talkVars, SnapInv, LatchLive, SendLive, SentOrOwed
<1>5. CASE SendSnapshot
  BY <1>5 DEF SendSnapshot, sesGame, cappyVars, wireVars, talkVars, SnapInv, LatchLive, SendLive, SentOrOwed
<1>6. CASE ConnectionLost
  BY <1>6 DEF ConnectionLost, sesGame, cappyVars, sesWorker, talkVars, SnapInv, LatchLive, SendLive, SentOrOwed
<1>7. CASE GraceEnds \/ Announce \/ HandleApState \/ PcReplays \/ ApChanges
  BY <1>7, SnapUnchanged DEF GraceEnds, Announce, HandleApState, PcReplays, ApChanges, sesGame, cappyVars,
     sesWorker, wireVars, talkVars, snapLine
<1> QED
  BY <1>1, <1>2, <1>3, <1>4, <1>5, <1>6, <1>7 DEF WorkerSteps, PcSteps

\* Once nothing is owed, the snapshot is of the save now loaded (ApClient.cpp, the gate and
\* the re-HELLO; SaveLoadHook.cpp), for any number of loads, connections and bubbles.
THEOREM SnapshotIsOfThisSave == SesSpec => []SnapshotOwn
<1>1. SnapInv /\ [SesNext]_sesVars => SnapInv'
  <2>1. SnapInv /\ UNCHANGED sesVars => SnapInv'
    BY SnapUnchanged DEF sesVars, sesGame, cappyVars, sesWorker, wireVars, talkVars, snapLine
  <2> QED
    BY <2>1, SnapFrameInv, SnapWorkerInv DEF SesNext
<1>2. SnapInv => SnapshotOwn
  BY DEF SnapInv, SentOrOwed, SnapshotOwn
<1> QED
  BY <1>1, <1>2, SnapInitial, PTL DEF SesSpec

(***************************************************************************)
(* Entrances: the rows under way, and what the table has of them.          *)
(***************************************************************************)

Row   == [key : RowKeys, to : Doors]
Parcel == [reset : BOOLEAN, rows : SUBSET Row]

\* Row r has yet to be sent.
Underway(r) == \E c \in Couriers : \E i \in 1 .. Len(sending[c]) : r \in sending[c][i].rows

\* The next chunk of courier c resets the table.
Resetting(c) == sending[c] # <<>> /\ sending[c][1].reset

\* Who is in an interior went in by a door.
DoorTypes ==
  /\ shuffle \in Shuffles /\ sending \in [Couriers -> Seq(Parcel)]
  /\ table \in [RowKeys -> Doors \cup {NoDoor}]
  /\ inside \in Doors \cup {NoDoor}
  /\ inside = NoDoor => outside \in Doors
  /\ inside # NoDoor => via \in Doors

\* What is sent are rows of this map: all of them, if a courier has yet to start.
ParcelsOwn ==
  \A c \in Couriers :
    /\ \A i \in 1 .. Len(sending[c]) :
         sending[c][i].rows \subseteq Rows(shuffle) /\ (sending[c][i].reset => i = 1)
    /\ Resetting(c) =>
         \A r \in Rows(shuffle) : \E i \in 1 .. Len(sending[c]) : r \in sending[c][i].rows

\* The table has every row of the map that is not under way, and others only until a
\* reset.
TableWhole ==
  wired /\ known /\ ~resend =>
    /\ \A r \in Rows(shuffle) : table[r.key] = r.to \/ Underway(r)
    /\ \A k \in RowKeys : table[k] # NoDoor =>
         (\E r \in Rows(shuffle) : r.key = k) \/ (\E c \in Couriers : Resetting(c))

\* Who went in by the whole table is where the map says.
InsideMapped == inside # NoDoor /\ whole => inside = shuffle[via]

EntrancesInv == DoorTypes /\ (~mixed => ParcelsOwn /\ TableWhole /\ InsideMapped)

LEMMA EntranceConstants == NoDoor \notin Doors /\ Chunk \in Nat /\ Chunk > 0 /\ IsFiniteSet(Doors) /\ Doors \subseteq Nat
<1>1. Doors \subseteq Subareas
  BY DEF Doors
<1>2. IsFiniteSet(Doors)
  BY <1>1, EntrancesAssumption, FS_Subset
<1>3. NoDoor \notin Doors /\ Doors \subseteq Nat
  BY <1>1, EntrancesAssumption
<1>4. Chunk \in Nat /\ Chunk > 0
  BY EntrancesAssumption
<1> QED
  BY <1>2, <1>3, <1>4

\* No two rows of a map have the same key.
LEMMA RowsProper ==
  ASSUME NEW f \in Shuffles
  PROVE  /\ Rows(f) \subseteq Row /\ IsFiniteSet(Rows(f))
         /\ \A r, q \in Rows(f) : r.key = q.key => r = q
<1> DEFINE Moved == {d \in Doors : f[d] # d /\ {d, f[d]} \cap Stageless = {}}
           In    == {EntryRow(f, d) : d \in Moved}
           Out   == {ExitRow(f, d) : d \in Moved \ Pipeless}
<1>1. Rows(f) = In \cup Out
  BY DEF Rows
<1>2. \A d \in Doors : f[d] \in Doors
  BY DEF Shuffles
<1>3. Rows(f) \subseteq Row
  BY <1>1, <1>2 DEF Row, RowKeys, EntryRow, ExitRow
<1>4. IsFiniteSet(Moved) /\ IsFiniteSet(Moved \ Pipeless)
  BY EntranceConstants, FS_Subset
<1>5. IsFiniteSet(In) /\ IsFiniteSet(Out)
  <2>1. [d \in Moved |-> EntryRow(f, d)] \in Surjection(Moved, In)
    BY DEF Surjection
  <2>2. [d \in Moved \ Pipeless |-> ExitRow(f, d)] \in Surjection(Moved \ Pipeless, Out)
    BY DEF Surjection
  <2> HIDE DEF Moved, In, Out
  <2> QED
    BY <1>4, <2>1, <2>2, FS_Surjection
<1>6. IsFiniteSet(Rows(f))
  BY <1>1, <1>5, FS_Union
<1>7. ASSUME NEW r \in Rows(f), NEW q \in Rows(f), r.key = q.key PROVE r = q
  <2>1. CASE r \in In
    <3>1. PICK d \in Doors : r = EntryRow(f, d)
      BY <2>1
    <3>2. q \notin Out
      BY <1>7, <3>1 DEF EntryRow, ExitRow
    <3>3. PICK e \in Doors : q = EntryRow(f, e)
      BY <1>1, <3>2
    <3> QED
      BY <1>7, <3>1, <3>3 DEF EntryRow
  <2>2. CASE r \in Out
    <3>1. PICK d \in Doors : r = ExitRow(f, d)
      BY <2>2
    <3>2. q \notin In
      BY <1>7, <3>1 DEF EntryRow, ExitRow
    <3>3. PICK e \in Doors : q = ExitRow(f, e)
      BY <1>1, <3>2
    <3>4. f[d] = f[e]
      BY <1>7, <3>1, <3>3 DEF ExitRow
    <3>5. d = e
      BY <3>4 DEF Shuffles
    <3> QED
      BY <3>1, <3>3, <3>5
  <2> QED
    BY <1>1, <1>7, <2>1, <2>2
<1> QED
  BY <1>3, <1>6, <1>7

LEMMA DivBounds ==
  ASSUME NEW a \in Nat, NEW b \in Nat, NEW k \in Nat, k > 0, a < b
  PROVE  /\ a \div k \in Nat /\ (b + k - 1) \div k \in Nat
         /\ (b + k - 1) \div k > 0
         /\ a \div k < (b + k - 1) \div k
  OBVIOUS

\* The chunks hold the rows, each in one of them, and only the first one resets.
LEMMA ChunksProper ==
  ASSUME NEW f \in Shuffles
  PROVE  /\ Chunks(Rows(f)) \in Seq(Parcel) /\ Chunks(Rows(f)) # <<>>
         /\ Chunks(Rows(f))[1].reset
         /\ \A i \in 1 .. Len(Chunks(Rows(f))) :
              /\ Chunks(Rows(f))[i].rows \subseteq Rows(f)
              /\ Chunks(Rows(f))[i].reset => i = 1
         /\ \A r \in Rows(f) : \E i \in 1 .. Len(Chunks(Rows(f))) : r \in Chunks(Rows(f))[i].rows
<1> DEFINE rows == Rows(f)
           n    == IF rows = {} THEN 1 ELSE (Cardinality(rows) + Chunk - 1) \div Chunk
           e(i) == [reset |-> i = 1,
                    rows  |-> {r \in rows : Cardinality({q \in rows : Before(q, r)}) \div Chunk = i - 1}]
           s    == Chunks(rows)
<1>1. rows \subseteq Row /\ IsFiniteSet(rows)
  BY RowsProper
<1>2. Chunk \in Nat /\ Chunk > 0
  BY EntranceConstants
<1>3. Cardinality(rows) \in Nat /\ (rows # {} => Cardinality(rows) > 0)
  BY <1>1, FS_CardinalityType, FS_EmptySet
<1>4. n \in Nat /\ n > 0
  <2>1. CASE rows = {}
    BY <2>1
  <2>2. CASE rows # {}
    <3>1. (Cardinality(rows) + Chunk - 1) \div Chunk \in Nat /\ (Cardinality(rows) + Chunk - 1) \div Chunk > 0
      <4> DEFINE b == Cardinality(rows)
      <4>1. b \in Nat /\ 0 < b
        BY <1>3, <2>2
      <4> HIDE DEF b, rows
      <4>2. (b + Chunk - 1) \div Chunk \in Nat /\ (b + Chunk - 1) \div Chunk > 0
        BY <1>2, <4>1, DivBounds
      <4> QED
        BY <4>2 DEF b
    <3> HIDE DEF rows
    <3> QED
      BY <2>2, <3>1
  <2> QED
    BY <2>1, <2>2
<1>5. s = [i \in 1 .. n |-> e(i)]
  BY DEF Chunks
<1>6. \A i \in 1 .. n : e(i) \in Parcel
  <2> HIDE DEF rows, n
  <2> QED
    BY <1>1 DEF Parcel
<1>7. s \in Seq(Parcel) /\ Len(s) = n
  <2> HIDE DEF n, e, s
  <2>1. [i \in 1 .. n |-> e(i)] \in Seq(Parcel)
    BY <1>4, <1>6, IsASeq
  <2>2. DOMAIN s = 1 .. n
    BY <1>5
  <2>3. s \in Seq(Parcel)
    BY <1>5, <2>1
  <2>4. Len(s) \in Nat /\ DOMAIN s = 1 .. Len(s)
    BY <2>3, LenProperties
  <2>5. Len(s) = n
    BY <1>4, <2>2, <2>4
  <2> QED
    BY <2>3, <2>5
<1>8. s # <<>>
  <2> HIDE DEF n, s
  <2> QED
    BY <1>4, <1>7, EmptySeq
<1>9. \A i \in 1 .. n : s[i] = e(i)
  <2> HIDE DEF n, e, s
  <2> QED
    BY <1>5
<1>10. s[1].reset
  <2>1. 1 \in 1 .. n
    BY <1>4
  <2>2. s[1] = e(1)
    BY <1>9, <2>1
  <2> HIDE DEF s
  <2>3. e(1).reset <=> 1 = 1
    BY Zenon
  <2> QED
    BY <2>2, <2>3
<1>11. ASSUME NEW i \in 1 .. n PROVE s[i].rows \subseteq rows /\ (s[i].reset => i = 1)
  <2>1. s[i] = e(i)
    BY <1>9
  <2> HIDE DEF s, rows
  <2>2. e(i).reset <=> i = 1
    BY Zenon
  <2>3. e(i).rows \subseteq rows
    OBVIOUS
  <2> HIDE DEF e
  <2> QED
    BY <2>1, <2>2, <2>3
<1>12. ASSUME NEW r \in rows PROVE \E i \in 1 .. n : r \in s[i].rows
  <2> DEFINE b == {q \in rows : Before(q, r)}
             m == Cardinality(b) \div Chunk
  <2>1. r \notin b
    <3>1. r \in Row
      BY <1>1
    <3>2. DoorOf(r) \in Nat
      BY <3>1, EntranceConstants DEF DoorOf, Row, RowKeys
    <3>3. ~Before(r, r)
      BY <3>2 DEF Before
    <3> QED
      BY <3>3
  <2>2. IsFiniteSet(b) /\ Cardinality(b) \in Nat /\ Cardinality(b) < Cardinality(rows)
    <3>1. b \in SUBSET rows /\ b # rows
      BY <2>1, <1>12
    <3> HIDE DEF b, rows
    <3>2. IsFiniteSet(b) /\ Cardinality(b) <= Cardinality(rows) /\ Cardinality(b) # Cardinality(rows)
      BY <1>1, <3>1, FS_Subset
    <3>3. Cardinality(b) \in Nat
      BY <3>2, FS_CardinalityType
    <3> QED
      BY <1>3, <3>2, <3>3
  <2>3. m \in Nat /\ m < n
    <3>1. rows # {}
      BY <1>12
    <3>2. n = (Cardinality(rows) + Chunk - 1) \div Chunk
      BY <3>1
    <3> HIDE DEF b, rows, n
    <3>3. m \in Nat /\ m < (Cardinality(rows) + Chunk - 1) \div Chunk
      BY <1>2, <1>3, <2>2, DivBounds
    <3> HIDE DEF m
    <3> QED
      BY <3>2, <3>3
  <2>4. m + 1 \in 1 .. n /\ (m + 1) - 1 = m
    BY <1>4, <2>3
  <2>5. s[m + 1] = e(m + 1)
    BY <1>9, <2>4
  <2>6. e(m + 1).rows = {q \in rows : Cardinality({p \in rows : Before(p, q)}) \div Chunk = (m + 1) - 1}
    BY DEF e
  <2>7. r \in e(m + 1).rows
    BY <1>12, <2>4, <2>6
  <2> HIDE DEF m, n, e, s
  <2> QED
    BY <2>4, <2>5, <2>7
<1> HIDE DEF n, e, s
<1>13. n = Len(s)
  BY <1>7
<1>14. /\ \A i \in 1 .. Len(s) : s[i].rows \subseteq rows /\ (s[i].reset => i = 1)
       /\ \A r \in rows : \E i \in 1 .. Len(s) : r \in s[i].rows
  BY <1>11, <1>12, <1>13
<1> QED
  BY <1>7, <1>8, <1>10, <1>14 DEF s

LEMMA EntrancesInitial == EntrancesInit => EntrancesInv
<1> SUFFICES ASSUME EntrancesInit PROVE EntrancesInv
  OBVIOUS
<1>1. /\ sending = [c \in Couriers |-> <<>>] /\ <<>> \in Seq(Parcel)
  BY EmptySeq DEF EntrancesInit
<1>2. DoorTypes
  BY <1>1, EntranceConstants DEF EntrancesInit, DoorTypes
<1>3. \A c \in Couriers : sending[c] = <<>> /\ Len(sending[c]) = 0
  BY <1>1, EmptySeq
<1>4. ParcelsOwn
  BY <1>3 DEF ParcelsOwn, Resetting
<1>5. TableWhole /\ InsideMapped
  BY DEF EntrancesInit, TableWhole, InsideMapped
<1> QED
  BY <1>2, <1>4, <1>5 DEF EntrancesInv

\* The door and the interior change, or neither the map nor the couriers do.
LEMMA MapKept ==
  ASSUME UNCHANGED <<shuffle, sending>>
  PROVE  /\ ParcelsOwn => ParcelsOwn'
         /\ UNCHANGED <<wired, known, resend, table>> /\ TableWhole => TableWhole'
         /\ UNCHANGED <<inside, whole, via>> /\ InsideMapped => InsideMapped'
<1>1. ParcelsOwn => ParcelsOwn'
  BY DEF ParcelsOwn, Resetting
<1>2. UNCHANGED <<wired, known, resend, table>> /\ TableWhole => TableWhole'
  BY DEF TableWhole, Resetting, Underway
<1> QED
  BY <1>1, <1>2 DEF InsideMapped

\* The connection and the map of the slot.
LEMMA ConnectionInv ==
  ASSUME EntrancesInv, ReceiveMap \/ ReceiveOther \/ Wire \/ Unwire \/ Restart
  PROVE  EntrancesInv'
<1>1. CASE ReceiveMap \/ Wire \/ Unwire
  <2>1. /\ UNCHANGED <<shuffle, sending>> /\ UNCHANGED <<table, inside, outside, via, whole, mixed>>
        /\ resend' \/ ~wired'
    BY <1>1 DEF ReceiveMap, Wire, Unwire
  <2>2. DoorTypes'
    BY <2>1 DEF EntrancesInv, DoorTypes
  <2>3. TableWhole'
    BY <2>1 DEF TableWhole
  <2> QED
    BY <2>1, <2>2, <2>3, MapKept DEF EntrancesInv
<1>2. CASE ReceiveOther
  <2>1. /\ shuffle' \in Shuffles /\ resend' /\ inside' = NoDoor /\ outside' \in Doors
        /\ UNCHANGED <<sending, table>> /\ mixed' = (mixed \/ Busy # {})
    BY <1>2 DEF ReceiveOther
  <2>2. DoorTypes'
    BY <2>1 DEF EntrancesInv, DoorTypes
  <2>3. TableWhole' /\ InsideMapped'
    BY <2>1 DEF TableWhole, InsideMapped
  <2>4. ASSUME ~mixed' PROVE ParcelsOwn'
    <3>1. \A c \in Couriers : sending'[c] = <<>> /\ Len(sending'[c]) = 0
      BY <2>1, <2>4, EmptySeq DEF Busy
    <3> QED
      BY <3>1 DEF ParcelsOwn, Resetting
  <2> QED
    BY <2>2, <2>3, <2>4 DEF EntrancesInv
<1>3. CASE Restart
  <2>1. /\ UNCHANGED <<shuffle, sending>> /\ UNCHANGED <<known, resend, mixed>>
        /\ ~wired' /\ inside' = NoDoor /\ outside' \in Doors /\ ~whole'
        /\ table' = [k \in RowKeys |-> NoDoor]
    BY <1>3 DEF Restart
  <2>2. DoorTypes'
    BY <2>1 DEF EntrancesInv, DoorTypes
  <2>3. TableWhole' /\ InsideMapped'
    BY <2>1 DEF TableWhole, InsideMapped
  <2> QED
    BY <2>1, <2>2, <2>3, MapKept DEF EntrancesInv
<1> QED
  BY <1>1, <1>2, <1>3

\* A push begins with a reset and has all rows.
LEMMA PushMapInv == ASSUME EntrancesInv, NEW c \in Couriers, PushMap(c) PROVE EntrancesInv'
<1> DEFINE s == Chunks(Rows(shuffle))
<1>1. shuffle \in Shuffles /\ sending \in [Couriers -> Seq(Parcel)]
  BY DEF EntrancesInv, DoorTypes
<1>2. /\ s \in Seq(Parcel) /\ s # <<>> /\ s[1].reset
      /\ \A i \in 1 .. Len(s) : s[i].rows \subseteq Rows(shuffle) /\ (s[i].reset => i = 1)
      /\ \A r \in Rows(shuffle) : \E i \in 1 .. Len(s) : r \in s[i].rows
  BY <1>1, ChunksProper
<1> HIDE DEF s
<1>3. /\ sending' = [sending EXCEPT ![c] = s] /\ known
      /\ UNCHANGED <<shuffle, known, wired, table, inside, outside, via, whole, mixed>>
  BY DEF PushMap, s
<1>4. sending' \in [Couriers -> Seq(Parcel)] /\ sending'[c] = s /\ \A b \in Couriers \ {c} : sending'[b] = sending[b]
  BY <1>1, <1>2, <1>3
<1>5. DoorTypes'
  BY <1>3, <1>4 DEF EntrancesInv, DoorTypes
<1>6. ASSUME ParcelsOwn PROVE ParcelsOwn'
  <2>1. ASSUME NEW b \in Couriers
        PROVE  /\ \A i \in 1 .. Len(sending'[b]) :
                    sending'[b][i].rows \subseteq Rows(shuffle) /\ (sending'[b][i].reset => i = 1)
               /\ (sending'[b] # <<>> /\ sending'[b][1].reset) =>
                    \A r \in Rows(shuffle) : \E i \in 1 .. Len(sending'[b]) : r \in sending'[b][i].rows
    <3>1. CASE b = c
      BY <1>2, <1>4, <3>1
    <3>2. CASE b # c
      BY <1>4, <1>6, <3>2 DEF ParcelsOwn, Resetting
    <3> QED
      BY <3>1, <3>2
  <2> QED
    BY <1>3, <2>1 DEF ParcelsOwn, Resetting
<1>7. TableWhole'
  <2>1. \A r \in Rows(shuffle) : Underway(r)'
    BY <1>2, <1>4 DEF Underway
  <2>2. Resetting(c)'
    BY <1>2, <1>4 DEF Resetting
  <2> QED
    BY <1>3, <2>1, <2>2 DEF TableWhole
<1>8. InsideMapped => InsideMapped'
  BY <1>3 DEF InsideMapped
<1> QED
  BY <1>3, <1>5, <1>6, <1>7, <1>8 DEF EntrancesInv

LEMMA MergeType ==
  ASSUME NEW chunk \in Parcel, NEW t \in [RowKeys -> Doors \cup {NoDoor}]
  PROVE  Merge(t, chunk) \in [RowKeys -> Doors \cup {NoDoor}]
<1>1. ASSUME NEW k \in RowKeys, \E r \in chunk.rows : r.key = k
      PROVE  (CHOOSE r \in chunk.rows : r.key = k).to \in Doors
  <2>1. PICK r : r = CHOOSE q \in chunk.rows : q.key = k
    OBVIOUS
  <2>2. r \in chunk.rows
    BY <1>1, <2>1
  <2>3. r \in Row
    BY <2>2 DEF Parcel
  <2> QED
    BY <2>1, <2>3 DEF Row
<1> QED
  BY <1>1 DEF Merge

\* What applying a chunk of the map's rows leaves in the table.
LEMMA MergeLeaves ==
  ASSUME NEW f \in Shuffles, NEW chunk \in Parcel, chunk.rows \subseteq Rows(f),
         NEW t \in [RowKeys -> Doors \cup {NoDoor}]
  PROVE  /\ Merge(t, chunk) \in [RowKeys -> Doors \cup {NoDoor}]
         /\ \A r \in chunk.rows : Merge(t, chunk)[r.key] = r.to
         /\ \A k \in RowKeys :
              (\E r \in chunk.rows : r.key = k) \/ Merge(t, chunk)[k] = (IF chunk.reset THEN NoDoor ELSE t[k])
<1>1. /\ Rows(f) \subseteq Row
      /\ \A r, q \in Rows(f) : r.key = q.key => r = q
  BY RowsProper
<1>2. ASSUME NEW r \in chunk.rows
      PROVE  r.key \in RowKeys /\ r.to \in Doors /\ (CHOOSE q \in chunk.rows : q.key = r.key) = r
  <2>1. r \in Rows(f)
    BY <1>2
  <2>2. r.key \in RowKeys /\ r.to \in Doors
    BY <2>1, <1>1 DEF Row
  <2>3. \A q \in chunk.rows : q.key = r.key => q = r
    BY <2>1, <1>1
  <2> QED
    BY <1>2, <2>2, <2>3
<1>3. ASSUME NEW k \in RowKeys
      PROVE  /\ Merge(t, chunk)[k] \in Doors \cup {NoDoor}
             /\ \A r \in chunk.rows : r.key = k => Merge(t, chunk)[k] = r.to
             /\ (\E r \in chunk.rows : r.key = k) \/ Merge(t, chunk)[k] = (IF chunk.reset THEN NoDoor ELSE t[k])
  <2>1. CASE \E r \in chunk.rows : r.key = k
    <3>1. PICK r \in chunk.rows : r.key = k
      BY <2>1
    <3>2. Merge(t, chunk)[r.key] = (CHOOSE q \in chunk.rows : q.key = r.key).to
      BY <1>2 DEF Merge
    <3>3. Merge(t, chunk)[k] = r.to
      BY <1>2, <3>1, <3>2
    <3>4. \A q \in chunk.rows : q.key = k => q = r
      BY <1>1, <3>1
    <3> QED
      BY <1>2, <2>1, <3>1, <3>3, <3>4
  <2>2. CASE ~\E r \in chunk.rows : r.key = k
    <3>1. Merge(t, chunk)[k] = IF chunk.reset THEN NoDoor ELSE t[k]
      BY <2>2 DEF Merge
    <3> QED
      BY <2>2, <3>1
  <2> QED
    BY <2>1, <2>2
<1>4. Merge(t, chunk) \in [RowKeys -> Doors \cup {NoDoor}]
  <2>1. DOMAIN Merge(t, chunk) = RowKeys /\ Merge(t, chunk) = [k \in RowKeys |-> Merge(t, chunk)[k]]
    BY DEF Merge
  <2> QED
    BY <1>3, <2>1
<1> QED
  BY <1>2, <1>3, <1>4

\* The chunk in front is applied, if a Switch is connected; the others are still to come.
LEMMA SendChunkInv == ASSUME EntrancesInv, NEW c \in Couriers, SendChunk(c) PROVE EntrancesInv'
<1>1. /\ shuffle \in Shuffles /\ sending \in [Couriers -> Seq(Parcel)]
      /\ table \in [RowKeys -> Doors \cup {NoDoor}]
  BY DEF EntrancesInv, DoorTypes
<1>2. PICK s \in Seq(Parcel) : s = sending[c] /\ s # <<>>
  BY <1>1 DEF SendChunk
<1>3. PICK t \in Seq(Parcel) : t = Tail(s)
  BY <1>2, HeadTailProperties
<1>4. /\ Len(s) \in Nat /\ Len(s) > 0 /\ Len(t) = Len(s) - 1
      /\ \A i \in 1 .. Len(t) : t[i] = s[i + 1]
      /\ Head(s) = s[1] /\ s[1] \in Parcel
  BY <1>2, <1>3, HeadTailProperties, LenProperties, EmptySeq
<1>5. /\ sending' = [sending EXCEPT ![c] = t]
      /\ table' = IF wired THEN Merge(table, s[1]) ELSE table
      /\ UNCHANGED <<shuffle, known, resend, wired, inside, outside, via, whole, mixed>>
  BY <1>2, <1>3, <1>4 DEF SendChunk
<1>6. sending' \in [Couriers -> Seq(Parcel)] /\ sending'[c] = t /\ \A b \in Couriers \ {c} : sending'[b] = sending[b]
  BY <1>1, <1>3, <1>5
<1>7. table' \in [RowKeys -> Doors \cup {NoDoor}]
  BY <1>1, <1>4, <1>5, MergeType
<1>8. DoorTypes'
  BY <1>5, <1>6, <1>7 DEF EntrancesInv, DoorTypes
<1>9. ASSUME ParcelsOwn
      PROVE  /\ \A i \in 1 .. Len(s) : s[i].rows \subseteq Rows(shuffle) /\ (s[i].reset => i = 1)
             /\ s[1].reset => \A r \in Rows(shuffle) : \E i \in 1 .. Len(s) : r \in s[i].rows
             /\ \A i \in 1 .. Len(t) : t[i].rows \subseteq Rows(shuffle) /\ ~t[i].reset
             /\ ~Resetting(c)'
  <2>1. /\ \A i \in 1 .. Len(s) : s[i].rows \subseteq Rows(shuffle) /\ (s[i].reset => i = 1)
        /\ s[1].reset => \A r \in Rows(shuffle) : \E i \in 1 .. Len(s) : r \in s[i].rows
    BY <1>2, <1>9 DEF ParcelsOwn, Resetting
  <2>2. \A i \in 1 .. Len(t) : t[i].rows \subseteq Rows(shuffle) /\ ~t[i].reset
    <3>1. ASSUME NEW i \in 1 .. Len(t) PROVE i + 1 \in 1 .. Len(s) /\ i + 1 # 1 /\ t[i] = s[i + 1]
      <4>1. Len(t) = Len(s) - 1 /\ Len(s) \in Nat
        BY <1>4
      <4>2. i + 1 \in 1 .. Len(s) /\ i + 1 # 1
        BY <4>1
      <4>3. t[i] = s[i + 1]
        BY <1>4
      <4> QED
        BY <4>2, <4>3
    <3> QED
      BY <2>1, <3>1
  <2>3. t # <<>> => 1 \in 1 .. Len(t)
    BY <1>3, EmptySeq
  <2> QED
    BY <1>6, <2>1, <2>2, <2>3 DEF Resetting
<1>10. ASSUME ParcelsOwn PROVE ParcelsOwn'
  <2>1. ASSUME NEW b \in Couriers
        PROVE  /\ \A i \in 1 .. Len(sending'[b]) :
                    sending'[b][i].rows \subseteq Rows(shuffle) /\ (sending'[b][i].reset => i = 1)
               /\ Resetting(b)' =>
                    \A r \in Rows(shuffle) : \E i \in 1 .. Len(sending'[b]) : r \in sending'[b][i].rows
    <3>1. CASE b = c
      BY <1>6, <1>9, <1>10, <3>1
    <3>2. CASE b # c
      BY <1>6, <1>10, <3>2 DEF ParcelsOwn, Resetting
    <3> QED
      BY <3>1, <3>2
  <2> QED
    BY <1>5, <2>1 DEF ParcelsOwn
<1>11. ASSUME ParcelsOwn, TableWhole PROVE TableWhole'
  <2> SUFFICES ASSUME wired, known, ~resend
               PROVE  /\ \A r \in Rows(shuffle) : table'[r.key] = r.to \/ Underway(r)'
                      /\ \A k \in RowKeys : table'[k] # NoDoor =>
                           (\E r \in Rows(shuffle) : r.key = k) \/ (\E b \in Couriers : Resetting(b)')
    BY <1>5 DEF TableWhole
  <2>1. s[1].rows \subseteq Rows(shuffle) /\ table' = Merge(table, s[1])
    BY <1>4, <1>5, <1>9, <1>11
  <2>2. /\ \A r \in s[1].rows : table'[r.key] = r.to
        /\ \A k \in RowKeys :
             (\E r \in s[1].rows : r.key = k) \/ table'[k] = (IF s[1].reset THEN NoDoor ELSE table[k])
    BY <1>1, <1>4, <2>1, MergeLeaves
  <2>3. /\ \A r \in Rows(shuffle) : table[r.key] = r.to \/ Underway(r)
        /\ \A k \in RowKeys : table[k] # NoDoor =>
             (\E r \in Rows(shuffle) : r.key = k) \/ (\E b \in Couriers : Resetting(b))
    BY <1>11 DEF TableWhole
  <2>4. \A i \in 2 .. Len(s) : i - 1 \in 1 .. Len(t) /\ s[i] = t[i - 1]
    BY <1>4
  <2>5. ASSUME NEW r \in Rows(shuffle) PROVE table'[r.key] = r.to \/ Underway(r)'
    <3>1. CASE \E i \in 1 .. Len(s) : r \in s[i].rows
      <4>1. PICK i \in 1 .. Len(s) : r \in s[i].rows
        BY <3>1
      <4>2. CASE i = 1
        BY <2>2, <4>1, <4>2
      <4>3. CASE i # 1
        <5>1. i - 1 \in 1 .. Len(t) /\ r \in t[i - 1].rows
          BY <1>4, <2>4, <4>1, <4>3
        <5> QED
          BY <1>6, <5>1 DEF Underway
      <4> QED
        BY <4>2, <4>3
    <3>2. CASE ~\E i \in 1 .. Len(s) : r \in s[i].rows
      <4>1. ~s[1].reset
        BY <1>9, <1>11, <3>2
      <4>2. CASE Underway(r)
        <5>1. PICK b \in Couriers : \E i \in 1 .. Len(sending[b]) : r \in sending[b][i].rows
          BY <4>2 DEF Underway
        <5>2. b # c
          BY <1>2, <3>2, <5>1
        <5> QED
          BY <1>6, <5>1, <5>2 DEF Underway
      <4>3. CASE ~Underway(r)
        <5>1. table[r.key] = r.to
          BY <2>3, <4>3
        <5>2. r.key \in RowKeys
          BY <1>1, RowsProper DEF Row
        <5>3. CASE \E q \in s[1].rows : q.key = r.key
          <6>1. PICK q \in s[1].rows : q.key = r.key
            BY <5>3
          <6>2. q = r
            BY <1>1, <2>1, <6>1, RowsProper
          <6> QED
            BY <2>2, <6>1, <6>2
        <5>4. CASE ~\E q \in s[1].rows : q.key = r.key
          BY <2>2, <4>1, <5>1, <5>2, <5>4
        <5> QED
          BY <5>3, <5>4
      <4> QED
        BY <4>2, <4>3
    <3> QED
      BY <3>1, <3>2
  <2>6. ASSUME NEW k \in RowKeys, table'[k] # NoDoor
        PROVE  (\E r \in Rows(shuffle) : r.key = k) \/ (\E b \in Couriers : Resetting(b)')
    <3>1. CASE \E r \in s[1].rows : r.key = k
      BY <2>1, <3>1
    <3>2. CASE ~\E r \in s[1].rows : r.key = k
      <4>1. ~s[1].reset /\ table[k] # NoDoor
        BY <2>2, <2>6, <3>2
      <4>2. ~Resetting(c)
        BY <1>2, <4>1 DEF Resetting
      <4>3. \A b \in Couriers \ {c} : Resetting(b) => Resetting(b)'
        BY <1>6 DEF Resetting
      <4> QED
        BY <2>3, <4>1, <4>2, <4>3
    <3> QED
      BY <3>1, <3>2
  <2> QED
    BY <2>5, <2>6
<1>12. InsideMapped => InsideMapped'
  BY <1>5 DEF InsideMapped
<1> QED
  BY <1>5, <1>8, <1>10, <1>11, <1>12 DEF EntrancesInv

\* The rows of door d, if the map moves it, and that no other row leads there.
LEMMA RowsOfDoor ==
  ASSUME NEW f \in Shuffles, NEW d \in Doors
  PROVE  /\ f[d] # d => EntryRow(f, d) \in Rows(f)
         /\ f[d] # d /\ d \notin Pipeless => ExitRow(f, d) \in Rows(f)
         /\ f[d] = d => \A r \in Rows(f) : r.key # <<"entry", d>> /\ r.key # <<"exit", d>>
<1>1. \A e \in Doors : f[e] \in Doors /\ {e, f[e]} \cap Stageless = {}
  BY DEF Shuffles, Doors
<1>2. f[d] # d => EntryRow(f, d) \in Rows(f)
  BY <1>1 DEF Rows
<1>3. f[d] # d /\ d \notin Pipeless => ExitRow(f, d) \in Rows(f)
  BY <1>1 DEF Rows
<1>4. ASSUME f[d] = d, NEW r \in Rows(f) PROVE r.key # <<"entry", d>> /\ r.key # <<"exit", d>>
  <2>1. PICK e \in Doors : f[e] # e /\ (r = EntryRow(f, e) \/ r = ExitRow(f, e))
    BY <1>4 DEF Rows
  <2>2. e # d /\ f[e] # d
    BY <1>4, <2>1 DEF Shuffles
  <2> QED
    BY <2>1, <2>2 DEF EntryRow, ExitRow
<1> QED
  BY <1>2, <1>3, <1>4

\* With the table settled a row is there, and a key without a row has no entry.
LEMMA SettledTable ==
  ASSUME EntrancesInv, ~mixed, Settled
  PROVE  /\ \A r \in Rows(shuffle) : table[r.key] = r.to
         /\ \A k \in RowKeys : (\A r \in Rows(shuffle) : r.key # k) => table[k] = NoDoor
<1>1. \A c \in Couriers : sending[c] = <<>> /\ Len(sending[c]) = 0
  BY EmptySeq DEF Settled, Busy
<1>2. \A r : ~Underway(r)
  BY <1>1 DEF Underway
<1>3. \A c \in Couriers : ~Resetting(c)
  BY <1>1 DEF Resetting
<1>4. TableWhole
  BY DEF EntrancesInv
<1> QED
  BY <1>2, <1>3, <1>4 DEF TableWhole, Settled

\* Where the rows of a settled table lead, in by door d and out of the interior behind it.
LEMMA SettledWays ==
  ASSUME EntrancesInv, ~mixed, Settled, NEW d \in Doors
  PROVE  /\ (IF table[<<"entry", d>>] # NoDoor THEN table[<<"entry", d>>] ELSE d) = shuffle[d]
         /\ shuffle[d] # d /\ d \notin Pipeless => table[<<"exit", shuffle[d]>>] = d
         /\ shuffle[d] = d => table[<<"exit", d>>] = NoDoor
<1>1. shuffle \in Shuffles /\ shuffle[d] \in Doors
  BY DEF EntrancesInv, DoorTypes, Shuffles
<1>2. <<"entry", d>> \in RowKeys /\ <<"exit", d>> \in RowKeys
  BY DEF RowKeys
<1>3. CASE shuffle[d] = d
  <2>1. table[<<"entry", d>>] = NoDoor /\ table[<<"exit", d>>] = NoDoor
    BY <1>1, <1>2, <1>3, RowsOfDoor, SettledTable
  <2> QED
    BY <1>3, <2>1
<1>4. CASE shuffle[d] # d
  <2>1. table[EntryRow(shuffle, d).key] = EntryRow(shuffle, d).to
    BY <1>1, <1>4, RowsOfDoor, SettledTable
  <2>2. table[<<"entry", d>>] = shuffle[d]
    BY <2>1 DEF EntryRow
  <2>3. ASSUME d \notin Pipeless PROVE table[<<"exit", shuffle[d]>>] = d
    <3>1. table[ExitRow(shuffle, d).key] = ExitRow(shuffle, d).to
      BY <1>1, <1>4, <2>3, RowsOfDoor, SettledTable
    <3> QED
      BY <3>1 DEF ExitRow
  <2> QED
    BY <1>1, <1>4, <2>2, <2>3, EntranceConstants
<1> QED
  BY <1>3, <1>4

LEMMA EnterInv == ASSUME EntrancesInv, Enter PROVE EntrancesInv'
<1>1. /\ UNCHANGED <<shuffle, sending>> /\ UNCHANGED <<wired, known, resend, table>> /\ UNCHANGED mixed
      /\ inside = NoDoor /\ via' = outside /\ whole' = Settled /\ outside' = NoDoor
      /\ inside' = IF table[<<"entry", outside>>] # NoDoor THEN table[<<"entry", outside>>] ELSE outside
  BY DEF Enter
<1>2. outside \in Doors /\ table \in [RowKeys -> Doors \cup {NoDoor}]
  BY <1>1 DEF EntrancesInv, DoorTypes
<1>3. <<"entry", outside>> \in RowKeys
  BY <1>2 DEF RowKeys
<1>4. inside' \in Doors
  BY <1>1, <1>2, <1>3
<1>5. DoorTypes'
  BY <1>1, <1>2, <1>4, EntranceConstants DEF EntrancesInv, DoorTypes
<1>6. ASSUME ~mixed, whole' PROVE inside' = shuffle'[via']
  BY <1>1, <1>2, <1>6, SettledWays
<1> QED
  BY <1>1, <1>5, <1>6, MapKept DEF EntrancesInv, InsideMapped

LEMMA LeaveInv == ASSUME EntrancesInv, Leave PROVE EntrancesInv'
<1>1. /\ UNCHANGED <<shuffle, sending>> /\ UNCHANGED <<wired, known, resend, table>> /\ UNCHANGED mixed
      /\ inside # NoDoor /\ inside' = NoDoor /\ ~whole' /\ outside' = WayOut(inside, table)
  BY DEF Leave
<1>2. inside \in Doors /\ via \in Doors /\ table \in [RowKeys -> Doors \cup {NoDoor}]
  BY <1>1 DEF EntrancesInv, DoorTypes
<1>3. <<"exit", inside>> \in RowKeys
  BY <1>2 DEF RowKeys
<1>4. outside' \in Doors
  BY <1>1, <1>2, <1>3 DEF WayOut
<1>5. DoorTypes'
  BY <1>1, <1>4 DEF EntrancesInv, DoorTypes
<1>6. InsideMapped'
  BY <1>1 DEF InsideMapped
<1> QED
  BY <1>1, <1>5, <1>6, MapKept DEF EntrancesInv

LEMMA EntrancesStep == ASSUME EntrancesInv, [EntrancesNext]_entranceVars PROVE EntrancesInv'
<1>1. CASE UNCHANGED entranceVars
  <2>1. UNCHANGED <<shuffle, sending>> /\ UNCHANGED <<wired, known, resend, table>>
        /\ UNCHANGED <<inside, outside, via, whole, mixed>>
    BY <1>1 DEF entranceVars
  <2>2. DoorTypes'
    BY <2>1 DEF EntrancesInv, DoorTypes
  <2> QED
    BY <2>1, <2>2, MapKept DEF EntrancesInv
<1>2. ASSUME NEW c \in Couriers, PushMap(c) \/ SendChunk(c) PROVE EntrancesInv'
  BY <1>2, PushMapInv, SendChunkInv
<1> QED
  BY <1>1, <1>2, ConnectionInv, EnterInv, LeaveInv DEF EntrancesNext

\* Out at the door he went in by.
LEMMA InvRoundTrip == EntrancesInv => RoundTrip
<1> SUFFICES ASSUME EntrancesInv, inside # NoDoor, whole, Settled, ~mixed,
                    via \in Pipeless => inside \in Pipeless \cup {via}
             PROVE  WayOut(inside, table) = via
  BY DEF RoundTrip
<1>1. via \in Doors /\ inside = shuffle[via]
  BY DEF EntrancesInv, DoorTypes, InsideMapped
<1>2. /\ inside # via /\ via \notin Pipeless => table[<<"exit", inside>>] = via
      /\ inside = via => table[<<"exit", via>>] = NoDoor
  BY <1>1, SettledWays
<1> QED
  BY <1>1, <1>2, EntranceConstants DEF WayOut

\* With the whole map on the Switch, whoever went in by a door comes out at it, for any
\* pool, chunk size and number of pushes at once (compile_stage_remaps, push_entrance_map,
\* applyEntranceMap): pushes may overlap as long as they are of the same map.
THEOREM DoorsLeadBack == EntrancesSpec => []RoundTrip
<1>1. EntrancesSpec => []EntrancesInv
  BY EntrancesInitial, EntrancesStep, PTL DEF EntrancesSpec
<1> QED
  BY <1>1, InvRoundTrip, PTL

(***************************************************************************)
(* Talkatoo: the push under way, the windows it has yet to send, and what  *)
(* shipped knows.                                                          *)
(***************************************************************************)

TalkTypes ==
  /\ slot \in {"on", "off"} /\ enabled \in {"unset", "on", "off"} /\ shipped \subseteq Kingdoms
  /\ at \in [Pushers -> {"idle", "off", "wiped", "clear", "send"}]
  /\ mine \in [Pushers -> SUBSET Kingdoms] /\ todo \in [Pushers -> SUBSET Kingdoms]
  /\ dict = [t \in Pushers |-> dict[t]] /\ pools = [k \in Kingdoms |-> pools[k]]

Idle(t) == at[t] = "idle"

\* What a push is about, when it runs alone.
PushAlone(t) ==
  /\ at[t] \in {"off", "wiped"} => enabled = "off"
  /\ at[t] \in {"clear", "send"} => enabled = "on" /\ mine[t] = Entries(payload)
  /\ at[t] = "send" => dict[t] = payload /\ todo[t] \subseteq Entries(payload)

PushesApart ==
  ~crossed =>
    /\ \A t, u \in Pushers : ~Idle(t) /\ ~Idle(u) => t = u
    /\ \A t \in Pushers : PushAlone(t)

\* The windows that are to be pushed are those of the slot.
PayloadCurrent ==
  joined /\ ~due =>
    /\ enabled = slot
    /\ slot = "on" => \A k \in Kingdoms : payload[k] = Window(k)

\* shipped knows of every window on the Switch, or the push under way does.
ShippedKnows ==
  ~leaked =>
    /\ ~crossed
    /\ (\A t \in Pushers : at[t] # "send") => \A k \in Kingdoms : pools[k] # <<>> => k \in shipped
    /\ \A t \in Pushers, k \in Kingdoms : pools[k] # <<>> =>
         /\ at[t] = "clear" => k \in todo[t] \cup mine[t]
         /\ at[t] = "send" => k \in mine[t]
         /\ at[t] # "wiped"

\* A push has yet to send the window of kingdom k.
ToCome(k) == \E t \in Pushers : at[t] = "clear" \/ (at[t] = "send" /\ k \in todo[t])

\* What the Switch does not have is to come.
PoolsFollow ==
  linked /\ joined /\ ~due /\ ~replay /\ ~crossed =>
    IF slot = "off" THEN ~swMode \/ \E t \in Pushers : at[t] = "off"
    ELSE \A k \in Kingdoms : (Window(k) # <<>> \/ ~leaked) => pools[k] = Window(k) \/ ToCome(k)

TalkInv == TalkTypes /\ PushesApart /\ PayloadCurrent /\ ShippedKnows /\ PoolsFollow

LEMMA WindowKept ==
  ASSUME UNCHANGED <<order, checked>>
  PROVE  \A k \in Kingdoms : Window(k)' = Window(k)
  BY DEF Window

LEMMA TalkInitial == TalkatooInit => TalkInv
<1> SUFFICES ASSUME TalkatooInit PROVE TalkInv
  OBVIOUS
<1>1. TalkTypes
  BY DEF TalkatooInit, TalkTypes, NoEntries
<1>2. \A t \in Pushers : Idle(t)
  BY DEF TalkatooInit, Idle
<1>3. PushesApart
  BY <1>2 DEF PushesApart, PushAlone, Idle
<1>4. PayloadCurrent /\ PoolsFollow
  BY DEF TalkatooInit, PayloadCurrent, PoolsFollow
<1>5. ShippedKnows
  <2>1. \A k \in Kingdoms : pools[k] = <<>>
    BY DEF TalkatooInit, NoEntries
  <2> QED
    BY <2>1 DEF TalkatooInit, ShippedKnows
<1> QED
  BY <1>1, <1>3, <1>4, <1>5 DEF TalkInv

\* The AP server, the connection and the game: no push moves, and no window changes.
LEMMA PushesRest ==
  ASSUME TalkInv, UNCHANGED <<enabled, payload, shipped>>, UNCHANGED pushVars, UNCHANGED <<pools, crossed, leaked>>
  PROVE  PushesApart' /\ ShippedKnows'
<1>1. PushesApart'
  BY DEF TalkInv, PushesApart, PushAlone, Idle, Entries, pushVars
<1>2. ShippedKnows'
  BY DEF TalkInv, ShippedKnows, pushVars
<1> QED
  BY <1>1, <1>2

LEMMA OutsideInv ==
  ASSUME TalkInv,
         \/ Join \/ JoinOther \/ (\E m \in PoolMoons : RoomUpdate(m) \/ TakeMoon(m))
         \/ (\E k \in Kingdoms : Speak(k)) \/ Hello \/ LinkLost
  PROVE  TalkInv'
<1>1. UNCHANGED <<enabled, payload, shipped>> /\ UNCHANGED pushVars /\ UNCHANGED <<pools, crossed, leaked>>
      /\ UNCHANGED swMode /\ slot' \in {"on", "off"}
  BY DEF Join, JoinOther, RoomUpdate, TakeMoon, Speak, Hello, LinkLost, slotVars, serverVars, moonVars,
         TalkInv, TalkTypes
<1>2. TalkTypes' /\ PushesApart' /\ ShippedKnows'
  BY <1>1, PushesRest DEF TalkInv, TalkTypes, pushVars
<1>3. CASE Join \/ JoinOther
  BY <1>2, <1>3 DEF Join, JoinOther, TalkInv, PayloadCurrent, PoolsFollow
<1>4. ASSUME NEW m \in PoolMoons, RoomUpdate(m) PROVE PayloadCurrent' /\ PoolsFollow'
  <2>1. UNCHANGED <<slot, joined, linked, replay>> /\ due' = (due \/ slot = "on")
    BY <1>4 DEF RoomUpdate
  <2>2. PayloadCurrent'
    BY <1>1, <2>1 DEF TalkInv, PayloadCurrent
  <2>3. PoolsFollow'
    BY <1>1, <2>1 DEF TalkInv, TalkTypes, PoolsFollow, pushVars
  <2> QED
    BY <2>2, <2>3
<1>5. CASE (\E m \in PoolMoons : TakeMoon(m)) \/ (\E k \in Kingdoms : Speak(k)) \/ Hello \/ LinkLost
  <2>1. UNCHANGED slotVars /\ UNCHANGED due /\ (linked' => UNCHANGED <<linked, replay>> \/ replay')
    BY <1>5 DEF TakeMoon, Speak, Hello, LinkLost
  <2>2. UNCHANGED <<slot, order, checked, joined>>
    BY <2>1 DEF slotVars
  <2>3. \A k \in Kingdoms : Window(k)' = Window(k)
    BY <2>2, WindowKept
  <2>4. PayloadCurrent'
    BY <1>1, <2>1, <2>2, <2>3 DEF TalkInv, PayloadCurrent
  <2>5. \A k \in Kingdoms : ToCome(k)' <=> ToCome(k)
    BY <1>1 DEF ToCome, pushVars
  <2>6. PoolsFollow'
    BY <1>1, <2>1, <2>2, <2>3, <2>5 DEF TalkInv, PoolsFollow, pushVars
  <2> QED
    BY <1>2, <2>4, <2>6 DEF TalkInv
<1> QED
  BY <1>2, <1>3, <1>4, <1>5 DEF TalkInv

\* The console starts anew, or the client does.
LEMMA RebootInv == ASSUME TalkInv, Reboot PROVE TalkInv'
<1>1. /\ UNCHANGED <<slot, enabled, payload, shipped>> /\ UNCHANGED pushVars /\ UNCHANGED <<order, checked, joined, due, crossed, leaked>>
      /\ ~linked' /\ pools' = NoEntries
  BY DEF Reboot, slotVars, serverVars
<1>2. TalkTypes'
  BY <1>1 DEF TalkInv, TalkTypes, pushVars, NoEntries
<1>3. PushesApart'
  BY <1>1 DEF TalkInv, PushesApart, PushAlone, Idle, Entries, pushVars
<1>4. \A k \in Kingdoms : pools'[k] = <<>>
  BY <1>1 DEF NoEntries
<1>5. ShippedKnows'
  BY <1>1, <1>4 DEF TalkInv, ShippedKnows
<1>6. \A k \in Kingdoms : Window(k)' = Window(k)
  BY <1>1, WindowKept
<1>7. PayloadCurrent' /\ PoolsFollow'
  BY <1>1, <1>6 DEF TalkInv, PayloadCurrent, PoolsFollow
<1> QED
  BY <1>2, <1>3, <1>5, <1>7 DEF TalkInv

LEMMA ClientRestartInv == ASSUME TalkInv, ClientRestart PROVE TalkInv'
<1>1. /\ slot' = slot /\ enabled' = "unset" /\ shipped' = {} /\ ~joined' /\ leaked' /\ pools' = pools
      /\ at' = [t \in Pushers |-> "idle"] /\ mine' = [t \in Pushers |-> {}]
      /\ todo' = [t \in Pushers |-> {}] /\ dict' = [t \in Pushers |-> NoEntries]
  BY DEF ClientRestart, moonVars
<1>2. TalkTypes'
  BY <1>1 DEF TalkInv, TalkTypes
<1>3. \A t \in Pushers : at'[t] = "idle"
  BY <1>1
<1>4. PushesApart'
  BY <1>3 DEF PushesApart, PushAlone, Idle
<1>5. PayloadCurrent' /\ PoolsFollow' /\ ShippedKnows'
  BY <1>1 DEF PayloadCurrent, PoolsFollow, ShippedKnows
<1> QED
  BY <1>2, <1>4, <1>5 DEF TalkInv

\* A push starts, with what the server has from now on.
LEMMA StartInv ==
  ASSUME TalkInv, NEW t \in Pushers, Idle(t), enabled' \in {"on", "off"},
         Start(t, payload', enabled'), PayloadCurrent',
         UNCHANGED <<enabled, payload>> \/ ~due'
  PROVE  TalkInv'
<1>1. /\ slot' = slot /\ shipped' = shipped /\ dict' = dict /\ linked' = linked /\ joined' = joined
      /\ pools' = pools /\ swMode' = swMode
      /\ crossed' = (\E u \in Pushers : at[u] # "idle") /\ leaked' = (leaked \/ crossed')
      /\ at' = [at EXCEPT ![t] = IF enabled' = "off" THEN "off" ELSE "clear"]
      /\ mine' = [mine EXCEPT ![t] = IF enabled' = "off" THEN {} ELSE Entries(payload')]
      /\ todo' = [todo EXCEPT ![t] = IF enabled' = "off" THEN {} ELSE shipped \ Entries(payload')]
  BY DEF Start, slotVars, moonVars
<1>2. at \in [Pushers -> {"idle", "off", "wiped", "clear", "send"}] /\ shipped \subseteq Kingdoms
      /\ mine \in [Pushers -> SUBSET Kingdoms] /\ todo \in [Pushers -> SUBSET Kingdoms]
  BY DEF TalkInv, TalkTypes
<1>3. Entries(payload') \subseteq Kingdoms
  BY DEF Entries
<1>4. /\ at' \in [Pushers -> {"idle", "off", "wiped", "clear", "send"}]
      /\ at'[t] = IF enabled' = "off" THEN "off" ELSE "clear"
      /\ \A u \in Pushers \ {t} : at'[u] = at[u]
  BY <1>1, <1>2
<1>5. /\ mine' \in [Pushers -> SUBSET Kingdoms] /\ todo' \in [Pushers -> SUBSET Kingdoms]
      /\ enabled' = "on" => mine'[t] = Entries(payload') /\ todo'[t] = shipped \ Entries(payload')
  BY <1>1, <1>2, <1>3
<1>6. TalkTypes'
  BY <1>1, <1>4, <1>5 DEF TalkInv, TalkTypes
<1>7. ASSUME ~crossed' PROVE \A u \in Pushers \ {t} : at'[u] = "idle"
  BY <1>1, <1>4, <1>7
<1>8. PushesApart'
  BY <1>4, <1>5, <1>7 DEF PushesApart, PushAlone, Idle
<1>9. ASSUME ~leaked' PROVE ~crossed' /\ \A k \in Kingdoms : pools[k] # <<>> => k \in shipped
  BY <1>1, <1>9 DEF TalkInv, ShippedKnows
<1>10. ShippedKnows'
  BY <1>1, <1>4, <1>5, <1>7, <1>9 DEF ShippedKnows
<1>11. PoolsFollow'
  <2>1. CASE enabled' = "off"
    <3>1. at'[t] = "off"
      BY <1>4, <2>1
    <3> QED
      BY <2>1, <3>1 DEF PoolsFollow, PayloadCurrent
  <2>2. CASE enabled' = "on"
    <3>1. \A k : ToCome(k)'
      BY <1>4, <2>2 DEF ToCome
    <3> QED
      BY <2>2, <3>1 DEF PoolsFollow, PayloadCurrent
  <2> QED
    BY <2>1, <2>2
<1> QED
  BY <1>6, <1>8, <1>10, <1>11 DEF TalkInv

LEMMA DeriveAndPushInv == ASSUME TalkInv, NEW t \in Pushers, DeriveAndPush(t) PROVE TalkInv'
<1>1. /\ at[t] = "idle" /\ ~due' /\ enabled' = slot /\ payload' = [k \in Kingdoms |-> Window(k)]
      /\ Start(t, payload', enabled')
  BY DEF DeriveAndPush
<1>2. UNCHANGED <<slot, order, checked>>
  BY <1>1 DEF Start, slotVars
<1>3. PayloadCurrent'
  BY <1>1, <1>2, WindowKept DEF PayloadCurrent
<1> QED
  BY <1>1, <1>3, StartInv DEF TalkInv, TalkTypes, Idle

LEMMA ReplayInv == ASSUME TalkInv, NEW t \in Pushers, Replay(t) PROVE TalkInv'
<1>1. CASE enabled = "unset"
  <2>1. /\ UNCHANGED <<slot, order, checked, joined>> /\ UNCHANGED <<enabled, payload, shipped>>
        /\ UNCHANGED pushVars /\ UNCHANGED <<pools, crossed, leaked>> /\ UNCHANGED <<due, swMode, linked>>
    BY <1>1 DEF Replay, slotVars, serverVars, moonVars
  <2>2. TalkTypes' /\ PushesApart' /\ ShippedKnows'
    BY <2>1, PushesRest DEF TalkInv, TalkTypes, pushVars
  <2>3. PayloadCurrent'
    BY <2>1, WindowKept DEF TalkInv, PayloadCurrent
  <2>4. PoolsFollow'
    BY <1>1, <2>1, <2>3 DEF TalkInv, TalkTypes, PayloadCurrent, PoolsFollow
  <2> QED
    BY <2>2, <2>3, <2>4 DEF TalkInv
<1>2. CASE enabled # "unset"
  <2>1. at[t] = "idle" /\ UNCHANGED <<enabled, payload>> /\ UNCHANGED due /\ Start(t, payload, enabled)
    BY <1>2 DEF Replay
  <2>2. UNCHANGED <<slot, joined>> /\ UNCHANGED <<order, checked>>
    BY <2>1 DEF Start, slotVars
  <2>3. PayloadCurrent'
    BY <2>1, <2>2, WindowKept DEF TalkInv, PayloadCurrent
  <2>4. Start(t, payload', enabled')
    BY <2>1
  <2> QED
    BY <1>2, <2>1, <2>3, <2>4, StartInv DEF TalkInv, TalkTypes, Idle
<1> QED
  BY <1>1, <1>2

\* Between its start and its end a push leaves what is to be pushed alone.
LEMMA PushFrame ==
  ASSUME TalkInv, UNCHANGED slotVars, UNCHANGED <<due, enabled, payload>>
  PROVE  /\ PayloadCurrent' /\ \A k \in Kingdoms : Window(k)' = Window(k)
         /\ UNCHANGED <<slot, joined>> /\ Entries(payload') = Entries(payload)
<1>1. UNCHANGED <<slot, order, checked, joined>>
  BY DEF slotVars
<1>2. \A k \in Kingdoms : Window(k)' = Window(k)
  BY <1>1, WindowKept
<1> QED
  BY <1>1, <1>2 DEF TalkInv, PayloadCurrent

\* With the others idle, what a push may be assumed to be doing.
LEMMA Alone ==
  ASSUME TalkInv, ~crossed, NEW t \in Pushers, ~Idle(t)
  PROVE  PushAlone(t) /\ \A u \in Pushers \ {t} : at[u] = "idle"
  BY DEF TalkInv, PushesApart, Idle

LEMMA SendOffInv == ASSUME TalkInv, NEW t \in Pushers, SendOff(t) PROVE TalkInv'
<1>1. /\ UNCHANGED slotVars /\ UNCHANGED <<due, enabled, payload>>
      /\ UNCHANGED <<replay, linked, shipped, mine, todo, dict, crossed>>
      /\ at[t] = "off" /\ at' = [at EXCEPT ![t] = "wiped"]
      /\ linked => ~swMode' /\ pools' = NoEntries /\ leaked' = leaked
      /\ ~linked => leaked' /\ UNCHANGED <<swMode, pools>>
  BY DEF SendOff, serverVars
<1>2. /\ PayloadCurrent' /\ \A k \in Kingdoms : Window(k)' = Window(k)
      /\ UNCHANGED <<slot, joined>> /\ Entries(payload') = Entries(payload)
  BY <1>1, PushFrame
<1>3. /\ at' \in [Pushers -> {"idle", "off", "wiped", "clear", "send"}]
      /\ at'[t] = "wiped" /\ \A u \in Pushers \ {t} : at'[u] = at[u]
  BY <1>1 DEF TalkInv, TalkTypes
<1>4. pools' = [k \in Kingdoms |-> pools'[k]]
  BY <1>1 DEF TalkInv, TalkTypes, NoEntries
<1>5. TalkTypes'
  BY <1>1, <1>2, <1>3, <1>4 DEF TalkInv, TalkTypes
<1>6. ASSUME ~crossed PROVE PushAlone(t) /\ \A u \in Pushers \ {t} : at[u] = "idle" /\ at'[u] = "idle"
  BY <1>1, <1>3, <1>6, Alone DEF Idle
<1>7. PushesApart'
  BY <1>1, <1>3, <1>6 DEF PushesApart, PushAlone, Idle
<1>8. ASSUME ~leaked' PROVE ~crossed /\ \A k \in Kingdoms : pools'[k] = <<>>
  BY <1>1, <1>8 DEF TalkInv, ShippedKnows, NoEntries
<1>9. ShippedKnows'
  BY <1>1, <1>8 DEF ShippedKnows
<1>10. PoolsFollow'
  <2>1. linked /\ joined /\ ~due /\ ~crossed => slot = "off" /\ ~swMode'
    BY <1>1, <1>6 DEF PushAlone, TalkInv, PayloadCurrent
  <2> QED
    BY <1>1, <1>2, <2>1 DEF PoolsFollow
<1> QED
  BY <1>2, <1>5, <1>7, <1>9, <1>10 DEF TalkInv

LEMMA WipedInv == ASSUME TalkInv, NEW t \in Pushers, Wiped(t) PROVE TalkInv'
<1>1. /\ UNCHANGED slotVars /\ UNCHANGED <<due, enabled, payload>>
      /\ UNCHANGED <<replay, linked, mine, todo, dict, crossed, leaked>> /\ UNCHANGED <<swMode, pools>>
      /\ at[t] = "wiped" /\ at' = [at EXCEPT ![t] = "idle"] /\ shipped' = {}
  BY DEF Wiped, moonVars
<1>2. /\ PayloadCurrent' /\ \A k \in Kingdoms : Window(k)' = Window(k)
      /\ UNCHANGED <<slot, joined>> /\ Entries(payload') = Entries(payload)
  BY <1>1, PushFrame
<1>3. /\ at' \in [Pushers -> {"idle", "off", "wiped", "clear", "send"}]
      /\ at'[t] = "idle" /\ \A u \in Pushers \ {t} : at'[u] = at[u]
  BY <1>1 DEF TalkInv, TalkTypes
<1>4. TalkTypes'
  BY <1>1, <1>2, <1>3 DEF TalkInv, TalkTypes
<1>5. ASSUME ~crossed PROVE PushAlone(t) /\ \A u \in Pushers \ {t} : at[u] = "idle" /\ at'[u] = "idle"
  BY <1>1, <1>3, <1>5, Alone DEF Idle
<1>6. PushesApart'
  BY <1>1, <1>3, <1>5 DEF PushesApart, PushAlone, Idle
<1>7. ASSUME ~leaked PROVE ~crossed /\ \A k \in Kingdoms : pools[k] = <<>>
  BY <1>1, <1>7 DEF TalkInv, ShippedKnows
<1>8. ShippedKnows'
  BY <1>1, <1>7 DEF ShippedKnows
<1>9. PoolsFollow'
  <2>1. linked /\ joined /\ ~due /\ ~replay /\ ~crossed => slot = "off" /\ ~swMode
    BY <1>1, <1>5 DEF PushAlone, TalkInv, PayloadCurrent, PoolsFollow
  <2> QED
    BY <1>1, <1>2, <2>1 DEF PoolsFollow
<1> QED
  BY <1>2, <1>4, <1>6, <1>8, <1>9 DEF TalkInv

LEMMA SendClearInv ==
  ASSUME TalkInv, NEW t \in Pushers, NEW k \in Kingdoms, SendClear(t, k) PROVE TalkInv'
<1>1. /\ UNCHANGED slotVars /\ UNCHANGED <<due, enabled, payload>>
      /\ UNCHANGED <<replay, linked, shipped, at, mine, dict, crossed>>
      /\ at[t] = "clear" /\ todo' = [todo EXCEPT ![t] = @ \ {k}]
      /\ leaked' = (leaked \/ ~linked)
      /\ linked => pools' = [pools EXCEPT ![k] = <<>>]
      /\ ~linked => UNCHANGED <<swMode, pools>>
  BY DEF SendClear, Deliver, serverVars
<1>2. /\ PayloadCurrent' /\ \A j \in Kingdoms : Window(j)' = Window(j)
      /\ UNCHANGED <<slot, joined>> /\ Entries(payload') = Entries(payload)
  BY <1>1, PushFrame
<1>3. /\ todo' \in [Pushers -> SUBSET Kingdoms]
      /\ todo'[t] = todo[t] \ {k} /\ \A u \in Pushers \ {t} : todo'[u] = todo[u]
  BY <1>1 DEF TalkInv, TalkTypes
<1>4. pools' = [j \in Kingdoms |-> pools'[j]]
  BY <1>1 DEF TalkInv, TalkTypes
<1>5. TalkTypes'
  BY <1>1, <1>2, <1>3, <1>4 DEF TalkInv, TalkTypes
<1>6. ASSUME ~crossed PROVE PushAlone(t) /\ \A u \in Pushers \ {t} : at[u] = "idle"
  BY <1>1, <1>6, Alone DEF Idle
<1>7. PushesApart'
  BY <1>1, <1>3, <1>6 DEF PushesApart, PushAlone, Idle
<1>8. ShippedKnows'
  <2> SUFFICES ASSUME ~leaked'
               PROVE  /\ ~crossed
                      /\ (\A u \in Pushers : at[u] # "send") => \A j \in Kingdoms : pools'[j] # <<>> => j \in shipped
                      /\ \A u \in Pushers, j \in Kingdoms : pools'[j] # <<>> =>
                           /\ at[u] = "clear" => j \in todo'[u] \cup mine[u]
                           /\ at[u] = "send" => j \in mine[u]
                           /\ at[u] # "wiped"
    BY <1>1 DEF ShippedKnows
  <2>1. ~leaked /\ linked /\ pools' = [pools EXCEPT ![k] = <<>>] /\ pools = [j \in Kingdoms |-> pools[j]]
    BY <1>1 DEF TalkInv, TalkTypes
  <2>2. pools'[k] = <<>> /\ \A j \in Kingdoms \ {k} : pools'[j] = pools[j]
    BY <2>1
  <2>3. \A u \in Pushers, j \in Kingdoms \ {k} : j \in todo[u] => j \in todo'[u]
    BY <1>3
  <2> QED
    BY <2>1, <2>2, <2>3 DEF TalkInv, ShippedKnows
<1>9. PoolsFollow'
  <2>1. joined /\ ~due /\ ~crossed => slot # "off"
    BY <1>1, <1>6 DEF PushAlone, TalkInv, PayloadCurrent
  <2>2. \A j : ToCome(j)'
    BY <1>1 DEF ToCome
  <2> QED
    BY <1>1, <1>2, <2>1, <2>2 DEF PoolsFollow
<1> QED
  BY <1>2, <1>5, <1>7, <1>8, <1>9 DEF TalkInv

\* What is cleared is cleared: only what is in the windows to be sent is left.
LEMMA StartSendingInv == ASSUME TalkInv, NEW t \in Pushers, StartSending(t) PROVE TalkInv'
<1>1. /\ UNCHANGED slotVars /\ UNCHANGED <<due, enabled, payload>>
      /\ UNCHANGED <<replay, linked, shipped, mine, crossed, leaked>> /\ UNCHANGED <<swMode, pools>>
      /\ at[t] = "clear" /\ todo[t] = {} /\ at' = [at EXCEPT ![t] = "send"]
      /\ dict' = [dict EXCEPT ![t] = payload] /\ todo' = [todo EXCEPT ![t] = Entries(payload)]
  BY DEF StartSending, serverVars, moonVars
<1>2. /\ PayloadCurrent' /\ \A j \in Kingdoms : Window(j)' = Window(j)
      /\ UNCHANGED <<slot, joined>> /\ Entries(payload') = Entries(payload)
  BY <1>1, PushFrame
<1>3. /\ at' \in [Pushers -> {"idle", "off", "wiped", "clear", "send"}]
      /\ at'[t] = "send" /\ \A u \in Pushers \ {t} : at'[u] = at[u]
  BY <1>1 DEF TalkInv, TalkTypes
<1>4. /\ todo' \in [Pushers -> SUBSET Kingdoms] /\ todo'[t] = Entries(payload)
      /\ \A u \in Pushers \ {t} : todo'[u] = todo[u]
  BY <1>1 DEF TalkInv, TalkTypes, Entries
<1>5. dict' = [u \in Pushers |-> dict'[u]] /\ dict'[t] = payload
  <2>1. dict = [u \in Pushers |-> dict[u]]
    BY DEF TalkInv, TalkTypes
  <2> QED
    BY <1>1, <2>1
<1>6. TalkTypes'
  BY <1>1, <1>2, <1>3, <1>4, <1>5 DEF TalkInv, TalkTypes
<1>7. ASSUME ~crossed PROVE PushAlone(t) /\ \A u \in Pushers \ {t} : at[u] = "idle" /\ at'[u] = "idle"
  BY <1>1, <1>3, <1>7, Alone DEF Idle
<1>8. PushesApart'
  BY <1>1, <1>3, <1>4, <1>5, <1>7 DEF PushesApart, PushAlone, Idle
<1>9. ASSUME ~leaked, NEW k \in Kingdoms, pools[k] # <<>> PROVE ~crossed /\ k \in Entries(payload)
  <2>1. ~crossed /\ k \in mine[t]
    BY <1>1, <1>9 DEF TalkInv, ShippedKnows
  <2> QED
    BY <1>1, <1>7, <2>1 DEF PushAlone
<1>10. ShippedKnows'
  <2>1. ~leaked => ~crossed
    BY DEF TalkInv, ShippedKnows
  <2>2. ~crossed => mine[t] = Entries(payload)
    BY <1>1, <1>7 DEF PushAlone
  <2> QED
    BY <1>1, <1>3, <1>7, <1>9, <2>1, <2>2 DEF ShippedKnows
<1>11. PoolsFollow'
  <2> SUFFICES ASSUME linked, joined, ~due, ~crossed
               PROVE  slot # "off" /\ \A k \in Kingdoms : (Window(k) # <<>> \/ ~leaked) =>
                                        pools[k] = Window(k) \/ ToCome(k)'
    BY <1>1, <1>2 DEF PoolsFollow
  <2>1. enabled = slot /\ enabled = "on"
    BY <1>1, <1>7 DEF PushAlone, TalkInv, PayloadCurrent
  <2>2. \A k \in Kingdoms : payload[k] = Window(k)
    BY <2>1 DEF TalkInv, PayloadCurrent
  <2>3. ASSUME NEW k \in Kingdoms, Window(k) # <<>> \/ ~leaked PROVE pools[k] = Window(k) \/ ToCome(k)'
    <3>1. CASE k \in Entries(payload)
      BY <1>3, <1>4, <3>1 DEF ToCome
    <3>2. CASE k \notin Entries(payload)
      <4>1. Window(k) = <<>>
        BY <2>2, <3>2 DEF Entries
      <4>2. pools[k] = <<>>
        BY <1>9, <2>3, <3>2, <4>1
      <4> QED
        BY <4>1, <4>2
    <3> QED
      BY <3>1, <3>2
  <2> QED
    BY <2>1, <2>3
<1> QED
  BY <1>2, <1>6, <1>8, <1>10, <1>11 DEF TalkInv

LEMMA SendWindowInv ==
  ASSUME TalkInv, NEW t \in Pushers, NEW k \in Kingdoms, SendWindow(t, k) PROVE TalkInv'
<1>1. /\ UNCHANGED slotVars /\ UNCHANGED <<due, enabled, payload>>
      /\ UNCHANGED <<replay, linked, shipped, at, mine, dict, crossed, leaked>>
      /\ at[t] = "send" /\ k \in todo[t] /\ todo' = [todo EXCEPT ![t] = @ \ {k}]
      /\ linked => pools' = [pools EXCEPT ![k] = dict[t][k]]
      /\ ~linked => UNCHANGED <<swMode, pools>>
  BY DEF SendWindow, Deliver, serverVars
<1>2. /\ PayloadCurrent' /\ \A j \in Kingdoms : Window(j)' = Window(j)
      /\ UNCHANGED <<slot, joined>> /\ Entries(payload') = Entries(payload)
  BY <1>1, PushFrame
<1>3. /\ todo' \in [Pushers -> SUBSET Kingdoms]
      /\ todo'[t] = todo[t] \ {k} /\ \A u \in Pushers \ {t} : todo'[u] = todo[u]
  BY <1>1 DEF TalkInv, TalkTypes
<1>4. /\ pools' = [j \in Kingdoms |-> pools'[j]]
      /\ \A j \in Kingdoms \ {k} : pools'[j] = pools[j]
      /\ linked => pools'[k] = dict[t][k]
  <2>1. pools = [j \in Kingdoms |-> pools[j]]
    BY DEF TalkInv, TalkTypes
  <2> QED
    BY <1>1, <2>1
<1>5. TalkTypes'
  BY <1>1, <1>2, <1>3, <1>4 DEF TalkInv, TalkTypes
<1>6. ASSUME ~crossed
      PROVE  /\ PushAlone(t) /\ \A u \in Pushers \ {t} : at[u] = "idle"
             /\ enabled = "on" /\ mine[t] = Entries(payload) /\ dict[t] = payload /\ k \in Entries(payload)
  <2>1. PushAlone(t) /\ \A u \in Pushers \ {t} : at[u] = "idle"
    BY <1>1, <1>6, Alone DEF Idle
  <2> QED
    BY <1>1, <2>1 DEF PushAlone
<1>7. PushesApart'
  BY <1>1, <1>3, <1>6 DEF PushesApart, PushAlone, Idle
<1>8. ShippedKnows'
  <2> SUFFICES ASSUME ~leaked
               PROVE  /\ ~crossed
                      /\ \A j \in Kingdoms : pools'[j] # <<>> => j \in mine[t]
    BY <1>1, <1>6 DEF ShippedKnows
  <2>1. ~crossed /\ \A j \in Kingdoms : pools[j] # <<>> => j \in mine[t]
    BY <1>1 DEF TalkInv, ShippedKnows
  <2> QED
    BY <1>4, <1>6, <2>1
<1>9. PoolsFollow'
  <2> SUFFICES ASSUME linked, joined, ~due, ~replay, ~crossed
               PROVE  slot # "off" /\ \A j \in Kingdoms : (Window(j) # <<>> \/ ~leaked) =>
                                        pools'[j] = Window(j) \/ ToCome(j)'
    BY <1>1, <1>2 DEF PoolsFollow
  <2>1. enabled = slot /\ slot = "on"
    BY <1>6 DEF TalkInv, PayloadCurrent
  <2>2. pools'[k] = Window(k)
    BY <1>4, <1>6, <2>1 DEF TalkInv, PayloadCurrent
  <2>3. ASSUME NEW j \in Kingdoms \ {k}, Window(j) # <<>> \/ ~leaked PROVE pools'[j] = Window(j) \/ ToCome(j)'
    <3>1. pools[j] = Window(j) \/ ToCome(j)
      BY <2>1, <2>3 DEF TalkInv, PoolsFollow
    <3>2. ToCome(j) => ToCome(j)'
      BY <1>1, <1>3 DEF ToCome
    <3> QED
      BY <1>4, <3>1, <3>2
  <2> QED
    BY <2>1, <2>2, <2>3
<1> QED
  BY <1>2, <1>5, <1>7, <1>8, <1>9 DEF TalkInv

\* From here on shipped is what was sent.
LEMMA FinishInv == ASSUME TalkInv, NEW t \in Pushers, Finish(t) PROVE TalkInv'
<1>1. /\ UNCHANGED slotVars /\ UNCHANGED <<due, enabled, payload>>
      /\ UNCHANGED <<replay, linked, todo, crossed, leaked>> /\ UNCHANGED <<swMode, pools>>
      /\ at[t] = "send" /\ todo[t] = {} /\ at' = [at EXCEPT ![t] = "idle"] /\ shipped' = mine[t]
      /\ mine' = [mine EXCEPT ![t] = {}] /\ dict' = [dict EXCEPT ![t] = NoEntries]
  BY DEF Finish, moonVars
<1>2. /\ PayloadCurrent' /\ \A j \in Kingdoms : Window(j)' = Window(j)
      /\ UNCHANGED <<slot, joined>> /\ Entries(payload') = Entries(payload)
  BY <1>1, PushFrame
<1>3. /\ at' \in [Pushers -> {"idle", "off", "wiped", "clear", "send"}]
      /\ at'[t] = "idle" /\ \A u \in Pushers \ {t} : at'[u] = at[u]
  BY <1>1 DEF TalkInv, TalkTypes
<1>4. /\ mine' \in [Pushers -> SUBSET Kingdoms] /\ mine[t] \subseteq Kingdoms
      /\ dict' = [u \in Pushers |-> dict'[u]]
  <2>1. dict = [u \in Pushers |-> dict[u]]
    BY DEF TalkInv, TalkTypes
  <2> QED
    BY <1>1, <2>1 DEF TalkInv, TalkTypes
<1>5. TalkTypes'
  BY <1>1, <1>2, <1>3, <1>4 DEF TalkInv, TalkTypes
<1>6. ASSUME ~crossed PROVE PushAlone(t) /\ \A u \in Pushers \ {t} : at[u] = "idle" /\ at'[u] = "idle"
  BY <1>1, <1>3, <1>6, Alone DEF Idle
<1>7. PushesApart'
  BY <1>1, <1>3, <1>6 DEF PushesApart, PushAlone, Idle
<1>8. ShippedKnows'
  <2>1. ~leaked => ~crossed /\ \A j \in Kingdoms : pools[j] # <<>> => j \in mine[t]
    BY <1>1 DEF TalkInv, ShippedKnows
  <2> QED
    BY <1>1, <1>3, <1>6, <2>1 DEF ShippedKnows
<1>9. PoolsFollow'
  <2>1. joined /\ ~due /\ ~crossed => slot # "off"
    BY <1>1, <1>6 DEF PushAlone, TalkInv, PayloadCurrent
  <2>2. ASSUME ~crossed, NEW j \in Kingdoms PROVE ~ToCome(j)
    BY <1>1, <1>6, <2>2 DEF ToCome
  <2> QED
    BY <1>1, <1>2, <2>1, <2>2 DEF PoolsFollow, TalkInv
<1> QED
  BY <1>2, <1>5, <1>7, <1>8, <1>9 DEF TalkInv

LEMMA TalkStep == ASSUME TalkInv, [TalkatooNext]_talkatooVars PROVE TalkInv'
<1>1. CASE UNCHANGED talkatooVars
  <2>1. /\ UNCHANGED <<enabled, payload, shipped>> /\ UNCHANGED pushVars /\ UNCHANGED <<pools, crossed, leaked>>
        /\ UNCHANGED slotVars /\ UNCHANGED <<due, replay, linked, swMode>>
    BY <1>1 DEF talkatooVars, serverVars, moonVars
  <2>2. /\ PayloadCurrent' /\ \A j \in Kingdoms : Window(j)' = Window(j)
        /\ UNCHANGED <<slot, joined>>
    BY <2>1, PushFrame
  <2>3. TalkTypes' /\ PushesApart' /\ ShippedKnows'
    BY <2>1, <2>2, PushesRest DEF TalkInv, TalkTypes, pushVars
  <2>4. \A k \in Kingdoms : ToCome(k)' <=> ToCome(k)
    BY <2>1 DEF ToCome, pushVars
  <2>5. PoolsFollow'
    BY <2>1, <2>2, <2>4 DEF TalkInv, PoolsFollow, pushVars
  <2> QED
    BY <2>2, <2>3, <2>5 DEF TalkInv
<1>2. ASSUME NEW t \in Pushers, PushStep(t) PROVE TalkInv'
  BY <1>2, DeriveAndPushInv, ReplayInv, SendOffInv, WipedInv, StartSendingInv, FinishInv,
     SendClearInv, SendWindowInv DEF PushStep
<1>3. CASE Reboot \/ ClientRestart
  BY <1>3, RebootInv, ClientRestartInv
<1>4. CASE \/ Join \/ JoinOther \/ (\E m \in PoolMoons : RoomUpdate(m) \/ TakeMoon(m))
           \/ (\E k \in Kingdoms : Speak(k)) \/ Hello \/ LinkLost
  BY <1>4, OutsideInv
<1> QED
  BY <1>1, <1>2, <1>3, <1>4 DEF TalkatooNext

LEMMA InvPools == TalkInv => PoolsCurrent
<1> SUFFICES ASSUME TalkInv, Quiet, ~crossed
             PROVE  IF slot = "off" THEN ~swMode
                    ELSE \A k \in Kingdoms : (Window(k) # <<>> \/ ~leaked) => pools[k] = Window(k)
  BY DEF PoolsCurrent
<1>1. \A k : ~ToCome(k)
  BY DEF Quiet, ToCome
<1> QED
  BY <1>1 DEF TalkInv, PoolsFollow, Quiet

\* Once every push is done, the windows on the Switch are those of the slot and of what
\* is checked, for any pool, window size and number of pushes (push_talkatoo_pool,
\* _talkatoo_ever_shipped), unless pushes overlapped or shipped lost track.
THEOREM TalkatooHasTheWindows == TalkatooSpec => []PoolsCurrent
<1>1. TalkatooSpec => []TalkInv
  BY TalkInitial, TalkStep, PTL DEF TalkatooSpec
<1> QED
  BY <1>1, InvPools, PTL

(***************************************************************************)
(* Talkatoo: the next moon of a seed is the first of some window.          *)
(***************************************************************************)

\* Where the elements of a part are in the whole: in order, and all of them.
Places(s, S, pos) ==
  LET t == Part(s, S)
  IN /\ \A p \in 1 .. Len(t) : t[p] = s[pos[p]] /\ s[pos[p]] \in S
     /\ \A p, q \in 1 .. Len(t) : p < q => pos[p] < pos[q]
     /\ \A i \in 1 .. Len(s) : s[i] \in S => \E p \in 1 .. Len(t) : pos[p] = i

LEMMA PartOrdered ==
  ASSUME NEW R, NEW s \in Seq(R), NEW S
  PROVE  /\ Part(s, S) \in Seq(R)
         /\ \E pos \in [1 .. Len(Part(s, S)) -> 1 .. Len(s)] : Places(s, S, pos)
<1> DEFINE spots      == {i \in DOMAIN s : s[i] \in S}
           c       == Cardinality(spots)
           below(i) == {j \in spots : j < i}
           Nth(n)  == CHOOSE i \in spots : Cardinality(below(i)) = n - 1
           t       == Part(s, S)
<1>1. Len(s) \in Nat /\ DOMAIN s = 1 .. Len(s) /\ \A i \in 1 .. Len(s) : s[i] \in R
  BY LenProperties, ElementOfSeq
<1>2. spots \subseteq 1 .. Len(s) /\ spots \subseteq Nat
  BY <1>1
<1>3. IsFiniteSet(spots) /\ c \in Nat
  <2>1. IsFiniteSet(1 .. Len(s))
    BY <1>1, FS_Interval
  <2>2. IsFiniteSet(spots)
    BY <1>2, <2>1, FS_Subset
  <2> QED
    BY <2>2, FS_CardinalityType
<1>4. ASSUME NEW i \in spots
      PROVE  IsFiniteSet(below(i)) /\ Cardinality(below(i)) \in Nat /\ Cardinality(below(i)) < c
  <2>1. below(i) \in SUBSET spots /\ below(i) # spots
    <3>1. i \in Nat /\ ~(i < i)
      BY <1>2
    <3> QED
      BY <1>4, <3>1
  <2> HIDE DEF below, spots
  <2>2. IsFiniteSet(below(i)) /\ Cardinality(below(i)) <= c /\ Cardinality(below(i)) # c
    BY <1>3, <2>1, FS_Subset
  <2>3. Cardinality(below(i)) \in Nat
    BY <2>2, FS_CardinalityType
  <2> QED
    BY <1>3, <2>2, <2>3
<1>5. ASSUME NEW i \in spots, NEW j \in spots, i < j
      PROVE  Cardinality(below(i)) < Cardinality(below(j))
  <2>1. i \in Nat /\ j \in Nat
    BY <1>2
  <2>2. below(i) \in SUBSET below(j) /\ below(i) # below(j)
    <3>1. i \in below(j) /\ i \notin below(i)
      BY <1>5, <2>1
    <3>2. \A h \in spots : h < i => h < j
      BY <1>2, <1>5, <2>1
    <3> QED
      BY <3>1, <3>2
  <2>3. /\ IsFiniteSet(below(j)) /\ Cardinality(below(j)) \in Nat
        /\ Cardinality(below(i)) \in Nat
    BY <1>4
  <2> HIDE DEF below, spots
  <2>4. Cardinality(below(i)) <= Cardinality(below(j)) /\ Cardinality(below(i)) # Cardinality(below(j))
    BY <2>2, <2>3, FS_Subset
  <2> QED
    BY <2>3, <2>4
<1>6. \A i, j \in spots : Cardinality(below(i)) = Cardinality(below(j)) => i = j
  <2> SUFFICES ASSUME NEW i \in spots, NEW j \in spots, Cardinality(below(i)) = Cardinality(below(j)) PROVE i = j
    OBVIOUS
  <2>1. i \in Nat /\ j \in Nat
    BY <1>2
  <2>2. Cardinality(below(i)) \in Nat
    BY <1>4
  <2>3. ~(i < j) /\ ~(j < i)
    <3>1. /\ i < j => Cardinality(below(i)) < Cardinality(below(j))
          /\ j < i => Cardinality(below(j)) < Cardinality(below(i))
      BY <1>5
    <3> HIDE DEF below, spots
    <3> QED
      BY <2>2, <3>1
  <2> HIDE DEF below, spots
  <2> QED
    BY <2>1, <2>3
<1>7. ASSUME NEW n \in 1 .. c PROVE \E i \in spots : Cardinality(below(i)) = n - 1
  <2> DEFINE f == [i \in spots |-> Cardinality(below(i))]
  <2>1. f \in Injection(spots, 0 .. c - 1)
    <3>1. f \in [spots -> 0 .. c - 1]
      <4>1. \A i \in spots : Cardinality(below(i)) \in Nat /\ Cardinality(below(i)) < c
        BY <1>4
      <4> HIDE DEF spots, below, c
      <4>2. \A i \in spots : Cardinality(below(i)) \in 0 .. c - 1
        BY <1>3, <4>1
      <4> QED
        BY <4>2
    <3>2. \A i, j \in spots : f[i] = f[j] => i = j
      BY <1>6
    <3> HIDE DEF f, spots, c
    <3> QED
      BY <3>1, <3>2 DEF Injection, IsInjective
  <2>2. IsFiniteSet(0 .. c - 1) /\ Cardinality(0 .. c - 1) = c
    <3> HIDE DEF c
    <3> QED
      BY <1>3, FS_Interval
  <2>3. f \in Surjection(spots, 0 .. c - 1)
    <3> HIDE DEF f, spots
    <3> QED
      BY <2>1, <2>2, FS_Injection
  <2>4. n - 1 \in 0 .. c - 1
    <3> HIDE DEF c
    <3> QED
      BY <1>3
  <2>5. \E i \in spots : f[i] = n - 1
    <3> HIDE DEF f, spots, c
    <3> QED
      BY <2>3, <2>4 DEF Surjection
  <2> QED
    BY <2>5
<1>8. ASSUME NEW n \in 1 .. c PROVE Nth(n) \in spots /\ Cardinality(below(Nth(n))) = n - 1
  <2>1. \E i \in spots : Cardinality(below(i)) = n - 1
    BY <1>7
  <2> HIDE DEF spots, below
  <2> QED
    BY <2>1
<1>9. t = [n \in 1 .. c |-> s[Nth(n)]]
  BY DEF Part
<1> HIDE DEF Nth
<1>10. t \in Seq(R) /\ Len(t) = c /\ \A n \in 1 .. c : t[n] = s[Nth(n)]
  <2>1. \A n \in 1 .. c : s[Nth(n)] \in R
    BY <1>1, <1>2, <1>8
  <2> HIDE DEF c, t
  <2>2. [n \in 1 .. c |-> s[Nth(n)]] \in Seq(R)
    BY <1>3, <2>1, IsASeq
  <2>3. t \in Seq(R) /\ DOMAIN t = 1 .. c
    BY <1>9, <2>2
  <2>4. Len(t) \in Nat /\ DOMAIN t = 1 .. Len(t)
    BY <2>3, LenProperties
  <2>5. Len(t) = c
    BY <1>3, <2>3, <2>4
  <2> QED
    BY <1>9, <2>3, <2>5
<1> DEFINE pos == [n \in 1 .. c |-> Nth(n)]
<1>11. pos \in [1 .. c -> 1 .. Len(s)]
  BY <1>2, <1>8
<1>12. \A p \in 1 .. c : t[p] = s[pos[p]] /\ s[pos[p]] \in S
  BY <1>8, <1>10
<1>13. ASSUME NEW p \in 1 .. c, NEW q \in 1 .. c, p < q PROVE pos[p] < pos[q]
  <2>1. Nth(p) \in spots /\ Nth(q) \in spots /\ Nth(p) \in Nat /\ Nth(q) \in Nat
    BY <1>2, <1>8
  <2>2. Cardinality(below(Nth(p))) = p - 1 /\ Cardinality(below(Nth(q))) = q - 1
    BY <1>8
  <2>3. Nth(p) # Nth(q)
    <3> HIDE DEF below, c
    <3> QED
      BY <1>3, <1>13, <2>2
  <2>4. ~(Nth(q) < Nth(p))
    <3>1. Nth(q) < Nth(p) => q - 1 < p - 1
      BY <1>5, <2>1, <2>2
    <3> HIDE DEF c
    <3> QED
      BY <1>3, <1>13, <3>1
  <2> HIDE DEF c, spots, below
  <2> QED
    BY <2>1, <2>3, <2>4
<1>14. ASSUME NEW i \in 1 .. Len(s), s[i] \in S PROVE \E p \in 1 .. c : pos[p] = i
  <2>1. i \in spots
    BY <1>1, <1>14
  <2> DEFINE p == Cardinality(below(i)) + 1
  <2>2. p \in 1 .. c /\ p - 1 = Cardinality(below(i))
    <3>1. Cardinality(below(i)) \in Nat /\ Cardinality(below(i)) < c
      BY <1>4, <2>1
    <3> HIDE DEF c, below
    <3> QED
      BY <1>3, <3>1
  <2> HIDE DEF p
  <2>3. Nth(p) \in spots /\ Cardinality(below(Nth(p))) = Cardinality(below(i))
    BY <1>8, <2>2
  <2>4. Nth(p) = i
    BY <1>6, <2>1, <2>3
  <2> QED
    BY <2>2, <2>4
<1> HIDE DEF pos, c, t, spots
<1>15. pos \in [1 .. Len(t) -> 1 .. Len(s)]
  BY <1>10, <1>11
<1>16. \A p, q \in 1 .. Len(t) : p < q => pos[p] < pos[q]
  BY <1>10, <1>13
<1>17. \A i \in 1 .. Len(s) : s[i] \in S => \E p \in 1 .. Len(t) : pos[p] = i
  BY <1>10, <1>14
<1>18. \A p \in 1 .. Len(t) : t[p] = s[pos[p]] /\ s[pos[p]] \in S
  BY <1>10, <1>12
<1> QED
  BY <1>10, <1>15, <1>16, <1>17, <1>18 DEF t, Places

\* The first element of s that is in S is the one at i.
FirstAt(s, S, i) ==
  i \in 1 .. Len(s) /\ s[i] \in S /\ \A j \in 1 .. Len(s) : j < i => s[j] \notin S

\* A part starts with it.
LEMMA PartStarts ==
  ASSUME NEW R, NEW s \in Seq(R), NEW S, NEW i, FirstAt(s, S, i)
  PROVE  Part(s, S) \in Seq(R) /\ Len(Part(s, S)) \in Nat \ {0} /\ Part(s, S)[1] = s[i]
<1> DEFINE t == Part(s, S)
<1>1. /\ t \in Seq(R)
      /\ \E pos \in [1 .. Len(t) -> 1 .. Len(s)] : Places(s, S, pos)
  BY PartOrdered
<1>2. Len(t) \in Nat /\ Len(s) \in Nat
  BY <1>1, LenProperties
<1>3. PICK pos \in [1 .. Len(t) -> 1 .. Len(s)] :
              /\ \A p \in 1 .. Len(t) : t[p] = s[pos[p]] /\ s[pos[p]] \in S
              /\ \A p, q \in 1 .. Len(t) : p < q => pos[p] < pos[q]
              /\ \A h \in 1 .. Len(s) : s[h] \in S => \E p \in 1 .. Len(t) : pos[p] = h
  BY <1>1 DEF Places
<1> HIDE DEF t
<1>4. PICK p \in 1 .. Len(t) : pos[p] = i
  BY <1>3 DEF FirstAt
<1>5. 1 \in 1 .. Len(t) /\ pos[1] \in 1 .. Len(s) /\ s[pos[1]] \in S
  BY <1>2, <1>3, <1>4
<1>6. ~(pos[1] < i)
  BY <1>5 DEF FirstAt
<1>7. p = 1
  <2>1. 1 < p => pos[1] < pos[p]
    BY <1>3, <1>5
  <2> QED
    BY <1>2, <1>4, <1>6, <2>1
<1> QED
  BY <1>1, <1>2, <1>3, <1>4, <1>5, <1>7 DEF t

\* The next moon of a seed is the first in the window of its kingdom.
LEMMA WindowStarts ==
  ASSUME NEW s \in Seq(PoolMoons), NEW i \in 1 .. Len(s), s[i] \notin checked,
         \A j \in 1 .. Len(s) : j < i => s[j] \in checked,
         order[KingdomOf[s[i]]] = Part(s, MoonsOf(KingdomOf[s[i]]))
  PROVE  LET w == Window(KingdomOf[s[i]])
         IN  w # <<>> /\ 1 \in DOMAIN w /\ w[1] = s[i]
<1> DEFINE k == KingdomOf[s[i]]
           u == Part(s, MoonsOf(k))
           v == Part(u, PoolMoons \ checked)
           n == IF Len(v) < Slots THEN Len(v) ELSE Slots
<1>1. s[i] \in PoolMoons /\ Len(s) \in Nat
  BY LenProperties, ElementOfSeq
<1>2. u \in Seq(PoolMoons) /\ \E pos \in [1 .. Len(u) -> 1 .. Len(s)] : Places(s, MoonsOf(k), pos)
  BY PartOrdered
<1>3. PICK pos \in [1 .. Len(u) -> 1 .. Len(s)] :
              /\ \A p \in 1 .. Len(u) : u[p] = s[pos[p]] /\ s[pos[p]] \in MoonsOf(k)
              /\ \A p, q \in 1 .. Len(u) : p < q => pos[p] < pos[q]
              /\ \A h \in 1 .. Len(s) : s[h] \in MoonsOf(k) => \E p \in 1 .. Len(u) : pos[p] = h
  BY <1>2 DEF Places
<1>4. s[i] \in MoonsOf(k)
  BY <1>1 DEF MoonsOf
<1> HIDE DEF u, k
<1>5. PICK p \in 1 .. Len(u) : pos[p] = i
  BY <1>3, <1>4
<1>6. u[p] \in PoolMoons \ checked /\ u[p] = s[i]
  BY <1>1, <1>3, <1>5
<1>7. \A q \in 1 .. Len(u) : q < p => u[q] \notin PoolMoons \ checked
  <2> SUFFICES ASSUME NEW q \in 1 .. Len(u), q < p PROVE u[q] \in checked
    OBVIOUS
  <2>1. pos[q] \in 1 .. Len(s) /\ pos[q] < i /\ u[q] = s[pos[q]]
    BY <1>3, <1>5
  <2> QED
    BY <2>1
<1>8. v \in Seq(PoolMoons) /\ Len(v) \in Nat \ {0} /\ v[1] = s[i]
  <2> DEFINE C == PoolMoons \ checked
  <2>1. FirstAt(u, C, p)
    BY <1>6, <1>7 DEF FirstAt
  <2> HIDE DEF C
  <2>2. Part(u, C) \in Seq(PoolMoons) /\ Len(Part(u, C)) \in Nat \ {0} /\ Part(u, C)[1] = u[p]
    BY <1>2, <2>1, PartStarts
  <2> QED
    BY <1>6, <2>2 DEF C
<1>9. Window(k) = SubSeq(v, 1, n)
  BY DEF Window, NextOpen, k, u
<1> HIDE DEF v
<1>10. n \in Nat \ {0} /\ n <= Len(v)
  BY <1>8, TalkatooAssumption
<1> HIDE DEF n
<1>11. \A j \in 1 .. n : v[j] \in PoolMoons
  <2>1. \A j \in 1 .. Len(v) : v[j] \in PoolMoons
    BY <1>8, ElementOfSeq
  <2> QED
    BY <1>8, <1>10, <2>1
<1>12. PICK w \in Seq(PoolMoons) : w = SubSeq(v, 1, n) /\ Len(w) = n /\ w[1] = v[1]
  <2>1. /\ SubSeq(v, 1, n) \in Seq(PoolMoons)
        /\ Len(SubSeq(v, 1, n)) = IF 1 <= n THEN n - 1 + 1 ELSE 0
        /\ \A j \in 1 .. n - 1 + 1 : SubSeq(v, 1, n)[j] = v[1 + j - 1]
    BY <1>10, <1>11, SubSeqProperties
  <2>2. Len(SubSeq(v, 1, n)) = n
    BY <1>10, <2>1
  <2>3. 1 \in 1 .. n - 1 + 1 /\ 1 + 1 - 1 = 1
    BY <1>10
  <2>4. SubSeq(v, 1, n)[1] = v[1]
    BY <2>1, <2>3
  <2> QED
    BY <2>1, <2>2, <2>4
<1>13. w # <<>> /\ 1 \in DOMAIN w
  BY <1>10, <1>12, LenProperties, EmptySeq
<1> QED
  BY <1>8, <1>9, <1>12, <1>13 DEF k

\* An order has every moon of the pool.
LEMMA OrderComplete ==
  ASSUME NEW s \in AnyOrders
  PROVE  s \in Seq(PoolMoons) /\ \A m \in PoolMoons : \E i \in 1 .. Len(s) : s[i] = m
<1> DEFINE n == Cardinality(PoolMoons)
<1>1. n \in Nat /\ IsFiniteSet(PoolMoons)
  BY TalkatooAssumption, FS_CardinalityType
<1>2. s \in [1 .. n -> PoolMoons] /\ \A i, j \in 1 .. n : s[i] = s[j] => i = j
  BY DEF AnyOrders
<1> HIDE DEF n
<1>3. s \in Seq(PoolMoons) /\ Len(s) = n
  <2>1. \A i \in 1 .. n : s[i] \in PoolMoons
    BY <1>2
  <2>2. [i \in 1 .. n |-> s[i]] \in Seq(PoolMoons)
    BY <1>1, <2>1, IsASeq
  <2>3. s = [i \in 1 .. n |-> s[i]]
    BY <1>2
  <2>4. s \in Seq(PoolMoons)
    BY <2>2, <2>3
  <2>5. DOMAIN s = 1 .. n /\ DOMAIN s = 1 .. Len(s) /\ Len(s) \in Nat
    BY <1>2, <2>4, LenProperties
  <2> QED
    BY <1>1, <2>4, <2>5
<1>4. s \in Injection(1 .. n, PoolMoons)
  BY <1>2 DEF Injection, IsInjective
<1>5. IsFiniteSet(1 .. n) /\ Cardinality(1 .. n) = n
  BY <1>1, FS_Interval
<1>6. s \in Surjection(1 .. n, PoolMoons)
  BY <1>1, <1>4, <1>5, FS_Injection DEF n
<1> QED
  BY <1>3, <1>6 DEF Surjection

\* Some unchecked moon can be reached, and is the first in its window.
LEMMA SomeWindowOpen ==
  ASSUME order \in Orders, checked \subseteq PoolMoons, checked # PoolMoons
  PROVE  \E k \in Kingdoms : /\ Window(k) # <<>> /\ 1 \in DOMAIN Window(k)
                             /\ Window(k)[1] \notin checked /\ Needs[Window(k)[1]] \subseteq checked
<1>1. PICK s \in SafeOrders : order = [k \in Kingdoms |-> Part(s, MoonsOf(k))]
  BY DEF Orders
<1>2. s \in AnyOrders /\ \A i \in DOMAIN s : Needs[s[i]] \subseteq {s[j] : j \in 1 .. i - 1}
  BY DEF SafeOrders
<1>3. s \in Seq(PoolMoons) /\ \A m \in PoolMoons : \E i \in 1 .. Len(s) : s[i] = m
  BY <1>2, OrderComplete
<1>4. Len(s) \in Nat /\ DOMAIN s = 1 .. Len(s) /\ \A i \in 1 .. Len(s) : s[i] \in PoolMoons
  BY <1>3, LenProperties, ElementOfSeq
<1> DEFINE t == Part(s, PoolMoons \ checked)
<1>5. t \in Seq(PoolMoons) /\ \E pos \in [1 .. Len(t) -> 1 .. Len(s)] : Places(s, PoolMoons \ checked, pos)
  BY <1>3, PartOrdered
<1>6. PICK pos \in [1 .. Len(t) -> 1 .. Len(s)] :
              /\ \A p \in 1 .. Len(t) : t[p] = s[pos[p]] /\ s[pos[p]] \in PoolMoons \ checked
              /\ \A p, q \in 1 .. Len(t) : p < q => pos[p] < pos[q]
              /\ \A h \in 1 .. Len(s) : s[h] \in PoolMoons \ checked => \E p \in 1 .. Len(t) : pos[p] = h
  BY <1>5 DEF Places
<1> HIDE DEF t
<1>7. PICK i \in 1 .. Len(s) : s[i] \notin checked /\ \A j \in 1 .. Len(s) : j < i => s[j] \in checked
  <2>1. PICK h \in 1 .. Len(s) : s[h] \in PoolMoons \ checked
    BY <1>3
  <2>2. 1 \in 1 .. Len(t)
    <3>1. Len(t) \in Nat
      BY <1>5, LenProperties
    <3> QED
      BY <1>6, <2>1, <3>1
  <2>3. pos[1] \in 1 .. Len(s) /\ s[pos[1]] \notin checked
    BY <1>6, <2>2
  <2>4. ASSUME NEW j \in 1 .. Len(s), j < pos[1] PROVE s[j] \in checked
    <3>1. SUFFICES ASSUME s[j] \notin checked PROVE FALSE
      OBVIOUS
    <3>2. PICK p \in 1 .. Len(t) : pos[p] = j
      BY <1>4, <1>6, <3>1
    <3>3. 1 < p => pos[1] < pos[p]
      BY <1>6, <2>2
    <3> QED
      BY <1>4, <2>3, <2>4, <3>2, <3>3
  <2> QED
    BY <2>3, <2>4
<1>8. Needs[s[i]] \subseteq checked
  <2>1. \A j \in 1 .. i - 1 : j \in 1 .. Len(s) /\ j < i
    BY <1>4, <1>7
  <2>2. \A j \in 1 .. i - 1 : s[j] \in checked
    BY <1>7, <2>1
  <2> QED
    BY <1>2, <1>4, <1>7, <2>2
<1>9. KingdomOf[s[i]] \in Kingdoms
  BY <1>4, <1>7, TalkatooAssumption
<1>10. order[KingdomOf[s[i]]] = Part(s, MoonsOf(KingdomOf[s[i]]))
  BY <1>1, <1>9
<1>11. LET w == Window(KingdomOf[s[i]]) IN w # <<>> /\ 1 \in DOMAIN w /\ w[1] = s[i]
  BY <1>3, <1>7, <1>10, WindowStarts
<1> QED
  BY <1>7, <1>8, <1>9, <1>11

\* Orders are those of a seed, and only moons of the pool are checked.
SeedInv == order \in Orders /\ checked \subseteq PoolMoons

LEMMA SeedStep == ASSUME SeedInv, [TalkatooNext]_talkatooVars PROVE SeedInv'
<1>1. CASE UNCHANGED slotVars
  BY <1>1 DEF slotVars, SeedInv
<1>2. CASE Join \/ JoinOther \/ ClientRestart
  BY <1>2 DEF Join, JoinOther, ClientRestart, SeedInv
<1>3. ASSUME NEW m \in PoolMoons, RoomUpdate(m) PROVE SeedInv'
  BY <1>3 DEF RoomUpdate, SeedInv
<1>4. CASE UNCHANGED talkatooVars \/ (\E m \in PoolMoons : TakeMoon(m)) \/ (\E k \in Kingdoms : Speak(k))
             \/ Hello \/ LinkLost \/ Reboot
  BY <1>1, <1>4 DEF talkatooVars, TakeMoon, Speak, Hello, LinkLost, Reboot
<1>5. ASSUME NEW t \in Pushers, PushStep(t) PROVE UNCHANGED slotVars
  BY <1>5 DEF PushStep, DeriveAndPush, Replay, Start, SendOff, Wiped, StartSending, Finish, SendClear, SendWindow
<1> QED
  BY <1>1, <1>2, <1>3, <1>4, <1>5 DEF TalkatooNext

\* No seed locks the player out, for any pool, any logic of it that has a safe order and
\* any window size (find_safe_permutation_with_oracle, build_talkatoo_order,
\* _build_talkatoo_pool_phase5): when every push is done, Talkatoo has an unchecked moon
\* to name that can be reached.
THEOREM TalkatooNeverLocksOut == TalkatooSpec => []NeverStuck
<1>1. TalkatooInit => SeedInv
  BY DEF TalkatooInit, SeedInv
<1>2. TalkatooSpec => []SeedInv
  BY <1>1, SeedStep, PTL DEF TalkatooSpec
<1>3. SeedInv /\ PoolsCurrent => NeverStuck
  <2> SUFFICES ASSUME SeedInv, PoolsCurrent, Quiet, slot = "on", ~crossed, checked # PoolMoons
               PROVE  \E k \in Kingdoms : \E i \in DOMAIN pools[k] :
                        pools[k][i] \notin checked /\ Needs[pools[k][i]] \subseteq checked
    BY DEF NeverStuck
  <2>1. PICK k \in Kingdoms : /\ Window(k) # <<>> /\ 1 \in DOMAIN Window(k)
                              /\ Window(k)[1] \notin checked /\ Needs[Window(k)[1]] \subseteq checked
    BY SomeWindowOpen DEF SeedInv
  <2>2. pools[k] = Window(k)
    BY <2>1 DEF PoolsCurrent
  <2> QED
    BY <2>1, <2>2
<1> QED
  BY <1>2, <1>3, TalkatooHasTheWindows, PTL

(***************************************************************************)
(* LineProtocol: of what is written and cut, every line is taken in order. *)
(***************************************************************************)

\* What a message has.
LEMMA MessageFields ==
  \A t, d, k, n, c, z :
    LET m == Message(t, d, k, n, c, z)
    IN m.type = t /\ m.kind = d /\ m.keys = k /\ m.rows = n /\ m.rowKeys = c /\ m.size = z
BY DEF Message

LEMMA PlainFields ==
  \A t, k : LET m == Plain(t, k) IN m.type = t /\ m.keys = k /\ m.rows = 0 /\ m.rowKeys = {} /\ m.size = 1
BY DEF Plain, Message

LEMMA TableFields ==
  \A t, k, n, c : LET m == Table(t, k, n, c) IN m.type = t /\ m.keys = k /\ m.rows = n /\ m.rowKeys = c /\ m.size = 2
BY DEF Table, Message

\* Only a checked_replay has more rows than the Switch has room for.
LEMMA DownFacts ==
  \A m \in Down :
    /\ m.size \in Nat \ {0} /\ m.rows \in Nat
    /\ m.type = "item" => m \in Items
    /\ m.type # "checked_replay" => m.rows <= RowCap(m.type)
<1> DEFINE Fine(m) == /\ m.size \in Nat \ {0} /\ m.rows \in Nat
                      /\ m.type = "item" => m \in Items
                      /\ m.type # "checked_replay" => m.rows <= RowCap(m.type)
<1> USE MessageFields, PlainFields, TableFields, LineProtocolAssumption
<1>0. \A t : RowCap(t) \in Nat
  BY DEF RowCap, EarlyRowCap, LateRowCap
<1>1. \A m \in Greetings : Fine(m)
  BY <1>0 DEF Greetings
<1>2. \A m \in Replays : Fine(m)
  <2> SUFFICES ASSUME NEW m \in Replays
               PROVE  Fine(m)
    OBVIOUS
  <2>1. PICK z \in 1..LineCap + 1 :
          m = Message("checked_replay", "", {"ids"}, 100 * z,
                      {"kind", "kingdom", "shine_id", "cap", "name"}, z)
    BY DEF Replays
  <2>2. m.type = "checked_replay" /\ m.rows = 100 * z /\ m.size = z
    BY <2>1 DEF Message
  <2> QED
    BY <2>2
<1>3. \A m \in Items : Fine(m)
  BY <1>0 DEF Items
<1>4. \A m \in Notices : Fine(m)
  BY <1>0 DEF Notices, RowCap, EarlyRowCap, LateRowCap
<1>5. \A m \in Balances : Fine(m)
  BY <1>0 DEF Balances, RowCap, EarlyRowCap, LateRowCap
<1>6. \A m \in Windows : Fine(m)
  BY <1>0 DEF Windows, RowCap, EarlyRowCap, LateRowCap
<1>7. \A m \in Rules : Fine(m)
  BY <1>0 DEF Rules, RowCap, EarlyRowCap, LateRowCap
<1> QED
  BY <1>1, <1>2, <1>3, <1>4, <1>5, <1>6, <1>7 DEF Down

\* Whatever is read of an item is sent with it, so no older item shows through.
LEMMA ItemsWhole ==
  \A m \in Items : ReadOf(m.kind) \subseteq m.keys /\ m.keys \subseteq ItemFields
BY MessageFields DEF Items, ReadOf, ItemFields

\* The Switch writes every field a handler waits for.
LEMMA UpFacts == \A m \in Up : m.size \in 1..2 /\ m.rows \in Nat /\ m.type # "item" /\ HeardOf(m) \subseteq m.keys
<1> USE PlainFields, TableFields
<1>1. \A m \in LiveReports : m.size \in 1..2 /\ m.rows \in Nat /\ m.type # "item" 
  BY DEF LiveReports
<1>2. \A m \in SnapshotReports : m.size \in 1..2 /\ m.rows \in Nat /\ m.type # "item" 
  BY DEF SnapshotReports
<1>3. \A m \in LiveReports : HeardOf(m) \subseteq m.keys
  BY DEF LiveReports, HeardOf
<1>4. \A m \in SnapshotReports : HeardOf(m) \subseteq m.keys
  BY DEF SnapshotReports, HeardOf
<1> QED
  BY <1>1, <1>2, <1>3, <1>4 DEF Up

\* The first newline of a sequence.
LEMMA NewlineIsFirst ==
  ASSUME NEW S, NEW s \in Seq(S)
  PROVE  /\ FirstNewline(s) \in 0..Len(s)
         /\ FirstNewline(s) > 0 => IsNewline(s[FirstNewline(s)])
         /\ \A k \in 1 .. Len(s) : IsNewline(s[k]) => FirstNewline(s) # 0 /\ FirstNewline(s) <= k
<1> DEFINE places == {k \in DOMAIN s : IsNewline(s[k])}
<1>1. CASE places = {}
  BY <1>1 DEF FirstNewline
<1>2. CASE places # {}
  <2>1. places \subseteq Nat /\ places \subseteq 1..Len(s)
    OBVIOUS
  <2>2. PICK x \in places : \A y \in places : ~ (<<y, x>> \in OpToRel(<, Nat))
    BY <1>2, <2>1, NatLessThanWellFounded, WFMin
  <2>3. \A y \in places : x <= y
    <3> TAKE y \in places
    <3>1. ~ (y < x)
      <4>1. x \in Nat /\ y \in Nat
        BY <2>1
      <4>2. y < x => <<y, x>> \in {ss \in Nat \X Nat : ss[1] < ss[2]}
        BY <4>1
      <4> QED
        BY <2>2, <4>2 DEF OpToRel
    <3> QED
      BY <2>1, <3>1
  <2>4. Min(places) \in places /\ \A y \in places : Min(places) <= y
    BY <2>3 DEF Min
  <2>5. FirstNewline(s) = Min(places)
    BY <1>2 DEF FirstNewline
  <2>6. FirstNewline(s) \in places /\ \A y \in places : FirstNewline(s) <= y
    BY <2>4, <2>5
  <2> HIDE DEF places
  <2>7. FirstNewline(s) \in 1 .. Len(s)
    BY <2>1, <2>6
  <2>8. \A k \in 1 .. Len(s) : IsNewline(s[k]) => k \in places
    BY DEF places
  <2>9. IsNewline(s[FirstNewline(s)])
    BY <2>6 DEF places
  <2> QED
    BY <2>6, <2>7, <2>8, <2>9
<1> QED
  BY <1>1, <1>2

\* What this side of a connection says.
Spoken == IF way = "up" THEN Up ELSE Down

\* Units of lines of this connection.
FreshUnits == (base + 1 .. Len(sent)) \X (0 .. LineCap)

\* What was taken of a line of this connection, and whole.
OwnWhole ==
  {e \in [line : base + 1 .. Len(sent), rows : Nat, slot : [ItemFields -> 0 .. Len(sent)]] :
     Intact(e)}

\* All of it is of lines this connection wrote.
LineInv ==
  /\ way \in {"up", "down"} /\ sent \in Seq(Spoken) /\ base \in 0 .. Len(sent)
  /\ stream \in Seq(FreshUnits) /\ buf \in Seq(FreshUnits)
  /\ heard \in Seq(OwnWhole) /\ leftover \in Seq(OwnWhole)
  /\ greeted \in BOOLEAN
  /\ itemSlot \in [ItemFields -> 0 .. Len(sent)]
  /\ lineCuts \in 0 .. MaxCuts

\* Nothing was written.
LEMMA LineInitInv == LineInit => LineInv
<1> SUFFICES ASSUME LineInit
             PROVE  LineInv
  OBVIOUS
<1>1. \A S : <<>> \in Seq(S) /\ Len(<<>>) = 0
  BY EmptySeq
<1>2. greeted \in BOOLEAN /\ way \in {"up", "down"}
  BY DEF LineInit
<1>3. itemSlot \in [ItemFields -> 0 .. Len(sent)]
  BY <1>1 DEF LineInit
<1> QED
  BY <1>1, <1>2, <1>3, LineProtocolAssumption DEF LineInit, LineInv

\* A part of a sequence.
LEMMA PartOfSeq ==
  ASSUME NEW S, NEW s \in Seq(S), NEW n \in 0 .. Len(s)
  PROVE  SubSeq(s, 1, n) \in Seq(S) /\ Rest(s, n) \in Seq(S)
<1>1. Len(s) \in Nat /\ n \in Int /\ n + 1 \in Int /\ Len(s) \in Int
  BY LenProperties
<1>2. \A i \in 1 .. Len(s) : s[i] \in S
  BY ElementOfSeq
<1>3. SubSeq(s, 1, n) \in Seq(S)
  BY <1>1, <1>2, SubSeqProperties
<1>4. SubSeq(s, n + 1, Len(s)) \in Seq(S)
  BY <1>1, <1>2, SubSeqProperties
<1> QED
  BY <1>3, <1>4 DEF Rest

\* The line of the next message is of this connection, also if it is cut.
LEMMA LineOfMessage ==
  ASSUME LineInv, NEW m \in Spoken, m.size <= LineCap
  PROVE  /\ UnitsOf(Len(sent) + 1, m) \in Seq((base + 1 .. Len(sent) + 1) \X (0 .. LineCap))
         /\ BoundedLine(Len(sent) + 1, m) \in Seq((base + 1 .. Len(sent) + 1) \X (0 .. LineCap))
<1> DEFINE i == Len(sent) + 1
           U == (base + 1 .. i) \X (0 .. LineCap)
<1>1. m.size \in Nat \ {0} /\ Len(sent) \in Nat /\ base \in 0 .. Len(sent) /\ LineCap \in Nat \ {0}
  <2>1. sent \in Seq(Spoken) /\ base \in 0 .. Len(sent)
    BY DEF LineInv
  <2>2. Len(sent) \in Nat
    BY <2>1, LenProperties
  <2>3. m.size \in Nat \ {0}
    BY DownFacts, UpFacts DEF Spoken
  <2> QED
    BY <2>1, <2>2, <2>3, LineProtocolAssumption
<1>2. \A k \in 0 .. m.size : <<i, k>> \in U
  BY <1>1
<1>3. BodyOf(i, m) \in Seq(U) /\ Len(BodyOf(i, m)) = m.size
  BY <1>1, <1>2 DEF BodyOf
<1>4. Newline(i) \in U
  BY <1>1, <1>2 DEF Newline
<1>5. UnitsOf(i, m) \in Seq(U) /\ Len(UnitsOf(i, m)) = m.size + 1
  <2> HIDE DEF U, i
  <2>1. Len(Append(BodyOf(i, m), Newline(i))) = Len(BodyOf(i, m)) + 1
    BY <1>3, <1>4, AppendProperties
  <2>2. Append(BodyOf(i, m), Newline(i)) \in Seq(U)
    BY <1>3, <1>4, AppendProperties
  <2> QED
    BY <1>3, <2>1, <2>2 DEF UnitsOf
<1>6. BoundedLine(i, m) \in Seq(U)
  <2> DEFINE n == IF m.size < LineCap THEN m.size + 1 ELSE LineCap
  <2>1. n \in 0 .. Len(UnitsOf(i, m))
    BY <1>1, <1>5
  <2> HIDE DEF n
  <2>2. SubSeq(UnitsOf(i, m), 1, n) \in Seq(U)
    BY <1>5, <2>1, PartOfSeq
  <2> QED
    BY <2>2 DEF BoundedLine, n
<1> QED
  BY <1>5, <1>6

\* One line more changes nothing of those before it.
LEMMA LinePut ==
  ASSUME LineInv, NEW m \in Spoken, NEW line, Put(m, line),
         line \in Seq((base + 1 .. Len(sent) + 1) \X (0 .. LineCap))
  PROVE  LineInv'
<1> USE DEF Put
<1>1. /\ sent' \in Seq(Spoken') /\ Len(sent') = Len(sent) + 1 /\ Len(sent) \in Nat
      /\ \A i \in 1 .. Len(sent) : sent'[i] = sent[i]
  BY AppendProperties, LenProperties DEF LineInv, Spoken
<1>2. FreshUnits \subseteq FreshUnits' /\ line \in Seq(FreshUnits')
  BY <1>1 DEF LineInv, FreshUnits
<1>3. stream' \in Seq(FreshUnits') /\ buf' \in Seq(FreshUnits')
  <2>1. stream \in Seq(FreshUnits') /\ buf \in Seq(FreshUnits')
    BY <1>2, SeqMonotonic DEF LineInv
  <2> QED
    BY <1>2, <2>1, ConcatProperties
<1>4. [ItemFields -> 0 .. Len(sent)] \subseteq [ItemFields -> 0 .. Len(sent')]
  BY <1>1
<1>5. OwnWhole \subseteq OwnWhole'
  <2> SUFFICES ASSUME NEW e \in OwnWhole
               PROVE  e \in OwnWhole'
    OBVIOUS
  <2>1. e.line \in 1 .. Len(sent)
    BY <1>1 DEF OwnWhole, LineInv
  <2>2. Intact(e)'
    BY <1>1, <2>1 DEF OwnWhole, Intact
  <2>3. e \in [line : base + 1 .. Len(sent'), rows : Nat, slot : [ItemFields -> 0 .. Len(sent')]]
    BY <1>1, <1>4 DEF OwnWhole, LineInv
  <2> QED
    BY <2>2, <2>3 DEF OwnWhole
<1>6. heard' \in Seq(OwnWhole') /\ leftover' \in Seq(OwnWhole')
  BY <1>5, SeqMonotonic DEF LineInv
<1>7. itemSlot' \in [ItemFields -> 0 .. Len(sent')]
  BY <1>4 DEF LineInv
<1> QED
  BY <1>1, <1>3, <1>6, <1>7 DEF LineInv

\* A line is written.
LEMMA LineWrites == LineInv /\ (WriteDown \/ WriteUp) => LineInv'
<1>1. ASSUME LineInv, WriteDown
      PROVE  LineInv'
  BY <1>1, LineOfMessage, LinePut DEF WriteDown, Spoken
<1>2. ASSUME LineInv, WriteUp
      PROVE  LineInv'
  <2>1. PICK m \in Up : Put(m, BoundedLine(Len(sent) + 1, m))
    BY <1>2 DEF WriteUp
  <2>2. m \in Spoken /\ m.size <= LineCap
    BY <1>2, UpFacts, LineProtocolAssumption DEF WriteUp, Spoken
  <2> QED
    BY <1>2, <2>1, <2>2, LineOfMessage, LinePut
<1> QED
  BY <1>1, <1>2

\* With the lines of the connection unchanged, so is what is fresh and whole.
LEMMA SameLines ==
  ASSUME UNCHANGED <<way, sent, base>>
  PROVE  Spoken' = Spoken /\ FreshUnits' = FreshUnits /\ OwnWhole' = OwnWhole
BY DEF Spoken, FreshUnits, OwnWhole, Intact

\* Bytes arrive.
LEMMA LineReceives == LineInv /\ (RecvIntoBuf \/ ReadChunk) => LineInv'
<1> SUFFICES ASSUME LineInv, NEW n \in 0 .. Len(stream), Receive(n)
             PROVE  LineInv'
  <2>1. ASSUME LineInv, RecvIntoBuf
        PROVE  \E n \in 0 .. Len(stream) : Receive(n)
    <3>1. Len(stream) \in Nat /\ Len(buf) \in Nat /\ LineCap \in Nat
      BY <2>1, LenProperties, LineProtocolAssumption DEF LineInv
    <3> QED
      BY <2>1, <3>1 DEF RecvIntoBuf
  <2>2. ASSUME LineInv, ReadChunk
        PROVE  \E n \in 0 .. Len(stream) : Receive(n)
    <3>1. Len(stream) \in Nat
      BY <2>2, LenProperties DEF LineInv
    <3> QED
      BY <2>2, <3>1 DEF ReadChunk
  <2> QED
    BY <2>1, <2>2
<1>1. Spoken' = Spoken /\ FreshUnits' = FreshUnits /\ OwnWhole' = OwnWhole
  BY SameLines DEF Receive
<1>2. buf' \in Seq(FreshUnits) /\ stream' \in Seq(FreshUnits)
  BY PartOfSeq, ConcatProperties DEF Receive, LineInv
<1> QED
  BY <1>1, <1>2 DEF Receive, LineInv

\* A buffer is given up, or a connection.
LEMMA LineGivesUp == LineInv /\ (Resync \/ Redial) => LineInv'
<1>1. ASSUME LineInv, Resync
      PROVE  LineInv'
  BY <1>1, SameLines, EmptySeq DEF Resync, LineInv
<1>2. ASSUME LineInv, Redial
      PROVE  LineInv'
  <2>1. \A S : <<>> \in Seq(S)
    BY EmptySeq
  <2>2. Len(sent) \in Nat
    BY <1>2, LenProperties DEF LineInv
  <2>3. sent' \in Seq(Spoken') /\ base' \in 0 .. Len(sent') /\ lineCuts' \in 0 .. MaxCuts
    BY <1>2, <2>2, LineProtocolAssumption DEF Redial, LineInv, Spoken
  <2> QED
    BY <1>2, <2>1, <2>3 DEF Redial, LineInv
<1> QED
  BY <1>1, <1>2

\* What is made of a line that is whole.
LEMMA LineHandled ==
  ASSUME LineInv, NEW i \in base + 1 .. Len(sent), way = "down", HandleLine(i),
         UNCHANGED <<way, sent, base>>
  PROVE  /\ heard' \in Seq(OwnWhole) /\ leftover' \in Seq(OwnWhole) /\ greeted' \in BOOLEAN
         /\ itemSlot' \in [ItemFields -> 0 .. Len(sent)]
<1> DEFINE m == sent[i]
           e == Taken(i, Capped(m), itemSlot')
<1>1. i \in 1 .. Len(sent) /\ m \in Down
  BY ElementOfSeq, LenProperties DEF LineInv, Spoken
<1>2. itemSlot' \in [ItemFields -> 0 .. Len(sent)]
  BY <1>1 DEF HandleLine, LineInv
<1>3. Capped(m) \in Nat /\ (m.type # "checked_replay" => Capped(m) = m.rows)
  <2>1. RowCap(m.type) \in Nat
    BY DEF RowCap, EarlyRowCap, LateRowCap
  <2> QED
    BY <1>1, <2>1, DownFacts DEF Capped
<1>4. m.type = "item" => \A f \in ReadOf(m.kind) : itemSlot'[f] = i
  <2> SUFFICES ASSUME m.type = "item", NEW f \in ReadOf(m.kind)
               PROVE  itemSlot'[f] = i
    OBVIOUS
  <2>1. f \in m.keys /\ f \in ItemFields
    BY <1>1, DownFacts, ItemsWhole
  <2> QED
    BY <2>1 DEF HandleLine
<1>5. e \in OwnWhole
  <2>1. e \in [line : base + 1 .. Len(sent), rows : Nat, slot : [ItemFields -> 0 .. Len(sent)]]
    BY <1>2, <1>3 DEF Taken
  <2>2. e.line = i /\ e.rows = Capped(m) /\ e.slot = itemSlot'
    BY DEF Taken
  <2> HIDE DEF e
  <2>3. Intact(e)
    BY <1>3, <1>4, <2>2 DEF Intact
  <2> QED
    BY <2>1, <2>3 DEF OwnWhole
<1> HIDE DEF e
<1>6. heard' \in Seq(OwnWhole)
  <2>1. heard \in Seq(OwnWhole) /\ Append(heard, e) \in Seq(OwnWhole)
    BY <1>5, AppendProperties DEF LineInv
  <2>2. heard' = heard \/ heard' = Append(heard, e)
    BY DEF HandleLine, e
  <2> QED
    BY <2>1, <2>2
<1> QED
  BY <1>2, <1>6 DEF HandleLine, LineInv

LEMMA LineHeard ==
  ASSUME LineInv, NEW i \in base + 1 .. Len(sent), way = "up", HearLine(i)
  PROVE  /\ heard' \in Seq(OwnWhole) /\ leftover' \in Seq(OwnWhole) /\ greeted' \in BOOLEAN
         /\ itemSlot' \in [ItemFields -> 0 .. Len(sent)]
<1> DEFINE e == Taken(i, sent[i].rows, itemSlot)
<1>1. i \in 1 .. Len(sent) /\ sent[i] \in Up
  BY ElementOfSeq, LenProperties DEF LineInv, Spoken
<1>2. e \in OwnWhole
  <2>1. e \in [line : base + 1 .. Len(sent), rows : Nat, slot : [ItemFields -> 0 .. Len(sent)]]
    BY <1>1, UpFacts DEF Taken, LineInv
  <2>2. e.line = i
    BY DEF Taken
  <2> HIDE DEF e
  <2>3. Intact(e)
    BY <1>1, <2>2, UpFacts DEF Intact
  <2> QED
    BY <2>1, <2>3 DEF OwnWhole
<1> HIDE DEF e
<1>3. /\ heard \in Seq(OwnWhole) /\ Append(heard, e) \in Seq(OwnWhole)
      /\ leftover \in Seq(OwnWhole) /\ Append(leftover, e) \in Seq(OwnWhole)
  BY <1>2, AppendProperties DEF LineInv
<1> QED
  BY <1>3 DEF HearLine, LineInv, e

\* The first line of the buffer is one of this connection, or none at all.
LEMMA LinePops == LineInv /\ PopLine => LineInv'
<1> SUFFICES ASSUME LineInv, PopLine
             PROVE  LineInv'
  OBVIOUS
<1> DEFINE nl   == FirstNewline(buf)
           line == SubSeq(buf, 1, nl - 1)
<1>1. Spoken' = Spoken /\ FreshUnits' = FreshUnits /\ OwnWhole' = OwnWhole
  BY SameLines DEF PopLine
<1>2. nl \in 1 .. Len(buf) /\ Len(buf) \in Nat
  BY NewlineIsFirst, LenProperties DEF PopLine, LineInv
<1>3. buf' \in Seq(FreshUnits) /\ line \in Seq(FreshUnits)
  <2>1. nl \in 0 .. Len(buf) /\ nl - 1 \in 0 .. Len(buf)
    BY <1>2
  <2>2. buf \in Seq(FreshUnits)
    BY DEF LineInv
  <2> HIDE DEF nl
  <2>3. Rest(buf, nl) \in Seq(FreshUnits) /\ SubSeq(buf, 1, nl - 1) \in Seq(FreshUnits)
    BY <2>1, <2>2, PartOfSeq
  <2> QED
    BY <2>3 DEF PopLine, nl
<1>4. WholeLine(line) => line[1][1] \in base + 1 .. Len(sent)
  <2> SUFFICES ASSUME line # <<>>
               PROVE  line[1][1] \in base + 1 .. Len(sent)
    BY DEF WholeLine
  <2> HIDE DEF line
  <2>1. 1 \in 1 .. Len(line)
    BY <1>3, EmptySeq
  <2>2. line[1] \in FreshUnits
    BY <1>3, <2>1, ElementOfSeq
  <2> QED
    BY <2>2 DEF FreshUnits
<1>5. /\ heard' \in Seq(OwnWhole) /\ leftover' \in Seq(OwnWhole) /\ greeted' \in BOOLEAN
      /\ itemSlot' \in [ItemFields -> 0 .. Len(sent)]
  <2>1. CASE ~WholeLine(line)
    BY <2>1 DEF PopLine, LineInv
  <2>2. CASE WholeLine(line) /\ way = "down"
    <3>1. HandleLine(line[1][1]) /\ UNCHANGED <<way, sent, base>>
      BY <2>2 DEF PopLine
    <3> QED
      BY <1>4, <2>2, <3>1, LineHandled
  <2>3. CASE WholeLine(line) /\ way = "up"
    <3>1. HearLine(line[1][1])
      BY <2>3 DEF PopLine
    <3> QED
      BY <1>4, <2>3, <3>1, LineHeard
  <2> QED
    BY <2>1, <2>2, <2>3 DEF LineInv
<1> QED
  BY <1>1, <1>3, <1>5 DEF PopLine, LineInv

\* What came with the greeting is dispatched.
LEMMA LineRegisters == LineInv /\ Register => LineInv'
<1> SUFFICES ASSUME LineInv, Register
             PROVE  LineInv'
  OBVIOUS
<1>1. Spoken' = Spoken /\ FreshUnits' = FreshUnits /\ OwnWhole' = OwnWhole
  BY SameLines DEF Register
<1>2. heard' \in Seq(OwnWhole) /\ leftover' \in Seq(OwnWhole)
  BY ConcatProperties, EmptySeq DEF Register, LineInv
<1> QED
  BY <1>1, <1>2 DEF Register, LineInv

\* Every step keeps it.
LEMMA LineNextInv == LineInv /\ [LineNext]_protoVars => LineInv'
<1>1. ASSUME LineInv, LineNext
      PROVE  LineInv'
  BY <1>1, LineWrites, LineReceives, LineGivesUp, LinePops, LineRegisters DEF LineNext
<1>2. ASSUME LineInv, UNCHANGED protoVars
      PROVE  LineInv'
  BY <1>2, SameLines DEF protoVars, LineInv
<1> QED
  BY <1>1, <1>2

\* The bytes between the two sides, and what the reader took off them.
Bytes == buf \o stream
Got  == heard \o leftover

\* The unit at k lies in its line, which is all there.
InLine(w, k) ==
  LET i == w[k][1]  j == w[k][2]  z == sent[i].size IN
  /\ j <= z
  /\ \A l \in 1 .. z : k - j + l \in 1 .. Len(w) /\ w[k - j + l] = <<i, l>>
  /\ k - j + z + 1 \in 1 .. Len(w) /\ w[k - j + z + 1] = Newline(i)

\* The newline at k ends its line, of which all was given up if it is the first unit; every
\* unit behind it is of a later line.
EndsLine(w, k) ==
  LET i == w[k][1]  z == sent[i].size IN
  /\ IF k = 1 THEN way = "down" /\ z = LineCap ELSE w[k - 1] = <<i, z>>
  /\ \A l \in k + 1 .. Len(w) : i < w[l][1]

LinesInWire(w) ==
  \A k \in 1 .. Len(w) : IF IsNewline(w[k]) THEN EndsLine(w, k) ELSE InLine(w, k)

\* What was taken is in order, was due, and is before all that is on the wire; a line that
\* is due was taken or is on the wire.
Order(g, w) ==
  /\ \A j, k \in 1 .. Len(g) : j < k => g[j].line < g[k].line
  /\ \A j \in 1 .. Len(g) : /\ MustArrive(g[j].line)
                            /\ \A k \in 1 .. Len(w) : g[j].line < w[k][1]
  /\ \A i \in base + 1 .. Len(sent) :
       MustArrive(i) => \/ \E k \in 1 .. Len(g) : g[k].line = i
                        \/ \E k \in 1 .. Len(w) : w[k] = Newline(i)

\* v is w without its first c units; h is g and one more.
Behind(w, c, v) ==
  /\ c \in 0 .. Len(w) /\ Len(w) \in Nat /\ Len(v) = Len(w) - c
  /\ \A k \in 1 .. Len(v) : v[k] = w[k + c]
Grows(g, e, h) ==
  /\ Len(g) \in Nat /\ Len(h) = Len(g) + 1
  /\ \A k \in 1 .. Len(h) : h[k] = IF k <= Len(g) THEN g[k] ELSE e

\* w is u and a line of z units.
Joins(u, i, z, w) ==
  /\ Len(w) = Len(u) + z + 1
  /\ \A k \in 1 .. Len(u) : w[k] = u[k]
  /\ \A l \in 1 .. z : w[Len(u) + l] = <<i, l>>
  /\ w[Len(u) + z + 1] = Newline(i)

\* encode lets no longer line out; the greeting is the first line of a connection.
SizesFit   == \A i \in 1 .. Len(sent) : sent[i].size \in 1 .. LineCap
HelloFirst == way = "up" => \A i \in base + 1 .. Len(sent) : (sent[i].type = "hello") = (i = base + 1)
BufFits    == way = "down" => Len(buf) <= LineCap
KeptBehind == leftover # <<>> => heard # <<>> /\ ~greeted /\ way = "up"

OrderInv == SizesFit /\ HelloFirst /\ BufFits /\ KeptBehind /\ LinesInWire(Bytes) /\ Order(Got, Bytes)

\* The fields of each type.
LEMMA KnownFields ==
  /\ \A t \in DOMAIN Known1 : Known(t) = Known1[t]
  /\ \A t \in DOMAIN Known2 : Known(t) = Known2[t]
  /\ \A t \in DOMAIN Known3 : Known(t) = Known3[t]
  /\ \A t \in DOMAIN Known4 : Known(t) = Known4[t]
  /\ DOMAIN Known1 = {"hello_ack", "checked_replay", "item"}
  /\ DOMAIN Known2 = {"shine_scouts", "print", "ap_state", "pong", "err", "kill"}
  /\ DOMAIN Known3 = {"outstanding", "kingdom_gates", "entrance_map", "cappy"}
  /\ DOMAIN Known4 = {"talkatoo_pool", "shop_labels", "moon_label", "coin_grant", "ability_state"}
<1>1. /\ DOMAIN Known1 = {"hello_ack", "checked_replay", "item"}
      /\ DOMAIN Known2 = {"shine_scouts", "print", "ap_state", "pong", "err", "kill"}
      /\ DOMAIN Known3 = {"outstanding", "kingdom_gates", "entrance_map", "cappy"}
      /\ DOMAIN Known4 = {"talkatoo_pool", "shop_labels", "moon_label", "coin_grant", "ability_state"}
  BY DEF Known1, Known2, Known3, Known4
<1>2. \A t \in DOMAIN Known1 : Known(t) = Known1[t]
  BY <1>1 DEF Known
<1>3. \A t \in DOMAIN Known2 : Known(t) = Known2[t]
  BY <1>1 DEF Known
<1>4. \A t \in DOMAIN Known3 : Known(t) = Known3[t]
  BY <1>1 DEF Known
<1>5. \A t \in DOMAIN Known4 : Known(t) = Known4[t]
  BY <1>1 DEF Known
<1> QED
  BY <1>1, <1>2, <1>3, <1>4, <1>5

\* The fields of the types of Known1.
LEMMA Fields1 ==
  /\ Known("hello_ack").keys = {"ok", "seed", "slot", "cap_table_hash", "deathlink_enabled", "client_ver", "err"}
  /\ Known("hello_ack").rowKeys = {}
  /\ Known("checked_replay").keys = {"ids"}
  /\ Known("checked_replay").rowKeys = {"kind", "kingdom", "shine_id", "cap", "name", "classification"}
  /\ Known("item").keys = {"kind", "kingdom", "shine_id", "cap", "name", "from", "hack_name", "classification"}
  /\ Known("item").rowKeys = {}
BY KnownFields DEF Known1

\* The fields of the types of Known2.
LEMMA Fields2 ==
  /\ Known("shine_scouts").keys = {"entries"}
  /\ Known("shine_scouts").rowKeys = {"shine_uid", "palette"}
  /\ Known("print").keys = {"text"}
  /\ Known("print").rowKeys = {}
  /\ Known("ap_state").keys = {"conn"}
  /\ Known("ap_state").rowKeys = {}
  /\ Known("pong").keys = {"ts_ms"}
  /\ Known("pong").rowKeys = {}
  /\ Known("err").keys = {"code", "ctx"}
  /\ Known("err").rowKeys = {}
  /\ Known("kill").keys = {"source", "cause"}
  /\ Known("kill").rowKeys = {}
BY KnownFields DEF Known2

\* The fields of the types of Known3.
LEMMA Fields3 ==
  /\ Known("outstanding").keys = {"entries", "lake_received_total", "snow_received_total"}
  /\ Known("outstanding").rowKeys = {"kingdom", "count"}
  /\ Known("kingdom_gates").keys = {"entries"}
  /\ Known("kingdom_gates").rowKeys = {"kingdom", "gate"}
  /\ Known("entrance_map").keys = {"reset", "entries"}
  /\ Known("entrance_map").rowKeys = {"from", "to_stage", "to_id", "kind"}
  /\ Known("cappy").keys = {"text"}
  /\ Known("cappy").rowKeys = {}
BY KnownFields DEF Known3

\* The fields of the types of Known4.
LEMMA Fields4 ==
  /\ Known("talkatoo_pool").keys = {"enabled", "kingdom", "moons"}
  /\ Known("talkatoo_pool").rowKeys = {}
  /\ Known("shop_labels").keys = {"entries"}
  /\ Known("shop_labels").rowKeys = {"file", "key", "label"}
  /\ Known("moon_label").keys = {"text", "seq", "valid_for_ms"}
  /\ Known("moon_label").rowKeys = {}
  /\ Known("coin_grant").keys = {"total"}
  /\ Known("coin_grant").rowKeys = {}
  /\ Known("ability_state").keys = {"enforce", "entries"}
  /\ Known("ability_state").rowKeys = {"ability", "count"}
BY KnownFields DEF Known4

\* Whatever of the Switch's types the bridge writes, the Switch knows its fields.
LEMMA DownReads == \A m \in Down : m.type \in KnownTypes => ReadsAll(m)
<1> DEFINE Fine(m) == m.type \in KnownTypes => ReadsAll(m)
<1> USE MessageFields, PlainFields, TableFields, Fields1, Fields2, Fields3, Fields4 DEF ReadsAll
<1>0. KnownTypes = {"hello_ack", "checked_replay", "item", "shine_scouts", "print", "ap_state", "pong", "err",
                    "kill", "outstanding", "kingdom_gates", "entrance_map", "cappy", "talkatoo_pool",
                    "shop_labels", "moon_label", "coin_grant", "ability_state"}
  BY KnownFields DEF KnownTypes
<1>1. \A m \in Greetings : Fine(m)
  BY DEF Greetings
<1>2. \A m \in Replays : Fine(m)
  <2> SUFFICES ASSUME NEW m \in Replays
               PROVE  Fine(m)
    OBVIOUS
  <2>1. PICK z \in 1..LineCap + 1 :
          m = Message("checked_replay", "", {"ids"}, 100 * z,
                      {"kind", "kingdom", "shine_id", "cap", "name"}, z)
    BY DEF Replays
  <2>2. /\ m.type = "checked_replay" /\ m.keys = {"ids"}
        /\ m.rowKeys = {"kind", "kingdom", "shine_id", "cap", "name"}
    BY <2>1 DEF Message
  <2> QED
    BY <2>2
<1>3. \A m \in Items : Fine(m)
  BY DEF Items
<1>4. \A m \in Notices : Fine(m)
  BY DEF Notices
<1>5. \A m \in Balances : Fine(m)
  BY <1>0 DEF Balances
<1>6. \A m \in Windows : Fine(m)
  BY DEF Windows
<1>7. \A m \in Rules : Fine(m)
  BY DEF Rules
<1> QED
  BY <1>1, <1>2, <1>3, <1>4, <1>5, <1>6, <1>7 DEF Down

\* The units of the wire.
LEMMA WireUnits ==
  ASSUME LineInv
  PROVE  /\ Bytes \in Seq(FreshUnits) /\ Len(Bytes) = Len(buf) + Len(stream)
         /\ Len(buf) \in Nat /\ Len(stream) \in Nat
         /\ \A k \in 1 .. Len(Bytes) :
              /\ Bytes[k] = IF k <= Len(buf) THEN buf[k] ELSE stream[k - Len(buf)]
              /\ Bytes[k] = <<Bytes[k][1], Bytes[k][2]>>
              /\ Bytes[k][1] \in base + 1 .. Len(sent) /\ Bytes[k][2] \in 0 .. LineCap
         /\ base \in Nat /\ Len(sent) \in Nat /\ base <= Len(sent)
<1>1. buf \in Seq(FreshUnits) /\ stream \in Seq(FreshUnits)
  BY DEF LineInv
<1>2. Len(buf) \in Nat /\ Len(stream) \in Nat
  BY <1>1, LenProperties
<1>3. base \in Nat /\ Len(sent) \in Nat /\ base <= Len(sent)
  BY LenProperties DEF LineInv
<1>4. /\ Bytes \in Seq(FreshUnits) /\ Len(Bytes) = Len(buf) + Len(stream)
      /\ \A k \in 1 .. Len(Bytes) : Bytes[k] = IF k <= Len(buf) THEN buf[k] ELSE stream[k - Len(buf)]
  BY <1>1, ConcatProperties DEF Bytes
<1>5. \A k \in 1 .. Len(Bytes) : Bytes[k] \in FreshUnits
  BY <1>4, ElementOfSeq
<1> QED
  BY <1>2, <1>3, <1>4, <1>5 DEF FreshUnits

\* Places before and behind a shift.
LEMMA Shifted ==
  \A k, c, p, n, j, l \in Int :
    p - c = k =>
    /\ c <= p - j /\ p - j + l \in 1 .. n /\ 1 <= l => k - j + l \in 1 .. n - c /\ (k - j + l) + c = p - j + l
    /\ c <= p - j /\ p - j + l + 1 \in 1 .. n /\ 1 <= l =>
         k - j + l + 1 \in 1 .. n - c /\ (k - j + l + 1) + c = p - j + l + 1
OBVIOUS

\* What was first after the shift was preceded by the last that was cut.
LEMMA ShiftedFirst ==
  ASSUME NEW c \in Int, NEW p \in Int, p - c = 1, c > 0
  PROVE  p # 1 /\ p - 1 = c
OBVIOUS

LEMMA ShiftedBack ==
  \A k, c, p, n \in Int :
    p - c = k /\ k \in 1 .. n - c /\ 1 < k => k - 1 \in 1 .. n - c /\ (k - 1) + c = p - 1
OBVIOUS

\* Behind a newline, and behind a line of the full size, the rest of the wire is lines.
LEMMA RestIsLines ==
  ASSUME NEW w, NEW v, NEW c, Behind(w, c, v),
         \A k \in 1 .. Len(w) : /\ w[k] = <<w[k][1], w[k][2]>> /\ w[k][2] \in 0 .. LineCap
                                /\ w[k][1] \in 1 .. Len(sent),
         c > 0 => w[c][2] = 0 \/ (way = "down" /\ w[c][2] = LineCap),
         SizesFit, LinesInWire(w)
  PROVE  LinesInWire(v)
<1> USE LineProtocolAssumption DEF Behind
<1> SUFFICES ASSUME NEW k \in 1 .. Len(v)
             PROVE  IF IsNewline(v[k]) THEN EndsLine(v, k) ELSE InLine(v, k)
  BY DEF LinesInWire
<1> DEFINE p == k + c
           i == w[p][1]
           j == w[p][2]
           z == sent[i].size
<1>0. /\ k \in Nat /\ 1 <= k /\ k <= Len(v) /\ c \in Nat /\ Len(v) = Len(w) - c /\ Len(w) \in Nat
      /\ \A l \in 1 .. Len(v) : v[l] = w[l + c]
  BY DEF Behind
<1>1. /\ p \in 1 .. Len(w) /\ v[k] = w[p] /\ c + 1 <= p /\ p - c = k
  BY <1>0
<1>2. j \in 0 .. LineCap /\ z \in 1 .. LineCap
  BY <1>1 DEF SizesFit
<1>3. ASSUME j # 0
      PROVE  InLine(v, k)
  <2>1. /\ j <= z
        /\ \A l \in 1 .. z : p - j + l \in 1 .. Len(w) /\ w[p - j + l] = <<i, l>>
        /\ p - j + z + 1 \in 1 .. Len(w) /\ w[p - j + z + 1] = Newline(i)
    BY <1>1, <1>3 DEF LinesInWire, InLine, IsNewline
  <2> HIDE DEF p, i, j, z
  <2>2. c <= p - j
    <3> SUFFICES ASSUME c > p - j
                 PROVE  FALSE
      BY <1>1, <1>2
    <3> DEFINE l == c - p + j
    <3>1. l \in 1 .. z /\ l < j /\ p - j + l = c
      BY <1>1, <1>2, <2>1
    <3>2. w[c] = <<i, l>>
      BY <2>1, <3>1
    <3>3. c > 0
      BY <3>1, <2>1
    <3> QED
      BY <1>2, <3>1, <3>2, <3>3
  <2>3. \A l \in 1 .. z : k - j + l \in 1 .. Len(v) /\ v[k - j + l] = <<i, l>>
    <3> TAKE l \in 1 .. z
    <3>1. p - j + l \in 1 .. Len(w) /\ w[p - j + l] = <<i, l>>
      BY <2>1
    <3>2. k - j + l \in 1 .. Len(v) /\ (k - j + l) + c = p - j + l
      BY <1>0, <1>1, <1>2, <2>2, <3>1, Shifted
    <3> QED
      BY <3>1, <3>2
  <2>4. k - j + z + 1 \in 1 .. Len(v) /\ v[k - j + z + 1] = Newline(i)
    <3>1. k - j + z + 1 \in 1 .. Len(v) /\ (k - j + z + 1) + c = p - j + z + 1
      BY <1>0, <1>1, <1>2, <2>1, <2>2, Shifted
    <3> QED
      BY <2>1, <3>1
  <2>5. v[k][1] = i /\ v[k][2] = j
    BY <1>1 DEF i, j
  <2> QED
    BY <2>1, <2>3, <2>4, <2>5 DEF InLine, z
<1>4. ASSUME j = 0
      PROVE  EndsLine(v, k)
  <2>1. /\ IF p = 1 THEN way = "down" /\ z = LineCap ELSE w[p - 1] = <<i, z>>
        /\ \A l \in p + 1 .. Len(w) : i < w[l][1]
    BY <1>1, <1>4 DEF LinesInWire, EndsLine, IsNewline
  <2> HIDE DEF p, i, j, z
  <2>2. IF k = 1 THEN way = "down" /\ z = LineCap ELSE v[k - 1] = <<i, z>>
    <3>1. CASE k = 1 /\ c = 0
      BY <1>1, <2>1, <3>1
    <3>2. CASE k = 1 /\ c > 0
      <4>1. c \in Int /\ p \in Int /\ p - c = k
        BY <1>0, <1>1
      <4>2. p # 1 /\ p - 1 = c
        <5>1. p - c = 1
          BY <3>2, <4>1
        <5> QED
          BY <3>2, <4>1, <5>1, ShiftedFirst
      <4>3. w[c] = <<i, z>>
        BY <2>1, <4>2
      <4> QED
        BY <1>2, <3>2, <4>3
    <3>3. CASE k > 1
      <4>0. p # 1
        BY <1>0, <1>1, <3>3
      <4>1. k - 1 \in 1 .. Len(v) /\ (k - 1) + c = p - 1
        <5>1. k \in Int /\ c \in Int /\ p \in Int /\ Len(w) \in Int
          BY <1>0, <1>1
        <5>2. p - c = k /\ k \in 1 .. Len(w) - c /\ 1 < k
          BY <1>0, <1>1, <3>3
        <5>3. k - 1 \in 1 .. Len(w) - c /\ (k - 1) + c = p - 1
          BY <5>1, <5>2, ShiftedBack
        <5> QED
          BY <1>0, <5>3
      <4>2. v[k - 1] = w[p - 1]
        BY <4>1
      <4> QED
        BY <2>1, <3>3, <4>0, <4>2
    <3> QED
      BY <3>1, <3>2, <3>3
  <2>3. \A l \in k + 1 .. Len(v) : i < v[l][1]
    <3> TAKE l \in k + 1 .. Len(v)
    <3>1. l \in Nat /\ k + 1 <= l /\ l <= Len(v) /\ 1 <= k
      BY <1>0
    <3>2. l + c \in p + 1 .. Len(w) /\ l \in 1 .. Len(v)
      BY <1>0, <1>1, <3>1
    <3> QED
      BY <2>1, <3>2
  <2>4. v[k][1] = i
    BY <1>1 DEF i
  <2> QED
    BY <2>2, <2>3, <2>4 DEF EndsLine, z
<1> QED
  BY <1>1, <1>3, <1>4 DEF IsNewline

\* The first line of the buffer is a whole one, or nothing: the end of one given up.
LEMMA FirstLine ==
  ASSUME LineInv, SizesFit, LinesInWire(Bytes), NEW nl, nl = FirstNewline(buf), nl > 0
  PROVE  /\ nl \in 1 .. Len(buf) /\ Bytes[nl] = Newline(Bytes[1][1])
         /\ \A k \in 1 .. nl - 1 : buf[k] = <<Bytes[1][1], k>> /\ Bytes[k] = buf[k]
         /\ IF nl = 1 THEN way = "down" /\ sent[Bytes[1][1]].size = LineCap
            ELSE sent[Bytes[1][1]].size = nl - 1
<1> USE LineProtocolAssumption
<1>1. nl \in 1 .. Len(buf) /\ IsNewline(buf[nl]) /\ \A k \in 1 .. Len(buf) : IsNewline(buf[k]) => nl <= k
  BY NewlineIsFirst DEF LineInv
<1> DEFINE w == Bytes
           i == w[1][1]
           j == w[1][2]
           z == sent[i].size
<1>2. /\ 1 \in 1 .. Len(w) /\ Len(w) \in Nat /\ Len(buf) <= Len(w) /\ Len(buf) \in Nat
      /\ \A k \in 1 .. Len(buf) : w[k] = buf[k] /\ k \in 1 .. Len(w)
      /\ w[1] = <<i, j>> /\ j \in 0 .. LineCap /\ z \in 1 .. LineCap
  <2>1. /\ Len(w) \in Nat /\ Len(buf) <= Len(w) /\ Len(buf) \in Nat
        /\ \A k \in 1 .. Len(buf) : w[k] = buf[k] /\ k \in 1 .. Len(w)
    <3>1. Len(w) = Len(buf) + Len(stream) /\ Len(buf) \in Nat /\ Len(stream) \in Nat
      BY WireUnits
    <3>2. \A k \in 1 .. Len(w) : w[k] = IF k <= Len(buf) THEN buf[k] ELSE stream[k - Len(buf)]
      BY WireUnits
    <3> HIDE DEF w
    <3> QED
      BY <3>1, <3>2
  <2>2. 1 \in 1 .. Len(w)
    BY <1>1, <2>1
  <2>3. w[1] = <<i, j>> /\ j \in 0 .. LineCap /\ i \in 1 .. Len(sent)
    BY <2>2, WireUnits
  <2> QED
    BY <2>1, <2>2, <2>3 DEF SizesFit
<1>3. CASE j = 0
  <2>1. way = "down" /\ z = LineCap
    BY <1>2, <1>3 DEF LinesInWire, EndsLine, IsNewline
  <2>2. nl = 1
    BY <1>1, <1>2, <1>3 DEF IsNewline
  <2> QED
    BY <1>1, <1>2, <1>3, <2>1, <2>2 DEF Newline
<1>4. CASE j # 0
  <2>1. /\ j <= z
        /\ \A l \in 1 .. z : 1 - j + l \in 1 .. Len(w) /\ w[1 - j + l] = <<i, l>>
        /\ 1 - j + z + 1 \in 1 .. Len(w) /\ w[1 - j + z + 1] = Newline(i)
    BY <1>2, <1>4 DEF LinesInWire, InLine, IsNewline
  <2> HIDE DEF w, i, j, z
  <2>2. j = 1
    <3>1. 1 \in 1 .. z
      BY <1>2
    <3>2. 1 - j + 1 \in 1 .. Len(w)
      BY <2>1, <3>1
    <3>3. j \in Nat /\ j # 0 /\ 1 <= 1 - j + 1
      BY <1>2, <1>4, <3>2
    <3> QED
      BY <3>3
  <2>3. /\ \A l \in 1 .. z : w[l] = <<i, l>>
        /\ z + 1 \in 1 .. Len(w) /\ w[z + 1] = Newline(i)
    <3>1. 1 - j + z + 1 = z + 1 /\ \A l \in 1 .. z : 1 - j + l = l
      BY <1>2, <2>2
    <3> QED
      BY <2>1, <3>1
  <2>4. nl = z + 1
    <3>1. CASE nl <= z
      <4>1. w[nl] = <<i, nl>> /\ w[nl] = buf[nl]
        BY <1>1, <1>2, <2>3, <3>1
      <4> QED
        BY <1>1, <4>1 DEF IsNewline
    <3>2. CASE nl > z + 1
      <4>1. z + 1 \in 1 .. Len(buf)
        BY <1>1, <1>2, <3>2
      <4>2. buf[z + 1] = Newline(i)
        BY <1>2, <2>3, <4>1
      <4> QED
        BY <1>1, <3>2, <4>1, <4>2 DEF IsNewline, Newline
    <3> QED
      BY <1>1, <1>2, <3>1, <3>2
  <2>5. nl # 1 /\ z = nl - 1 /\ w[nl] = Newline(i)
    BY <1>2, <2>3, <2>4
  <2>6. \A k \in 1 .. nl - 1 : buf[k] = <<i, k>> /\ w[k] = buf[k]
    BY <1>1, <1>2, <2>3, <2>5
  <2> QED
    BY <1>1, <2>5, <2>6 DEF w, i, z
<1> QED
  BY <1>3, <1>4

\* What is behind the part of the wire that was given up, none of which was due.
LEMMA OrderDrops ==
  ASSUME NEW g, NEW w, NEW v, NEW c, Behind(w, c, v), Order(g, w),
         \A k \in 1 .. c : \A i \in base + 1 .. Len(sent) : w[k] = Newline(i) => ~MustArrive(i)
  PROVE  Order(g, v)
<1> USE DEF Behind
<1>1. \A k \in 1 .. Len(v) : k + c \in 1 .. Len(w)
  OBVIOUS
<1>2. \A k \in 1 .. Len(w) : k \in 1 .. c \/ (k - c \in 1 .. Len(v) /\ (k - c) + c = k)
  OBVIOUS
<1>3. ASSUME NEW j \in 1 .. Len(g)
      PROVE  MustArrive(g[j].line) /\ \A k \in 1 .. Len(v) : g[j].line < v[k][1]
  BY <1>1 DEF Order
<1>4. ASSUME NEW i \in base + 1 .. Len(sent), MustArrive(i)
      PROVE  \/ \E k \in 1 .. Len(g) : g[k].line = i
             \/ \E k \in 1 .. Len(v) : v[k] = Newline(i)
  <2>1. CASE \E k \in 1 .. Len(w) : w[k] = Newline(i)
    <3>1. PICK k \in 1 .. Len(w) : w[k] = Newline(i)
      BY <2>1
    <3>2. k - c \in 1 .. Len(v) /\ (k - c) + c = k
      BY <1>2, <1>4, <3>1
    <3>3. v[k - c] = Newline(i)
      BY <3>1, <3>2
    <3> QED
      BY <3>2, <3>3
  <2> QED
    BY <1>4, <2>1 DEF Order
<1> QED
  BY <1>3, <1>4 DEF Order

\* What is behind the part of the wire that was taken: the line of e, which was due.
LEMMA OrderTakes ==
  ASSUME NEW g, NEW e, NEW h, Grows(g, e, h), NEW w, NEW v, NEW c, Behind(w, c, v), c > 0,
         Order(g, w), MustArrive(e.line), w[c] = Newline(e.line),
         \A k \in 1 .. c - 1 : ~IsNewline(w[k]),
         \A k \in c + 1 .. Len(w) : e.line < w[k][1]
  PROVE  Order(h, v)
<1> USE DEF Behind, Grows
<1>1. \A k \in 1 .. Len(v) : k + c \in 1 .. Len(w) /\ k + c \in c + 1 .. Len(w)
  OBVIOUS
<1>2. \A k \in 1 .. Len(w) : k \in 1 .. c - 1 \/ k = c \/ (k - c \in 1 .. Len(v) /\ (k - c) + c = k)
  OBVIOUS
<1>3. \A j \in 1 .. Len(h) : (j \in 1 .. Len(g) /\ h[j] = g[j]) \/ (j = Len(g) + 1 /\ h[j] = e)
  OBVIOUS
<1>4. /\ \A j \in 1 .. Len(g) : j \in 1 .. Len(h) /\ h[j] = g[j]
      /\ Len(g) + 1 \in 1 .. Len(h) /\ h[Len(g) + 1] = e
  OBVIOUS
<1>5. \A j \in 1 .. Len(g) : g[j].line < e.line
  BY DEF Order, Newline
<1>6. ASSUME NEW j \in 1 .. Len(h), NEW k \in 1 .. Len(h), j < k
      PROVE  h[j].line < h[k].line
  <2>1. j \in 1 .. Len(g) /\ h[j] = g[j]
    BY <1>3, <1>6
  <2>2. CASE k \in 1 .. Len(g) /\ h[k] = g[k]
    BY <1>6, <2>1, <2>2 DEF Order
  <2>3. CASE h[k] = e
    BY <1>5, <2>1, <2>3
  <2> QED
    BY <1>3, <2>2, <2>3
<1>7. ASSUME NEW j \in 1 .. Len(h)
      PROVE  MustArrive(h[j].line) /\ \A k \in 1 .. Len(v) : h[j].line < v[k][1]
  <2>1. CASE j \in 1 .. Len(g) /\ h[j] = g[j]
    BY <1>1, <2>1 DEF Order
  <2>2. CASE h[j] = e
    BY <1>1, <2>2
  <2> QED
    BY <1>3, <2>1, <2>2
<1>8. ASSUME NEW i \in base + 1 .. Len(sent), MustArrive(i)
      PROVE  \/ \E k \in 1 .. Len(h) : h[k].line = i
             \/ \E k \in 1 .. Len(v) : v[k] = Newline(i)
  <2>1. CASE \E k \in 1 .. Len(g) : g[k].line = i
    BY <1>4, <2>1
  <2>2. CASE \E k \in 1 .. Len(w) : w[k] = Newline(i)
    <3>1. PICK k \in 1 .. Len(w) : w[k] = Newline(i)
      BY <2>2
    <3>2. CASE k = c
      <4>1. <<i, 0>> = <<e.line, 0>>
        BY <3>1, <3>2 DEF Newline
      <4>2. h[Len(g) + 1].line = i
        BY <1>4, <4>1
      <4> QED
        BY <1>4, <4>2
    <3>3. CASE k - c \in 1 .. Len(v) /\ (k - c) + c = k
      <4>1. v[k - c] = Newline(i)
        BY <3>1, <3>3
      <4> QED
        BY <3>3, <4>1
    <3> QED
      BY <1>2, <3>1, <3>2, <3>3 DEF IsNewline, Newline
  <2> QED
    BY <1>8, <2>1, <2>2 DEF Order
<1> QED
  BY <1>6, <1>7, <1>8 DEF Order

\* Nothing was written.
LEMMA OrderInitial == LineInit => OrderInv
<1> SUFFICES ASSUME LineInit
             PROVE  OrderInv
  OBVIOUS
<1>1. Len(sent) = 0 /\ Len(buf) = 0 /\ base = 0
  BY DEF LineInit
<1>2. Bytes = <<>> /\ Got = <<>> /\ Len(Bytes) = 0 /\ Len(Got) = 0
  BY DEF LineInit, Bytes, Got
<1>3. SizesFit /\ HelloFirst /\ BufFits /\ KeptBehind
  BY <1>1, LineProtocolAssumption DEF LineInit, SizesFit, HelloFirst, BufFits, KeptBehind
<1> HIDE DEF Bytes, Got
<1>4. LinesInWire(Bytes) /\ Order(Got, Bytes)
  BY <1>1, <1>2 DEF LinesInWire, Order
<1> QED
  BY <1>3, <1>4 DEF OrderInv

\* Of a step that writes nothing.
LEMMA OrderMoves ==
  ASSUME UNCHANGED <<way, sent, base>>, OrderInv, NEW g, NEW w, g = Got', w = Bytes',
         LinesInWire(w), Order(g, w), BufFits', KeptBehind'
  PROVE  OrderInv'
<1>1. SizesFit' /\ HelloFirst'
  BY DEF OrderInv, SizesFit, HelloFirst
<1>2. LinesInWire(Bytes)'
  BY DEF LinesInWire, InLine, EndsLine
<1>3. Order(Got, Bytes)'
  BY DEF Order, MustArrive
<1> QED
  BY <1>1, <1>2, <1>3 DEF OrderInv

\* A sequence is its beginning and its rest.
LEMMA CutAndJoined ==
  ASSUME NEW S, NEW s \in Seq(S), NEW n \in 0 .. Len(s)
  PROVE  SubSeq(s, 1, n) \o Rest(s, n) = s
<1> DEFINE a == SubSeq(s, 1, n)
           b == Rest(s, n)
<1>1. Len(s) \in Nat /\ n \in Int /\ n + 1 \in Int
  BY LenProperties
<1>2. \A i \in 1 .. Len(s) : s[i] \in S
  BY ElementOfSeq
<1>3. a \in Seq(S) /\ Len(a) = n /\ \A i \in 1 .. n : a[i] = s[i]
  BY <1>1, <1>2, SubSeqProperties
<1>4. b \in Seq(S) /\ Len(b) = Len(s) - n /\ \A i \in 1 .. Len(s) - n : b[i] = s[n + i]
  BY <1>1, <1>2, SubSeqProperties DEF Rest
<1> HIDE DEF a, b
<1>5. /\ a \o b \in Seq(S) /\ Len(a \o b) = Len(s)
      /\ \A i \in 1 .. Len(s) : (a \o b)[i] = IF i <= n THEN a[i] ELSE b[i - n]
  BY <1>1, <1>3, <1>4, ConcatProperties
<1>6. \A i \in 1 .. Len(s) : (a \o b)[i] = s[i]
  <2> TAKE i \in 1 .. Len(s)
  <2>1. CASE i <= n
    BY <1>1, <1>3, <1>5, <2>1
  <2>2. CASE ~(i <= n)
    <3>1. i - n \in 1 .. Len(s) - n /\ n + (i - n) = i
      BY <1>1, <2>2
    <3> QED
      BY <1>4, <1>5, <2>2, <3>1
  <2> QED
    BY <2>1, <2>2
<1>7. a \o b = s
  BY <1>5, <1>6, SeqEqual
<1> QED
  BY <1>7 DEF a, b

\* Bytes arrive, in the order they were sent.
LEMMA OrderReceives == LineInv /\ OrderInv /\ (RecvIntoBuf \/ ReadChunk) => OrderInv'
<1> SUFFICES ASSUME LineInv, OrderInv, NEW n \in 0 .. Len(stream), Receive(n),
                    way = "down" => n <= LineCap - Len(buf)
             PROVE  OrderInv'
  <2>1. LineInv => Len(stream) \in Nat /\ Len(buf) \in Nat /\ LineCap \in Nat
    BY WireUnits, LineProtocolAssumption
  <2> QED
    BY <2>1 DEF RecvIntoBuf, ReadChunk
<1>1. buf \in Seq(FreshUnits) /\ stream \in Seq(FreshUnits)
  BY DEF LineInv
<1>2. SubSeq(stream, 1, n) \in Seq(FreshUnits) /\ Rest(stream, n) \in Seq(FreshUnits)
  BY <1>1, PartOfSeq
<1>3. Bytes' = Bytes
  <2>1. Bytes' = (buf \o SubSeq(stream, 1, n)) \o Rest(stream, n)
    BY DEF Bytes, Receive
  <2>2. \A a, b \in Seq(FreshUnits) : (buf \o a) \o b = buf \o (a \o b)
    BY <1>1, ConcatAssociative
  <2>3. Bytes' = buf \o (SubSeq(stream, 1, n) \o Rest(stream, n))
    BY <1>2, <2>1, <2>2
  <2> QED
    BY <1>1, <2>3, CutAndJoined DEF Bytes
<1>4. Got' = Got
  BY DEF Got, Receive
<1>5. BufFits'
  <2>1. Len(SubSeq(stream, 1, n)) = n /\ Len(buf) \in Nat /\ n \in Nat
    <3>1. n \in Int /\ Len(stream) \in Nat /\ Len(buf) \in Nat /\ n \in Nat
      BY <1>1, LenProperties
    <3>2. \A i \in 1 .. n : stream[i] \in FreshUnits
      BY <1>1, <3>1, ElementOfSeq
    <3> QED
      BY <3>1, <3>2, SubSeqProperties
  <2>2. Len(buf') = Len(buf) + n
    BY <1>1, <1>2, <2>1, ConcatProperties DEF Receive
  <2> QED
    BY <2>1, <2>2, LineProtocolAssumption DEF BufFits, Receive
<1>6. KeptBehind' /\ UNCHANGED <<way, sent, base>>
  BY DEF OrderInv, KeptBehind, Receive
<1>7. LinesInWire(Bytes) /\ Order(Got, Bytes)
  BY DEF OrderInv
<1> QED
  BY <1>3, <1>4, <1>5, <1>6, <1>7, OrderMoves

\* What is behind the first units of the buffer.
LEMMA WireRest ==
  ASSUME LineInv, NEW c \in 0 .. Len(buf), NEW v, v = Rest(buf, c) \o stream
  PROVE  Behind(Bytes, c, v)
<1>1. buf \in Seq(FreshUnits) /\ stream \in Seq(FreshUnits)
  BY DEF LineInv
<1>2. Len(buf) \in Nat /\ Len(stream) \in Nat /\ c \in Int /\ c + 1 \in Int /\ c \in Nat /\ c <= Len(buf)
  BY <1>1, LenProperties
<1> DEFINE b == Rest(buf, c)
<1>3. b \in Seq(FreshUnits) /\ Len(b) = Len(buf) - c /\ \A i \in 1 .. Len(buf) - c : b[i] = buf[c + i]
  <2>1. \A i \in 1 .. Len(buf) : buf[i] \in FreshUnits
    BY <1>1, ElementOfSeq
  <2> QED
    BY <1>2, <2>1, SubSeqProperties DEF Rest
<1> HIDE DEF b
<1>4. /\ Len(b \o stream) = Len(b) + Len(stream)
      /\ \A k \in 1 .. Len(b) + Len(stream) : (b \o stream)[k] = IF k <= Len(b) THEN b[k] ELSE stream[k - Len(b)]
  BY <1>1, <1>3, ConcatProperties
<1>5. v = b \o stream
  BY DEF b
<1>6. /\ Len(Bytes) = Len(buf) + Len(stream)
      /\ \A k \in 1 .. Len(Bytes) : Bytes[k] = IF k <= Len(buf) THEN buf[k] ELSE stream[k - Len(buf)]
  BY WireUnits
<1>7. Len(v) = Len(Bytes) - c /\ c \in 0 .. Len(Bytes) /\ Len(v) \in Nat
  BY <1>2, <1>3, <1>4, <1>5, <1>6
<1>8. ASSUME NEW k \in 1 .. Len(v)
      PROVE  v[k] = Bytes[k + c]
  <2>1. k \in Nat /\ 1 <= k /\ k + c \in 1 .. Len(Bytes)
    BY <1>2, <1>7
  <2>2. CASE k <= Len(buf) - c
    <3>1. k \in 1 .. Len(buf) - c /\ k + c <= Len(buf) /\ c + k = k + c
      BY <1>2, <2>1, <2>2
    <3>2. v[k] = b[k]
      BY <1>3, <1>4, <1>5, <1>7, <2>2
    <3> QED
      BY <1>3, <1>6, <2>1, <3>1, <3>2
  <2>3. CASE ~(k <= Len(buf) - c)
    <3>1. ~(k + c <= Len(buf)) /\ k - Len(b) = (k + c) - Len(buf)
      BY <1>2, <1>3, <2>1, <2>3
    <3>2. v[k] = stream[k - Len(b)]
      BY <1>3, <1>4, <1>5, <1>7, <2>3
    <3> QED
      BY <1>6, <2>1, <3>1, <3>2
  <2> QED
    BY <2>2, <2>3
<1> QED
  BY <1>2, <1>6, <1>7, <1>8 DEF Behind

\* A full buffer is given up: it has all of a line that was not due but its newline.
LEMMA OrderResyncs == LineInv /\ OrderInv /\ Resync => OrderInv'
<1> SUFFICES ASSUME LineInv, OrderInv, Resync
             PROVE  OrderInv'
  OBVIOUS
<1> USE LineProtocolAssumption
<1> DEFINE c == Len(buf)
           i == Bytes[1][1]
           j == Bytes[1][2]
           z == sent[i].size
<1>1. /\ buf \in Seq(FreshUnits) /\ stream \in Seq(FreshUnits) /\ c \in Nat
      /\ Len(stream) \in Nat
  BY LenProperties DEF LineInv
<1>2. \A k \in 1 .. c : ~IsNewline(buf[k])
  <2>1. FirstNewline(buf) = 0
    BY DEF Resync
  <2> QED
    BY <1>1, <2>1, NewlineIsFirst
<1>3. c >= Overfull /\ c > 0 /\ Overfull = IF way = "down" THEN LineCap ELSE LineCap + 1
  BY <1>1 DEF Resync, Overfull
<1>4. \A k \in 1 .. c : k \in 1 .. Len(Bytes) /\ Bytes[k] = buf[k]
  <2>1. Len(Bytes) = c + Len(stream) /\ \A k \in 1 .. Len(Bytes) : Bytes[k] = IF k <= c THEN buf[k] ELSE stream[k - c]
    BY WireUnits
  <2> QED
    BY <1>1, <2>1
<1>5. /\ 1 \in 1 .. Len(Bytes) /\ ~IsNewline(Bytes[1]) /\ Bytes[1] = <<i, j>>
      /\ j \in 1 .. LineCap /\ z \in 1 .. LineCap /\ Len(Bytes) \in Nat
  <2>1. 1 \in 1 .. c
    BY <1>1, <1>3
  <2>2. 1 \in 1 .. Len(Bytes) /\ ~IsNewline(Bytes[1])
    BY <1>2, <1>4, <2>1
  <2>3. Bytes[1] = <<i, j>> /\ j \in 0 .. LineCap /\ i \in 1 .. Len(sent) /\ Len(Bytes) \in Nat
    BY <2>2, WireUnits
  <2> QED
    BY <2>2, <2>3 DEF IsNewline, OrderInv, SizesFit
<1>6. /\ j <= z
      /\ \A l \in 1 .. z : 1 - j + l \in 1 .. Len(Bytes) /\ Bytes[1 - j + l] = <<i, l>>
      /\ 1 - j + z + 1 \in 1 .. Len(Bytes) /\ Bytes[1 - j + z + 1] = Newline(i)
  BY <1>5 DEF OrderInv, LinesInWire, InLine
<1> HIDE DEF c, i, j, z
<1>7. j = 1
  <2>1. 1 \in 1 .. z
    BY <1>5
  <2>2. 1 - j + 1 \in 1 .. Len(Bytes)
    BY <1>6, <2>1
  <2>3. j \in Nat /\ j # 0 /\ 1 <= 1 - j + 1
    BY <1>5, <2>2
  <2> QED
    BY <2>3
<1>8. Bytes[z] = <<i, z>> /\ Bytes[z + 1] = Newline(i)
  <2>1. z \in 1 .. z /\ 1 - j + z = z /\ 1 - j + z + 1 = z + 1
    BY <1>5, <1>7
  <2> QED
    BY <1>6, <2>1
<1>9. way = "down" /\ z = LineCap /\ c = z
  <2>1. ~(z + 1 <= c)
    <3> SUFFICES ASSUME z + 1 <= c
                 PROVE  FALSE
      OBVIOUS
    <3>1. z + 1 \in 1 .. c
      BY <1>1, <1>5
    <3>2. ~IsNewline(Bytes[z + 1])
      BY <1>2, <1>4, <3>1
    <3> QED
      BY <1>8, <3>2 DEF IsNewline, Newline
  <2> QED
    BY <1>1, <1>3, <1>5, <2>1
<1>10. PICK v : v = Rest(buf, c) \o stream
  OBVIOUS
<1>11. Bytes' = v /\ Got' = Got
  <2>1. Rest(buf, c) = <<>>
    BY <1>1, SubSeqEmpty DEF Rest, c
  <2>2. Bytes' = stream /\ v = stream
    BY <1>1, <1>10, <2>1, ConcatEmptySeq DEF Resync, Bytes
  <2> QED
    BY <2>2 DEF Resync, Got
<1>12. Behind(Bytes, c, v)
  <2>1. c \in 0 .. Len(buf)
    BY <1>1 DEF c
  <2> QED
    BY <1>10, <2>1, WireRest
<1>13. /\ Len(Bytes) \in Nat /\ SizesFit /\ LinesInWire(Bytes) /\ Order(Got, Bytes)
       /\ \A k \in 1 .. Len(Bytes) : /\ Bytes[k] = <<Bytes[k][1], Bytes[k][2]>> /\ Bytes[k][2] \in 0 .. LineCap
                                    /\ Bytes[k][1] \in 1 .. Len(sent)
  BY <1>5, WireUnits DEF OrderInv
<1>14. way = "down" /\ Bytes[c][2] = LineCap
  BY <1>8, <1>9
<1>15. LinesInWire(v)
  BY <1>12, <1>13, <1>14, RestIsLines
<1>16. Order(Got, v)
  <2>1. \A k \in 1 .. c : \A l \in base + 1 .. Len(sent) : Bytes[k] = Newline(l) => ~MustArrive(l)
    BY <1>2, <1>4 DEF IsNewline, Newline
  <2> QED
    BY <1>12, <1>13, <2>1, OrderDrops
<1>17. BufFits' /\ KeptBehind' /\ UNCHANGED <<way, sent, base>>
  <2>1. Len(buf') = 0
    BY DEF Resync
  <2> QED
    BY <2>1 DEF OrderInv, BufFits, KeptBehind, Resync
<1> QED
  BY <1>11, <1>15, <1>16, <1>17, OrderMoves

\* One more is taken, of the connection or of what is kept.
LEMMA GotGrows ==
  ASSUME NEW S, NEW a \in Seq(S), NEW b \in Seq(S), NEW e
  PROVE  /\ b = <<>> => Grows(a \o b, e, Append(a, e) \o b)
         /\ Grows(a \o b, e, a \o Append(b, e))
<1> DEFINE T == S \cup {e}
<1>1. a \in Seq(T) /\ b \in Seq(T) /\ e \in T /\ S \subseteq T
  BY SeqMonotonic
<1> HIDE DEF T
<1>2. Len(a) \in Nat /\ Len(b) \in Nat
  BY LenProperties
<1> DEFINE g == a \o b
<1>3. /\ Len(g) = Len(a) + Len(b)
      /\ \A k \in 1 .. Len(a) + Len(b) : g[k] = IF k <= Len(a) THEN a[k] ELSE b[k - Len(a)]
  BY ConcatProperties
<1> HIDE DEF g
<1>4. ASSUME b = <<>>, NEW h, h = Append(a, e) \o b
      PROVE  Len(h) = Len(g) + 1 /\ \A k \in 1 .. Len(h) : h[k] = IF k <= Len(g) THEN g[k] ELSE e
  <2>1. h = Append(a, e) /\ Len(b) = 0
    <3>1. Append(a, e) \in Seq(T)
      BY <1>1, AppendProperties
    <3> QED
      BY <1>4, <3>1, ConcatEmptySeq
  <2>2. /\ Len(h) = Len(a) + 1 /\ h[Len(a) + 1] = e
        /\ \A k \in 1 .. Len(a) : h[k] = a[k]
    BY <1>1, <1>2, <2>1, AppendProperties
  <2> QED
    BY <1>2, <1>3, <2>1, <2>2
<1>5. ASSUME NEW h, h = a \o Append(b, e)
      PROVE  Len(h) = Len(g) + 1 /\ \A k \in 1 .. Len(h) : h[k] = IF k <= Len(g) THEN g[k] ELSE e
  <2> DEFINE d == Append(b, e)
  <2>1. /\ d \in Seq(T) /\ Len(d) = Len(b) + 1 /\ d[Len(b) + 1] = e
        /\ \A k \in 1 .. Len(b) : d[k] = b[k]
    BY <1>1, <1>2, AppendProperties
  <2> HIDE DEF d
  <2>2. /\ Len(a \o d) = Len(a) + Len(d)
        /\ \A k \in 1 .. Len(a) + Len(d) : (a \o d)[k] = IF k <= Len(a) THEN a[k] ELSE d[k - Len(a)]
    BY <1>1, <2>1, ConcatProperties
  <2>3. h = a \o d
    BY <1>5 DEF d
  <2>4. \A k \in 1 .. Len(h) : h[k] = IF k <= Len(g) THEN g[k] ELSE e
    <3> TAKE k \in 1 .. Len(h)
    <3>1. CASE k <= Len(a)
      BY <1>2, <1>3, <2>1, <2>2, <2>3, <3>1
    <3>2. CASE Len(a) < k /\ k <= Len(g)
      <4>1. k - Len(a) \in 1 .. Len(b) /\ k \in 1 .. Len(a) + Len(b) /\ ~(k <= Len(a))
        BY <1>2, <1>3, <3>2
      <4>2. h[k] = d[k - Len(a)] /\ g[k] = b[k - Len(a)]
        BY <1>3, <2>2, <2>3, <4>1
      <4> QED
        BY <2>1, <3>2, <4>1, <4>2
    <3>3. CASE k > Len(g)
      <4>1. k - Len(a) = Len(b) + 1 /\ ~(k <= Len(a)) /\ ~(k <= Len(g))
        BY <1>2, <1>3, <2>1, <2>2, <2>3, <3>3
      <4>2. h[k] = d[k - Len(a)]
        BY <2>2, <2>3, <4>1
      <4> QED
        BY <2>1, <4>1, <4>2
    <3>4. k \in Nat /\ Len(a) <= Len(g)
      BY <1>2, <1>3
    <3> QED
      BY <1>2, <1>3, <3>1, <3>2, <3>3, <3>4
  <2>5. Len(h) = Len(g) + 1
    BY <1>2, <1>3, <2>1, <2>2, <2>3
  <2> QED
    BY <2>4, <2>5
<1>6. Len(g) \in Nat
  BY <1>2, <1>3
<1> QED
  BY <1>4, <1>5, <1>6 DEF Grows, g

\* The first line of the buffer is taken, or passed over.
LEMMA OrderPops == LineInv /\ OrderInv /\ PopLine => OrderInv'
<1> SUFFICES ASSUME LineInv, OrderInv, PopLine
             PROVE  OrderInv'
  OBVIOUS
<1> USE LineProtocolAssumption
<1>1. PICK nl : nl = FirstNewline(buf) /\ nl > 0
  BY DEF PopLine
<1>2. PICK i : i = Bytes[1][1]
  OBVIOUS
<1>3. /\ nl \in 1 .. Len(buf) /\ Bytes[nl] = Newline(i)
      /\ \A k \in 1 .. nl - 1 : buf[k] = <<i, k>> /\ Bytes[k] = buf[k]
      /\ IF nl = 1 THEN way = "down" /\ sent[i].size = LineCap ELSE sent[i].size = nl - 1
  BY <1>1, <1>2, FirstLine DEF OrderInv
<1>4. PICK v : v = Rest(buf, nl) \o stream
  OBVIOUS
<1>5. Behind(Bytes, nl, v) /\ nl > 0 /\ nl \in 1 .. Len(Bytes)
  <2>1. nl \in 0 .. Len(buf) /\ nl \in Nat /\ 1 <= nl
    BY <1>3, WireUnits
  <2>2. Behind(Bytes, nl, v)
    BY <1>4, <2>1, WireRest
  <2> QED
    BY <2>1, <2>2 DEF Behind
<1>6. /\ Len(Bytes) \in Nat /\ SizesFit /\ LinesInWire(Bytes) /\ Order(Got, Bytes)
      /\ \A k \in 1 .. Len(Bytes) : /\ Bytes[k] = <<Bytes[k][1], Bytes[k][2]>> /\ Bytes[k][2] \in 0 .. LineCap
                                   /\ Bytes[k][1] \in base + 1 .. Len(sent) /\ Bytes[k][1] \in 1 .. Len(sent)
  BY WireUnits DEF OrderInv
<1>7. Bytes' = v /\ UNCHANGED <<way, sent, base>>
  BY <1>1, <1>4 DEF PopLine, Bytes
<1>8. i \in base + 1 .. Len(sent) /\ i \in 1 .. Len(sent)
  <2>1. 1 \in 1 .. Len(Bytes)
    BY <1>5, <1>6
  <2> QED
    BY <1>2, <1>6, <2>1
<1>9. LinesInWire(v)
  <2>1. Bytes[nl][2] = 0
    BY <1>3 DEF Newline
  <2> QED
    BY <1>5, <1>6, <2>1, RestIsLines
<1>10. \A k \in nl + 1 .. Len(Bytes) : i < Bytes[k][1]
  <2>1. IsNewline(Bytes[nl]) /\ Bytes[nl][1] = i
    BY <1>3 DEF IsNewline, Newline
  <2> QED
    BY <1>5, <1>6, <2>1 DEF LinesInWire, EndsLine
<1>11. \A k \in 1 .. nl - 1 : ~IsNewline(Bytes[k])
  BY <1>3 DEF IsNewline
<1>12. Order(Got, v) \/ MustArrive(i)
  <2> SUFFICES ASSUME ~MustArrive(i)
               PROVE  Order(Got, v)
    OBVIOUS
  <2>1. ASSUME NEW k \in 1 .. nl, NEW l \in base + 1 .. Len(sent), Bytes[k] = Newline(l)
        PROVE  ~MustArrive(l)
    <3>1. IsNewline(Bytes[k])
      BY <2>1 DEF IsNewline, Newline
    <3>2. k = nl
      BY <1>3, <1>11, <2>1, <3>1
    <3>3. l = i
      BY <1>3, <2>1, <3>2 DEF Newline
    <3> QED
      BY <3>3
  <2> QED
    BY <1>5, <1>6, <2>1, OrderDrops
<1>13. ASSUME NEW e, e.line = i, MustArrive(i),
              (leftover = <<>> /\ Got' = Append(heard, e) \o leftover) \/ Got' = heard \o Append(leftover, e)
       PROVE  Order(Got', v)
  <2>1. PICK h : h = Got'
    OBVIOUS
  <2>2. Grows(Got, e, h)
    <3>1. heard \in Seq(OwnWhole) /\ leftover \in Seq(OwnWhole)
      BY DEF LineInv
    <3>2. /\ leftover = <<>> => Grows(Got, e, Append(heard, e) \o leftover)
          /\ Grows(Got, e, heard \o Append(leftover, e))
      BY <3>1, GotGrows DEF Got
    <3> QED
      BY <1>13, <2>1, <3>2
  <2>3. /\ MustArrive(e.line) /\ Bytes[nl] = Newline(e.line)
        /\ \A k \in nl + 1 .. Len(Bytes) : e.line < Bytes[k][1]
    BY <1>3, <1>10, <1>13
  <2>4. Order(h, v)
    BY <1>5, <1>6, <1>11, <2>2, <2>3, OrderTakes
  <2> QED
    BY <2>1, <2>4
<1>14. Order(Got', v) /\ KeptBehind'
  <2> DEFINE line == SubSeq(buf, 1, nl - 1)
  <2>1. CASE nl = 1
    <3>1. line = <<>>
      BY <2>1, SubSeqEmpty
    <3>2. UNCHANGED <<heard, greeted, leftover>> /\ way' = way
      BY <1>1, <3>1 DEF PopLine, WholeLine
    <3>3. ~MustArrive(i)
      BY <1>3, <2>1 DEF MustArrive
    <3> QED
      BY <1>12, <3>2, <3>3 DEF Got, KeptBehind, OrderInv
  <2>2. CASE nl # 1
    <3>1. line = BodyOf(i, sent[i]) /\ line # <<>> /\ line[1][1] = i
      <4>1. Len(buf) \in Nat /\ nl \in Nat /\ nl - 1 \in 0 .. Len(buf) /\ sent[i].size = nl - 1 /\ nl - 1 >= 1
        BY <1>3, <2>2, WireUnits
      <4>2. buf \in Seq(FreshUnits) /\ \A k \in 1 .. Len(buf) : buf[k] \in FreshUnits
        BY ElementOfSeq DEF LineInv
      <4>3. /\ line \in Seq(FreshUnits) /\ Len(line) = nl - 1
            /\ \A k \in 1 .. nl - 1 : line[k] = buf[k]
        <5>1. \A k \in 1 .. nl - 1 : buf[k] \in FreshUnits
          BY <4>1, <4>2
        <5>2. nl - 1 \in Int /\ 1 <= nl - 1
          BY <4>1
        <5> QED
          BY <5>1, <5>2, SubSeqProperties
      <4> HIDE DEF line
      <4>4. \A k \in 1 .. nl - 1 : line[k] = <<i, k>>
        BY <1>3, <4>3
      <4>5. line = [k \in 1 .. nl - 1 |-> <<i, k>>]
        <5>1. line \in [1 .. nl - 1 -> FreshUnits]
          BY <4>3, LenProperties
        <5> QED
          BY <4>4, <5>1
      <4>6. 1 \in 1 .. nl - 1
        BY <4>1
      <4> QED
        BY <4>1, <4>3, <4>4, <4>5, <4>6, EmptySeq DEF BodyOf
    <3>2. WholeLine(line)
      BY <3>1 DEF WholeLine
    <3>3. IF way = "down" THEN HandleLine(i) ELSE HearLine(i)
      BY <1>1, <3>1, <3>2 DEF PopLine
    <3>4. sent \in Seq(Spoken) /\ sent[i] \in Spoken /\ way \in {"up", "down"}
      BY <1>8, ElementOfSeq DEF LineInv
    <3>5. KeptBehind
      BY DEF OrderInv
    <3>6. CASE way = "down"
      <4>1. HandleLine(i) /\ leftover = <<>> /\ leftover' = <<>> /\ sent[i] \in Down
        BY <3>3, <3>4, <3>5, <3>6 DEF HandleLine, KeptBehind, Spoken
      <4>2. sent[i].size < LineCap
        <5>1. Len(buf) <= LineCap /\ Len(buf) \in Nat /\ nl \in 1 .. Len(buf)
          BY <1>3, <3>6, WireUnits DEF OrderInv, BufFits
        <5> QED
          BY <1>3, <2>2, <5>1
      <4>3. CASE sent[i].type \in KnownTypes
        <5> DEFINE e == Taken(i, Capped(sent[i]), itemSlot')
        <5>1. heard' = Append(heard, e)
          BY <4>1, <4>3, DownReads DEF HandleLine
        <5>2. e.line = i /\ MustArrive(i)
          BY <4>2, <4>3 DEF Taken, MustArrive
        <5> HIDE DEF e
        <5>3. Order(Got', v)
          BY <1>13, <4>1, <5>1, <5>2 DEF Got
        <5> QED
          BY <4>1, <5>3 DEF KeptBehind
      <4>4. CASE sent[i].type \notin KnownTypes
        <5>1. heard' = heard /\ ~MustArrive(i)
          BY <3>6, <4>1, <4>4 DEF HandleLine, MustArrive
        <5> QED
          BY <1>12, <4>1, <5>1 DEF Got, KeptBehind
      <4> QED
        BY <4>3, <4>4
    <3>7. CASE way = "up"
      <4> DEFINE e == Taken(i, sent[i].rows, itemSlot)
      <4>1. /\ e.line = i /\ MustArrive(i) /\ greeted' = greeted /\ way' = way
            /\ IF greeted \/ (heard = <<>> /\ sent[i].type = "hello")
               THEN heard' = Append(heard, e) /\ leftover' = leftover
               ELSE leftover' = Append(leftover, e) /\ heard' = heard
        BY <1>7, <3>3, <3>7 DEF HearLine, Taken, MustArrive
      <4> HIDE DEF e
      <4>2. CASE greeted \/ (heard = <<>> /\ sent[i].type = "hello")
        <5>1. leftover = <<>> /\ heard' = Append(heard, e) /\ leftover' = leftover
          BY <3>5, <4>1, <4>2 DEF KeptBehind
        <5>2. Order(Got', v)
          BY <1>13, <4>1, <5>1 DEF Got
        <5> QED
          BY <5>1, <5>2 DEF KeptBehind
      <4>3. CASE ~(greeted \/ (heard = <<>> /\ sent[i].type = "hello"))
        <5>1. leftover' = Append(leftover, e) /\ heard' = heard
          BY <4>1, <4>3
        <5>2. Order(Got', v)
          BY <1>13, <4>1, <5>1 DEF Got
        <5>3. ASSUME heard = <<>>
              PROVE  FALSE
          <6>1. leftover = <<>> /\ sent[i].type # "hello"
            BY <3>5, <4>3, <5>3 DEF KeptBehind
          <6>2. Len(Got) = 0
            BY <5>3, <6>1 DEF Got
          <6>3. i # base + 1 /\ base + 1 \in base + 1 .. Len(sent) /\ base \in Nat
            <7>1. (sent[i].type = "hello") = (i = base + 1)
              BY <1>8, <3>7 DEF OrderInv, HelloFirst
            <7> QED
              BY <1>8, <6>1, <7>1, WireUnits
          <6>4. MustArrive(base + 1)
            BY <3>7 DEF MustArrive
          <6>5. PICK k \in 1 .. Len(Bytes) : Bytes[k] = Newline(base + 1)
            BY <1>6, <6>2, <6>3, <6>4 DEF Order
          <6>6. IsNewline(Bytes[k]) /\ Bytes[k][1] = base + 1
            BY <6>5 DEF IsNewline, Newline
          <6>7. k # nl
            BY <1>3, <6>3, <6>6 DEF Newline
          <6>8. k \in nl + 1 .. Len(Bytes)
            BY <1>3, <1>5, <1>6, <1>11, <6>5, <6>6, <6>7
          <6>9. i < base + 1
            BY <1>10, <6>6, <6>8
          <6> QED
            BY <1>8, <6>3, <6>9
        <5> QED
          BY <3>7, <4>1, <4>3, <5>1, <5>2, <5>3 DEF KeptBehind
      <4> QED
        BY <4>2, <4>3
    <3> QED
      BY <3>4, <3>6, <3>7
  <2> QED
    BY <2>1, <2>2
<1>15. BufFits'
  <2>1. Len(Rest(buf, nl)) = Len(buf) - nl /\ Len(buf) \in Nat /\ nl \in Nat
    <3>1. buf \in Seq(FreshUnits) /\ Len(buf) \in Nat /\ nl + 1 \in Int /\ nl \in Nat /\ nl <= Len(buf)
      BY <1>3, WireUnits DEF LineInv
    <3>2. \A k \in 1 .. Len(buf) : buf[k] \in FreshUnits
      BY <3>1, ElementOfSeq
    <3> QED
      BY <3>1, <3>2, SubSeqProperties DEF Rest
  <2> QED
    BY <1>1, <2>1 DEF PopLine, BufFits, OrderInv
<1> QED
  BY <1>7, <1>9, <1>14, <1>15, OrderMoves

\* What was kept is behind what was taken before.
LEMMA OrderRegisters == LineInv /\ OrderInv /\ Register => OrderInv'
<1> SUFFICES ASSUME LineInv, OrderInv, Register
             PROVE  OrderInv'
  OBVIOUS
<1>1. Got' = Got
  <2>1. heard \o leftover \in Seq(OwnWhole)
    BY ConcatProperties DEF LineInv
  <2>2. Got' = (heard \o leftover) \o <<>>
    BY DEF Got, Register
  <2> QED
    BY <2>1, <2>2, ConcatEmptySeq DEF Got
<1>2. Bytes' = Bytes /\ UNCHANGED <<way, sent, base>>
  BY DEF Bytes, Register
<1>3. BufFits' /\ KeptBehind' /\ LinesInWire(Bytes) /\ Order(Got, Bytes)
  BY DEF OrderInv, BufFits, KeptBehind, Register
<1> QED
  BY <1>1, <1>2, <1>3, OrderMoves

\* The next connection starts with nothing.
LEMMA OrderRedials == LineInv /\ OrderInv /\ Redial => OrderInv'
<1> SUFFICES ASSUME LineInv, OrderInv, Redial
             PROVE  OrderInv'
  OBVIOUS
<1>1. base' = Len(sent') /\ Len(sent') \in Nat /\ sent' = sent /\ Len(buf') = 0
  BY WireUnits DEF Redial
<1>2. Len(Bytes') = 0 /\ Len(Got') = 0
  BY DEF Redial, Bytes, Got
<1>3. SizesFit' /\ HelloFirst' /\ BufFits' /\ KeptBehind'
  BY <1>1, LineProtocolAssumption DEF OrderInv, SizesFit, HelloFirst, BufFits, KeptBehind, Redial
<1>4. LinesInWire(Bytes)' /\ Order(Got, Bytes)'
  BY <1>1, <1>2 DEF LinesInWire, Order
<1> QED
  BY <1>3, <1>4 DEF OrderInv

\* The next line joins the wire.
LEMMA WireJoins ==
  ASSUME LineInv, NEW m \in Spoken, m.size <= LineCap, Put(m, UnitsOf(Len(sent) + 1, m))
  PROVE  /\ m.size \in 1 .. LineCap /\ Len(sent) \in Nat /\ Len(Bytes) \in Nat
         /\ way' = way /\ base' = base /\ sent'[Len(sent) + 1] = m /\ Len(sent') = Len(sent) + 1
         /\ \A l \in 1 .. Len(sent) : sent'[l] = sent[l]
         /\ Joins(Bytes, Len(sent) + 1, m.size, Bytes')
<1> USE LineProtocolAssumption
<1> DEFINE i == Len(sent) + 1
           z == m.size
           n == Len(Bytes)
           line == UnitsOf(i, m)
<1>1. /\ z \in 1 .. LineCap /\ Len(sent) \in Nat /\ i \in Nat /\ n \in Nat
      /\ sent \in Seq(Spoken) /\ base \in Nat
  <2>1. z \in 1 .. LineCap
    BY DownFacts, UpFacts DEF Spoken
  <2>2. Len(sent) \in Nat /\ n \in Nat /\ base \in Nat
    BY WireUnits
  <2>3. sent \in Seq(Spoken)
    BY DEF LineInv
  <2> QED
    BY <2>1, <2>2, <2>3
<1>2. /\ sent' = Append(sent, m) /\ way' = way /\ base' = base /\ sent'[i] = m /\ Len(sent') = i
      /\ \A l \in 1 .. Len(sent) : sent'[l] = sent[l]
  BY <1>1, AppendProperties DEF Put
<1>3. /\ Len(line) = z + 1 /\ line[z + 1] = Newline(i) /\ \A l \in 1 .. z : line[l] = <<i, l>>
  <2>1. BodyOf(i, m) \in Seq(Nat \X Nat) /\ Len(BodyOf(i, m)) = z
    BY <1>1 DEF BodyOf
  <2>2. \A l \in 1 .. z : BodyOf(i, m)[l] = <<i, l>>
    BY <1>1 DEF BodyOf
  <2>3. Newline(i) \in Nat \X Nat
    BY <1>1 DEF Newline
  <2>4. PICK b, u : b = BodyOf(i, m) /\ u = Newline(i)
    OBVIOUS
  <2>5. line = Append(b, u)
    BY <2>4 DEF UnitsOf
  <2> DEFINE Pairs == Nat \X Nat
  <2>6. b \in Seq(Pairs) /\ Len(b) = z /\ u \in Pairs /\ z \in Nat
    BY <1>1, <2>1, <2>3, <2>4
  <2> HIDE DEF line, i, z, Pairs
  <2>7. Len(line) = z + 1 /\ line[z + 1] = u /\ \A l \in 1 .. z : line[l] = b[l]
    BY <2>5, <2>6, AppendProperties
  <2> QED
    BY <2>2, <2>4, <2>7
<1>4. PICK w : w = Bytes'
  OBVIOUS
<1>5. /\ Len(w) = n + z + 1
      /\ \A k \in 1 .. n : w[k] = Bytes[k]
      /\ \A l \in 1 .. z : w[n + l] = <<i, l>>
      /\ w[n + z + 1] = Newline(i)
  <2> DEFINE Pairs == Nat \X Nat
  <2>1. /\ Bytes \in Seq(Pairs) /\ buf \in Seq(Pairs)
        /\ stream \in Seq(Pairs) /\ line \in Seq(Pairs)
    <3>1. FreshUnits \subseteq Pairs
      BY <1>1 DEF FreshUnits
    <3>2. (base + 1 .. Len(sent) + 1) \X (0 .. LineCap) \subseteq Pairs
      BY <1>1
    <3>3. line \in Seq((base + 1 .. Len(sent) + 1) \X (0 .. LineCap))
      BY LineOfMessage
    <3>4. Bytes \in Seq(FreshUnits) /\ buf \in Seq(FreshUnits) /\ stream \in Seq(FreshUnits)
      BY WireUnits DEF LineInv
    <3> HIDE DEF line
    <3> QED
      BY <3>1, <3>2, <3>3, <3>4, SeqMonotonic
  <2> HIDE DEF line, i, z, Pairs
  <2>2. w = buf \o (stream \o UnitsOf(Len(sent) + 1, m))
    BY <1>4 DEF Bytes, Put
  <2>3. w = Bytes \o line
    <3>1. (buf \o stream) \o line = buf \o (stream \o line)
      BY <2>1, ConcatAssociative
    <3>2. w = buf \o (stream \o line)
      BY <2>2 DEF line, i
    <3> QED
      BY <3>1, <3>2 DEF Bytes
  <2>4. /\ Len(w) = n + Len(line)
        /\ \A k \in 1 .. n + Len(line) : w[k] = IF k <= n THEN Bytes[k] ELSE line[k - n]
    BY <2>1, <2>3, ConcatProperties
  <2> HIDE DEF n
  <2>5. /\ Len(w) = n + z + 1
        /\ \A k \in 1 .. n : k \in 1 .. n + Len(line) /\ k <= n
        /\ \A l \in 1 .. z + 1 : n + l \in 1 .. n + Len(line) /\ ~(n + l <= n) /\ (n + l) - n = l
    BY <1>1, <1>3, <2>4
  <2>6. \A l \in 1 .. z + 1 : w[n + l] = line[l]
    BY <2>4, <2>5
  <2>7. \A l \in 1 .. z : l \in 1 .. z + 1
    BY <1>1
  <2>8. z + 1 \in 1 .. z + 1 /\ n + (z + 1) = n + z + 1
    BY <1>1
  <2> QED
    BY <1>3, <2>4, <2>5, <2>6, <2>7, <2>8
<1> QED
  BY <1>1, <1>2, <1>4, <1>5 DEF Joins

\* A line of the next number is behind all that is on the wire.
LEMMA LineJoins ==
  ASSUME LineInv, OrderInv, NEW m \in Spoken, m.size <= LineCap, Put(m, UnitsOf(Len(sent) + 1, m))
  PROVE  LinesInWire(Bytes)'
<1> USE LineProtocolAssumption
<1>0. PICK i, z, n, w : i = Len(sent) + 1 /\ z = m.size /\ n = Len(Bytes) /\ w = Bytes'
  OBVIOUS
<1>10. Joins(Bytes, i, z, w)
  BY <1>0, WireJoins
<1>1. z \in 1 .. LineCap /\ Len(sent) \in Nat /\ i \in Nat /\ n \in Nat
  BY <1>0, WireJoins
<1>2. way' = way /\ sent'[i] = m /\ \A l \in 1 .. Len(sent) : sent'[l] = sent[l]
  BY <1>0, WireJoins
<1>5. /\ Len(w) = n + z + 1
      /\ \A k \in 1 .. n : w[k] = Bytes[k]
      /\ \A l \in 1 .. z : w[n + l] = <<i, l>>
      /\ w[n + z + 1] = Newline(i)
  BY <1>0, <1>10 DEF Joins
<1>6. /\ \A k \in 1 .. n : /\ Bytes[k][1] \in 1 .. Len(sent) /\ Bytes[k][2] \in 0 .. LineCap
                           /\ Bytes[k] = <<Bytes[k][1], Bytes[k][2]>>
      /\ LinesInWire(Bytes)
  BY <1>0, WireUnits DEF OrderInv
<1>7. i = Len(sent) + 1 /\ n = Len(Bytes) /\ z = m.size
  BY <1>0
<1> SUFFICES ASSUME NEW k \in 1 .. Len(w)
             PROVE  IF IsNewline(w[k]) THEN EndsLine(w, k)' ELSE InLine(w, k)'
  BY <1>0 DEF LinesInWire, EndsLine, InLine
<1>8. CASE k <= n
  <2>1. k \in 1 .. n /\ w[k] = Bytes[k]
    BY <1>1, <1>5, <1>8
  <2>2. sent'[w[k][1]] = sent[w[k][1]]
    BY <1>2, <1>6, <2>1
  <2>3. \A l \in 1 .. n : l \in 1 .. Len(w) /\ w[l] = Bytes[l]
    BY <1>1, <1>5
  <2>4. ASSUME ~IsNewline(w[k])
        PROVE  InLine(w, k)'
    <3>1. InLine(Bytes, k)
      BY <1>6, <1>7, <2>1, <2>4 DEF LinesInWire
    <3> QED
      BY <1>7, <2>1, <2>2, <2>3, <3>1 DEF InLine
  <2>5. ASSUME IsNewline(w[k])
        PROVE  EndsLine(w, k)'
    <3>1. EndsLine(Bytes, k)
      BY <1>6, <1>7, <2>1, <2>5 DEF LinesInWire
    <3>2. k = 1 \/ (k - 1 \in 1 .. n /\ w[k - 1] = Bytes[k - 1])
      BY <1>1, <2>1, <2>3
    <3>3. \A l \in k + 1 .. Len(w) : w[k][1] < w[l][1]
      <4> TAKE l \in k + 1 .. Len(w)
      <4>1. CASE l <= n
        <5>1. l \in 1 .. n /\ l \in k + 1 .. Len(Bytes)
          BY <1>1, <1>7, <2>1, <4>1
        <5> QED
          BY <2>1, <2>3, <3>1, <5>1 DEF EndsLine
      <4>2. CASE ~(l <= n)
        <5>1. l - n \in 1 .. z + 1 /\ n + (l - n) = l
          BY <1>1, <1>5, <2>1, <4>2
        <5>2. l - n \in 1 .. z \/ l = n + z + 1
          BY <1>1, <5>1
        <5>3. w[l] = <<i, l - n>> \/ w[l] = <<i, 0>>
          BY <1>5, <5>1, <5>2 DEF Newline
        <5>4. w[l][1] = i
          BY <5>3
        <5> QED
          BY <1>1, <1>6, <1>7, <2>1, <5>4
      <4> QED
        BY <4>1, <4>2
    <3> QED
      BY <1>2, <2>1, <2>2, <3>1, <3>2, <3>3 DEF EndsLine
  <2> QED
    BY <2>4, <2>5
<1>9. CASE ~(k <= n)
  <2>1. k - n \in 1 .. z + 1 /\ n + (k - n) = k /\ k \in Nat
    BY <1>1, <1>5, <1>9
  <2>2. CASE k - n \in 1 .. z
    <3>1. w[k] = <<i, k - n>> /\ ~IsNewline(w[k])
      BY <1>1, <1>5, <2>1, <2>2 DEF IsNewline
    <3>2. w[k][1] = i /\ w[k][2] = k - n /\ sent'[w[k][1]].size = z /\ k - (k - n) = n
      <4>1. w[k][1] = i /\ w[k][2] = k - n
        BY <3>1
      <4>2. sent'[i].size = z
        BY <1>2, <1>7
      <4> QED
        BY <1>1, <2>1, <4>1, <4>2
    <3>3. \A l \in 1 .. z : n + l \in 1 .. Len(w)
      BY <1>1, <1>5
    <3>4. n + z + 1 \in 1 .. Len(w) /\ k - n <= z
      BY <1>1, <1>5, <2>2
    <3>5. InLine(w, k)'
      BY <1>5, <3>2, <3>3, <3>4 DEF InLine
    <3> QED
      BY <3>1, <3>5
  <2>3. CASE k = n + z + 1
    <3>1. w[k] = Newline(i) /\ IsNewline(w[k]) /\ w[k][1] = i
      BY <1>5, <2>3 DEF IsNewline, Newline
    <3>2. sent'[w[k][1]].size = z
      BY <1>2, <1>7, <3>1
    <3>3. k # 1 /\ k - 1 = n + z /\ z \in 1 .. z
      BY <1>1, <2>3
    <3>4. w[k - 1] = <<i, z>>
      BY <1>5, <3>3
    <3>5. ~\E l \in k + 1 .. Len(w) : TRUE
      BY <1>1, <1>5, <2>3
    <3>6. EndsLine(w, k)'
      BY <3>1, <3>2, <3>3, <3>4, <3>5 DEF EndsLine
    <3> QED
      BY <3>1, <3>6
  <2> QED
    BY <1>1, <2>1, <2>2, <2>3
<1> QED
  BY <1>8, <1>9

\* The line is due, or is none that anybody waits for.
LEMMA OrderPuts ==
  ASSUME LineInv, OrderInv, NEW m \in Spoken, m.size <= LineCap, Put(m, UnitsOf(Len(sent) + 1, m)),
         way = "up" => (m.type = "hello") = (Len(sent) = base)
  PROVE  OrderInv'
<1>0. PICK i, z, n, w : i = Len(sent) + 1 /\ z = m.size /\ n = Len(Bytes) /\ w = Bytes'
  OBVIOUS
<1>1. /\ z \in 1 .. LineCap /\ Len(sent) \in Nat /\ i \in Nat /\ n \in Nat
      /\ way' = way /\ base' = base /\ sent'[i] = m /\ Len(sent') = i
      /\ \A l \in 1 .. Len(sent) : sent'[l] = sent[l]
  BY <1>0, WireJoins
<1>10. Joins(Bytes, i, z, w)
  BY <1>0, WireJoins
<1>2. /\ Len(w) = n + z + 1
      /\ \A k \in 1 .. n : w[k] = Bytes[k]
      /\ \A l \in 1 .. z : w[n + l] = <<i, l>>
      /\ w[n + z + 1] = Newline(i)
  BY <1>0, <1>10 DEF Joins
<1>3. base \in Nat /\ base <= Len(sent)
  BY WireUnits
<1>4. SizesFit' /\ HelloFirst' /\ BufFits' /\ KeptBehind'
  <2>1. \A l \in 1 .. Len(sent') : l = i \/ l \in 1 .. Len(sent)
    BY <1>0, <1>1
  <2>2. SizesFit'
    BY <1>0, <1>1, <2>1 DEF OrderInv, SizesFit
  <2>3. HelloFirst'
    <3> SUFFICES ASSUME way = "up", NEW l \in base + 1 .. i
                 PROVE  (sent'[l].type = "hello") = (l = base + 1)
      BY <1>1 DEF HelloFirst
    <3>1. CASE l = i
      BY <1>0, <1>1, <1>3, <3>1
    <3>2. CASE l \in base + 1 .. Len(sent) /\ l \in 1 .. Len(sent)
      BY <1>1, <3>2 DEF OrderInv, HelloFirst
    <3> QED
      BY <1>0, <1>1, <1>3, <3>1, <3>2
  <2> QED
    BY <2>2, <2>3 DEF OrderInv, BufFits, KeptBehind, Put
<1>5. Order(Got, Bytes)'
  <2>1. Got' = Got
    BY DEF Got, Put
  <2>2. \A l \in 1 .. Len(sent) : MustArrive(l)' = MustArrive(l)
    BY <1>1 DEF MustArrive
  <2>3. \A j \in 1 .. Len(Got) : Got[j].line \in 1 .. Len(sent)
    <3>1. heard \in Seq(OwnWhole) /\ leftover \in Seq(OwnWhole)
      BY DEF LineInv
    <3>2. Got \in Seq(OwnWhole)
      BY <3>1, ConcatProperties DEF Got
    <3>3. \A j \in 1 .. Len(Got) : Got[j] \in OwnWhole
      BY <3>2, ElementOfSeq
    <3> QED
      BY <1>3, <3>3, WireUnits DEF OwnWhole
  <2>4. Order(Got, Bytes)
    BY DEF OrderInv
  <2>5. ASSUME NEW j \in 1 .. Len(Got)
        PROVE  MustArrive(Got[j].line)' /\ \A k \in 1 .. Len(w) : Got[j].line < w[k][1]
    <3>1. MustArrive(Got[j].line)'
      <4>1. PICK l \in 1 .. Len(sent) : l = Got[j].line
        BY <2>3
      <4>2. MustArrive(l)
        BY <2>4, <4>1 DEF Order
      <4>3. MustArrive(l)'
        BY <2>2, <4>2
      <4> QED
        BY <2>1, <4>1, <4>3 DEF MustArrive
    <3>2. ASSUME NEW k \in 1 .. Len(w)
          PROVE  Got[j].line < w[k][1]
      <4>1. CASE k \in 1 .. n
        BY <1>0, <1>2, <2>4, <4>1 DEF Order
      <4>2. CASE k \notin 1 .. n
        <5>1. k - n \in 1 .. z \/ k = n + z + 1
          BY <1>1, <1>2, <4>2
        <5>2. n + (k - n) = k
          BY <1>1
        <5>3. w[k][1] = i
          BY <1>2, <5>1, <5>2 DEF Newline
        <5> QED
          BY <1>0, <1>1, <2>3, <5>3
      <4> QED
        BY <4>1, <4>2
    <3> QED
      BY <3>1, <3>2
  <2>6. ASSUME NEW l \in base + 1 .. i, MustArrive(l)'
        PROVE  \/ \E k \in 1 .. Len(Got) : Got[k].line = l
               \/ \E k \in 1 .. Len(w) : w[k] = Newline(l)
    <3>1. CASE l = i
      <4>1. n + z + 1 \in 1 .. Len(w)
        BY <1>1, <1>2
      <4> QED
        BY <1>2, <3>1, <4>1
    <3>2. CASE l # i
      <4>1. l \in base + 1 .. Len(sent) /\ l \in 1 .. Len(sent)
        BY <1>0, <1>1, <1>3, <3>2
      <4>2. MustArrive(l)
        BY <2>2, <2>6, <4>1
      <4>3. \/ \E k \in 1 .. Len(Got) : Got[k].line = l
            \/ \E k \in 1 .. n : Bytes[k] = Newline(l)
        BY <1>0, <2>4, <4>1, <4>2 DEF Order
      <4>4. \A k \in 1 .. n : k \in 1 .. Len(w)
        BY <1>1, <1>2
      <4> QED
        BY <1>2, <4>3, <4>4
    <3> QED
      BY <3>1, <3>2
  <2> QED
    BY <1>0, <1>1, <2>1, <2>4, <2>5, <2>6 DEF Order
<1>6. LinesInWire(Bytes)'
  BY LineJoins
<1> QED
  BY <1>4, <1>5, <1>6 DEF OrderInv

\* A line is written: the bridge writes none that is too long, the Switch has none.
LEMMA OrderWrites == LineInv /\ OrderInv /\ (WriteDown \/ WriteUp) => OrderInv'
<1>1. ASSUME LineInv, OrderInv, WriteDown
      PROVE  OrderInv'
  <2>1. PICK m \in Down : m.size <= LineCap /\ Put(m, UnitsOf(Len(sent) + 1, m)) /\ way = "down"
    BY <1>1 DEF WriteDown
  <2>2. m \in Spoken
    BY <2>1 DEF Spoken
  <2> QED
    BY <1>1, <2>1, <2>2, OrderPuts
<1>2. ASSUME LineInv, OrderInv, WriteUp
      PROVE  OrderInv'
  <2>1. PICK m \in Up : /\ (m.type = "hello") = (Len(sent) = base) /\ way = "up"
                        /\ Put(m, BoundedLine(Len(sent) + 1, m))
    BY <1>2 DEF WriteUp
  <2>2. m \in Spoken /\ m.size \in 1 .. 2 /\ m.size < LineCap
    BY <2>1, UpFacts, LineProtocolAssumption DEF Spoken
  <2>3. UnitsOf(Len(sent) + 1, m) \in Seq((base + 1 .. Len(sent) + 1) \X (0 .. LineCap))
    BY <1>2, <2>2, LineOfMessage, LineProtocolAssumption
  <2>4. Len(UnitsOf(Len(sent) + 1, m)) = m.size + 1
    <3>1. BodyOf(Len(sent) + 1, m) \in Seq({<<Len(sent) + 1, k>> : k \in Nat}) /\ Len(BodyOf(Len(sent) + 1, m)) = m.size
      BY <2>2 DEF BodyOf
    <3>2. Newline(Len(sent) + 1) \in {<<Len(sent) + 1, k>> : k \in Nat}
      BY DEF Newline
    <3> QED
      BY <3>1, <3>2, AppendProperties DEF UnitsOf
  <2>5. BoundedLine(Len(sent) + 1, m) = UnitsOf(Len(sent) + 1, m)
    BY <2>2, <2>3, <2>4, SubSeqFull DEF BoundedLine
  <2> QED
    BY <1>2, <2>1, <2>2, <2>5, OrderPuts, LineProtocolAssumption
<1> QED
  BY <1>1, <1>2

\* Every step keeps the order.
LEMMA OrderNext == LineInv /\ OrderInv /\ [LineNext]_protoVars => OrderInv'
<1>1. ASSUME LineInv, OrderInv, LineNext
      PROVE  OrderInv'
  BY <1>1, OrderWrites, OrderReceives, OrderResyncs, OrderPops, OrderRegisters, OrderRedials DEF LineNext
<1>2. ASSUME OrderInv, UNCHANGED protoVars
      PROVE  OrderInv'
  <2>1. UNCHANGED <<way, sent, base>> /\ Got' = Got /\ Bytes' = Bytes /\ BufFits' /\ KeptBehind'
    BY <1>2 DEF protoVars, Got, Bytes, OrderInv, BufFits, KeptBehind
  <2> QED
    BY <1>2, <2>1, OrderMoves DEF OrderInv
<1> QED
  BY <1>1, <1>2

\* What the invariant says of what was taken and what is under way.
LEMMA InvLines == LineInv /\ OrderInv => LinesExact
<1> SUFFICES ASSUME LineInv, OrderInv
             PROVE  LinesExact
  OBVIOUS
<1> DEFINE gotLines   == {Got[k].line : k \in DOMAIN Got}
           dueLines     == {i \in base + 1..Len(sent) : MustArrive(i)}
           wireLines == {i \in dueLines : UnderWay(i)}
<1>1. /\ heard \in Seq(OwnWhole) /\ leftover \in Seq(OwnWhole) /\ buf \in Seq(FreshUnits)
      /\ stream \in Seq(FreshUnits)
  BY DEF LineInv
<1>2. Got \in Seq(OwnWhole) /\ DOMAIN Got = 1 .. Len(Got) /\ \A k \in 1 .. Len(Got) : Got[k] \in OwnWhole
  <2>1. Got \in Seq(OwnWhole)
    BY <1>1, ConcatProperties DEF Got
  <2> QED
    BY <2>1, LenProperties, ElementOfSeq
<1>3. Order(Got, Bytes)
  BY DEF OrderInv
<1>4. \A i : UnderWay(i) <=> \E k \in 1 .. Len(Bytes) : Bytes[k] = Newline(i)
  <2> TAKE i
  <2>1. /\ DOMAIN buf = 1 .. Len(buf) /\ DOMAIN stream = 1 .. Len(stream)
        /\ Len(buf) \in Nat /\ Len(stream) \in Nat
    BY <1>1, LenProperties
  <2>2. /\ Len(Bytes) = Len(buf) + Len(stream)
        /\ \A k \in 1 .. Len(Bytes) : Bytes[k] = IF k <= Len(buf) THEN buf[k] ELSE stream[k - Len(buf)]
    BY WireUnits
  <2>3. ASSUME NEW k \in 1 .. Len(buf), buf[k] = Newline(i)
        PROVE  \E l \in 1 .. Len(Bytes) : Bytes[l] = Newline(i)
    <3>1. k \in 1 .. Len(Bytes) /\ Bytes[k] = buf[k]
      BY <2>1, <2>2
    <3> QED
      BY <2>3, <3>1
  <2>4. ASSUME NEW k \in 1 .. Len(stream), stream[k] = Newline(i)
        PROVE  \E l \in 1 .. Len(Bytes) : Bytes[l] = Newline(i)
    <3>1. k + Len(buf) \in 1 .. Len(Bytes) /\ ~(k + Len(buf) <= Len(buf)) /\ (k + Len(buf)) - Len(buf) = k
      BY <2>1, <2>2
    <3>2. Bytes[k + Len(buf)] = stream[k]
      BY <2>2, <3>1
    <3> QED
      BY <2>4, <3>1, <3>2
  <2>5. ASSUME NEW k \in 1 .. Len(Bytes), Bytes[k] = Newline(i)
        PROVE  (\E l \in 1 .. Len(buf) : buf[l] = Newline(i)) \/ (\E l \in 1 .. Len(stream) : stream[l] = Newline(i))
    <3>1. CASE k <= Len(buf)
      BY <2>1, <2>2, <2>5, <3>1
    <3>2. CASE ~(k <= Len(buf))
      <4>1. k - Len(buf) \in 1 .. Len(stream)
        BY <2>1, <2>2, <3>2
      <4> QED
        BY <2>2, <2>5, <3>2, <4>1
    <3> QED
      BY <3>1, <3>2
  <2>6. UnderWay(i) <=> \/ \E l \in 1 .. Len(buf) : buf[l] = Newline(i)
                        \/ \E l \in 1 .. Len(stream) : stream[l] = Newline(i)
    BY <2>1 DEF UnderWay
  <2> QED
    BY <2>3, <2>4, <2>5, <2>6
<1>5. \A j, k \in DOMAIN Got : j < k => Got[j].line < Got[k].line
  BY <1>2, <1>3 DEF Order
<1>6. gotLines \subseteq dueLines
  <2>1. \A k \in 1 .. Len(Got) : Got[k].line \in base + 1 .. Len(sent)
    BY <1>2 DEF OwnWhole
  <2> QED
    BY <1>2, <1>3, <2>1 DEF Order
<1>7. dueLines \subseteq gotLines \cup wireLines
  BY <1>2, <1>3, <1>4 DEF Order
<1>8. \A i \in gotLines, j \in wireLines : i < j
  <2> SUFFICES ASSUME NEW k \in 1 .. Len(Got), NEW j \in wireLines
               PROVE  Got[k].line < j
    BY <1>2
  <2>1. PICK l \in 1 .. Len(Bytes) : Bytes[l] = Newline(j)
    BY <1>4
  <2> QED
    BY <1>3, <2>1 DEF Order, Newline
<1>9. \A k \in DOMAIN heard : Intact(heard[k])
  <2>1. DOMAIN heard = 1 .. Len(heard) /\ \A k \in 1 .. Len(heard) : heard[k] \in OwnWhole
    BY <1>1, LenProperties, ElementOfSeq
  <2> QED
    BY <2>1 DEF OwnWhole
<1>10. gotLines \cup wireLines = dueLines
  BY <1>6, <1>7
<1> QED
  BY <1>5, <1>8, <1>9, <1>10 DEF LinesExact, Got

\* However TCP cuts and joins the bytes, for any limit, number of lines and lost connections:
\* the messages of this connection are taken in order, none twice, none left out but those
\* still under way (recvIntoBuf and popLine of ApClient.cpp, iter_lines, _handle_client).
THEOREM LinesComeInOrder == LineSpec => []LinesExact
<1>1. LineInit => LineInv /\ OrderInv
  BY LineInitInv, OrderInitial
<1>2. LineInv /\ OrderInv /\ [LineNext]_protoVars => (LineInv /\ OrderInv)'
  BY LineNextInv, OrderNext
<1> QED
  BY <1>1, <1>2, InvLines, PTL DEF LineSpec

=============================================================================
