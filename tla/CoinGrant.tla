-------------------------------- MODULE CoinGrant --------------------------------
(***************************************************************************)
(* The coins for moons of the Cap Kingdom and for second copies of         *)
(* captures and abilities.  The client counts all that were ever due to    *)
(* the slot (state.py) and sends the sum with each of them and after a     *)
(* hello (context.py, switch_server.py); the worker keeps the last sum it  *)
(* got (ApClient.cpp); the frame thread adds what is above coins_applied   *)
(* to the save that is loaded (ApState.cpp).  coins_applied is not part of *)
(* the save: a restart of the game forgets it, a load does not.            *)
(***************************************************************************)
EXTENDS Naturals, Sequences

CONSTANTS
  MaxCoins,    \* bound: units of 100 coins due
  MaxJolts     \* bound: connections lost, loads, restarts of the game, other slots joined

ASSUME CoinGrantAssumption == MaxCoins \in Nat /\ MaxJolts \in Nat

VARIABLES
  due100,        \* compute_total_coin_grant
  pushDue,       \* a batch of items, or a hello, whose push is yet to come
  coinLink, coinLines,
  offered,       \* pending_coin_grant_total
  coinsApplied,
  holder,        \* game_data_holder_cache is set
  found,         \* main.nso has addCoin
  coinPurse, coinSave,  \* coins of these in the game, in its save file
  \* ---- history ----
  given,         \* coins added since the game started
  most,          \* the most that was ever due
  rejoined,      \* another slot was joined
  regranted,     \* the game was started anew
  jolts

pcCoins   == <<due100, pushDue>>
lineCoins == <<coinLink, coinLines>>
gameCoins == <<offered, coinsApplied, holder, found, coinPurse, coinSave>>
coinMarks == <<given, most, rejoined, regranted, jolts>>
coinVars  == <<pcCoins, lineCoins, gameCoins, coinMarks>>

Jolt == jolts < MaxJolts /\ jolts' = jolts + 1

CoinInit ==
  /\ due100 = 0 /\ pushDue = FALSE /\ coinLink = FALSE /\ coinLines = <<>>
  /\ offered = 0 /\ coinsApplied = 0 /\ holder = FALSE /\ found \in BOOLEAN
  /\ coinPurse = 0 /\ coinSave = 0
  /\ given = 0 /\ most = 0 /\ rejoined = FALSE /\ regranted = FALSE /\ jolts = 0

\* The sum with one more of them: a moon, or a second copy.
TotalWith(n) == due100 + n

\* ReceivedItems: the items are counted one by one, the push follows them.
ItemsArrive(n) ==
  /\ TotalWith(n) <= MaxCoins
  /\ due100' = TotalWith(n) /\ pushDue' = TRUE
  /\ most' = IF most < due100' THEN due100' ELSE most
  /\ UNCHANGED <<lineCoins, gameCoins, given, rejoined, regranted, jolts>>

\* push_coin_grant, to the Switch that is active now, or to none.
PushCoinGrant ==
  /\ pushDue /\ pushDue' = FALSE
  /\ coinLines' = IF coinLink /\ due100 > 0 THEN Append(coinLines, due100) ELSE coinLines
  /\ UNCHANGED <<due100, coinLink, gameCoins, coinMarks>>

\* clear_received; the counts of captures are not cleared.
JoinOtherSlot ==
  /\ Jolt /\ due100' \in 0 .. due100 /\ rejoined' = TRUE
  /\ UNCHANGED <<pushDue, lineCoins, gameCoins, given, most, regranted>>

\* The worker: coin_grant.
StoreGrant ==
  /\ coinLines # <<>> /\ coinLines' = Tail(coinLines) /\ offered' = Head(coinLines)
  /\ UNCHANGED <<pcCoins, coinLink, coinsApplied, holder, found, coinPurse, coinSave,
                 coinMarks>>

\* The frame: the holder is known as soon as there is a sequence.
CacheHolder ==
  /\ ~holder /\ holder' = TRUE
  /\ UNCHANGED <<pcCoins, lineCoins, offered, coinsApplied, found, coinPurse, coinSave,
                 coinMarks>>

AddCoins(n) ==
  /\ coinsApplied' = offered
  /\ IF found THEN coinPurse' = coinPurse + n /\ given' = given + n ELSE UNCHANGED <<coinPurse, given>>
  /\ UNCHANGED <<pcCoins, lineCoins, offered, holder, found, coinSave, most, rejoined,
                 regranted, jolts>>

\* Adds the sum itself.
ApplyWholeGrant == offered > coinsApplied /\ holder /\ AddCoins(offered)

\* applyCoinGrant
ApplyCoinGrant == offered > coinsApplied /\ holder /\ AddCoins(offered - coinsApplied)

SaveCoins ==
  /\ coinSave # coinPurse /\ coinSave' = coinPurse
  /\ UNCHANGED <<pcCoins, lineCoins, offered, coinsApplied, holder, found, coinPurse,
                 coinMarks>>

\* Another save file, or this one as it was saved.
LoadCoins ==
  /\ holder /\ Jolt /\ coinPurse' \in {0, coinSave} /\ coinSave' = coinPurse'
  /\ UNCHANGED <<pcCoins, lineCoins, offered, coinsApplied, holder, found, given, most,
                 rejoined, regranted>>

CoinHello ==
  /\ ~coinLink /\ coinLink' = TRUE /\ pushDue' = TRUE
  /\ UNCHANGED <<due100, coinLines, gameCoins, coinMarks>>

CoinLinkLost ==
  /\ coinLink /\ Jolt /\ coinLink' = FALSE /\ coinLines' = <<>>
  /\ UNCHANGED <<pcCoins, gameCoins, given, most, rejoined, regranted>>

CoinRestart ==
  /\ Jolt /\ coinLink' = FALSE /\ coinLines' = <<>>
  /\ offered' = 0 /\ coinsApplied' = 0 /\ holder' = FALSE
  /\ coinPurse' = coinSave /\ given' = 0 /\ regranted' = TRUE
  /\ UNCHANGED <<pcCoins, found, coinSave, most, rejoined>>

CoinNext ==
  \/ (\E n \in 1 .. MaxCoins : ItemsArrive(n)) \/ PushCoinGrant \/ JoinOtherSlot \/ StoreGrant
  \/ CacheHolder \/ ApplyCoinGrant \/ SaveCoins \/ LoadCoins \/ CoinHello \/ CoinLinkLost
  \/ CoinRestart

CoinSpec == CoinInit /\ [][CoinNext]_coinVars

CoinTypeOK ==
  /\ due100 \in Nat /\ offered \in Nat /\ coinsApplied \in Nat /\ coinLines \in Seq(Nat)
  /\ coinPurse \in Nat /\ coinSave \in Nat /\ given \in Nat /\ most \in Nat /\ jolts \in Nat
  /\ pushDue \in BOOLEAN /\ coinLink \in BOOLEAN /\ holder \in BOOLEAN /\ found \in BOOLEAN
  /\ rejoined \in BOOLEAN /\ regranted \in BOOLEAN

\* A sum sent again gives nothing again, over batches, hellos and lost connections
\* (switch_server.py:618): since the game started no more was added than was ever
\* due, and no save has more, unless the game was started anew in between
\* (coins_applied begins at 0 then).  Once nothing is on its way all that is due to
\* the slot has been added; after another slot, what is above the sum of the last.
CoinsOnce ==
  /\ given <= most
  /\ ~regranted => coinPurse <= most
  /\ coinLink /\ ~pushDue /\ coinLines = <<>> /\ holder /\ offered <= coinsApplied /\ found =>
       IF rejoined THEN given >= due100 ELSE given = due100
=============================================================================
