---------------------------- MODULE LineProtocol ----------------------------
(***************************************************************************)
(* The line protocol of a Switch and the bridge: what each writes as a     *)
(* line of JSON, what is left of it after TCP cut and joined the bytes and *)
(* connections were lost, and what the other makes of it (protocol.py and  *)
(* the reading of switch_server.py; ApProtocol.cpp, Json.cpp and the       *)
(* reading of ApClient.cpp).  A behaviour is about one direction.          *)
(*                                                                         *)
(* A message is its type, the names of its fields, how many rows its table *)
(* has and the names of their fields.  Its size is counted in units of     *)
(* which LineCap are 8 KiB, and a line is on the wire as its units with a  *)
(* newline behind them.  Values, and their cutting to fixed fields, are    *)
(* left out: the modules of the single tables have them.                   *)
(***************************************************************************)
EXTENDS Integers, Sequences, FiniteSetsExt

CONSTANTS
  LineCap,     \* MAX_LINE_BYTES, kMaxLineBytes, LineBuffer::kCap, kInboundLineCap
  MaxUp, MaxDown,   \* bound: lines written in a direction
  MaxCuts      \* bound: connections lost

ASSUME LineProtocolAssumption ==
  LineCap \in Nat \ {0, 1, 2} /\ MaxUp \in Nat /\ MaxDown \in Nat /\ MaxCuts \in Nat

VARIABLES
  way,         \* "up", to the bridge, or "down"
  sent,        \* the messages written so far
  base,        \* how many of them on earlier connections
  stream,      \* what TCP has yet to deliver
  buf,         \* read_buf_, or the bytearray of the handler
  heard,         \* what was taken off this connection
  greeted,     \* the handler is past the registration
  leftover,    \* leftover_msgs
  itemSlot,    \* m.item of the static DecodedMsg: the line each field is from, 0 for none
  lineCuts

protoVars == <<way, sent, base, stream, buf, heard, greeted, leftover, itemSlot, lineCuts>>

-----------------------------------------------------------------------------
(* What is written. *)

Message(type, kind, keys, rows, rowKeys, size) ==
  [type |-> type, kind |-> kind, keys |-> keys, rows |-> rows, rowKeys |-> rowKeys, size |-> size]
Plain(type, keys)               == Message(type, "", keys, 0, {}, 1)
Table(type, keys, rows, rowKeys) == Message(type, "", keys, rows, rowKeys, 2)

\* _send_hello_ack; the two refusals of _policy_check_version add an err.  None is
\* stripped.
Greetings ==
  LET always == {"ok", "seed", "slot", "cap_table_hash", "deathlink_enabled"} IN
  {Plain("hello_ack", always \cup more) : more \in {{}, {"client_ver"}, {"client_ver", "err"}}}

\* to_replay_dict: without the raw names of SMO.  The list has every check the bridge
\* knows of, some 16 bytes for a moon it could not resolve.
Replays ==
  {Message("checked_replay", "", {"ids"}, 100 * size,
           {"kind", "kingdom", "shine_id", "cap", "name"}, size) : size \in 1..LineCap + 1}

\* An item as it is received, as a bonus of a Multi-Moon, and as an unlock without
\* capturesanity: from is empty then, and no name is sent.
Items ==
  {Message("item", kind[1], {"kind", "from"} \cup kind[2], 0, {}, 1) :
     kind \in {<<"moon",    {"name", "kingdom", "shine_id", "classification"}>>,
               <<"capture", {"name", "cap", "hack_name", "classification"}>>,
               <<"capture", {"name", "cap", "hack_name"}>>,
               <<"silent",  {"cap", "hack_name"}>>,
               <<"other",   {"name", "classification"}>>}}

\* send_shine_scouts sends 200 colours at a time.
Notices ==
  {Table("shine_scouts", {"entries"}, 200, {"shine_uid", "palette"}),
   Plain("print", {"text"}), Plain("ap_state", {"conn"}), Plain("pong", {"ts_ms"}),
   Plain("err", {"code", "ctx"}), Plain("kill", {"source", "cause"})}

\* Every kingdom has one row in outstanding.
Balances ==
  {Table("outstanding", {"entries"}, 17, {"kingdom", "count"}),
   Plain("cappy", {"text"}), Plain("kick", {"reason"}), Plain("activate", {})}

\* Eleven shops, 62 moons in the largest kingdom.
Windows ==
  {Table("shop_labels", {"entries"}, 11, {"file", "key", "label"}),
   Table("talkatoo_pool", {"enabled", "kingdom", "moons"}, 62, {}),
   Table("kingdom_gates", {"entries"}, 17, {"kingdom", "gate"})}

\* ENTRANCE_MAP_CHUNK doors at a time.
Rules ==
  {Plain("coin_grant", {"total"}),
   Table("ability_state", {"entries", "enforce"}, 15, {"ability", "count"}),
   Table("entrance_map", {"entries", "reset"}, 48, {"kind", "from", "to_stage", "to_id"}),
   Plain("moon_label", {"text", "seq", "valid_for_ms"})}

\* encodeHello to encodeLog: optional fields are written if they are set.  No device id
\* is ever set.
LiveReports ==
  {Plain("hello", {"mod_ver", "smo_ver", "cap_table_hash"}),
   Plain("check", {"kind", "stage_name", "object_id", "shine_uid", "seq"}),
   Plain("check", {"kind", "hack_name"}),
   Plain("status", {"kingdom", "stage_name"}), Plain("goal", {}), Plain("death", {"ts_ms"}),
   Plain("log", {"level", "msg"})}

\* encodeStateBegin to encodePaySnapshot: a chunk has the moons of a stage, or captures
\* and the goal, each if there are any.
SnapshotReports ==
  {Plain("state_begin", {"mod_ver"}), Plain("state_end", {}),
   Table("state_chunk", {"stage_name", "shines"}, 64, {"object_id", "shine_uid"}),
   Table("state_chunk", {"stage_name", "captures", "goal_reached"}, 64, {}),
   Table("state_chunk", {"stage_name", "goal_reached"}, 0, {}),
   Table("pay_snapshot", {"complete", "entries"}, 17, {"kingdom", "pay"})}

Down == Greetings \cup Replays \cup Items \cup Notices \cup Balances \cup Windows \cup Rules
Up   == LiveReports \cup SnapshotReports

-----------------------------------------------------------------------------
(* What is understood. *)

\* The fields parseHelloAck to parseItem know, of a message and of its rows: any other
\* has the whole message refused.
Known1 ==
  [hello_ack |-> [keys |-> {"ok", "seed", "slot", "cap_table_hash", "deathlink_enabled",
                            "client_ver", "err"}, rowKeys |-> {}],
   checked_replay |-> [keys |-> {"ids"}, rowKeys |-> {"kind", "kingdom", "shine_id", "cap", "name",
                                                      "classification"}],
   item |-> [keys |-> {"kind", "kingdom", "shine_id", "cap", "name", "from", "hack_name",
                       "classification"}, rowKeys |-> {}]]

\* parseShineScouts to parseKill.
Known2 ==
  [shine_scouts |-> [keys |-> {"entries"}, rowKeys |-> {"shine_uid", "palette"}],
   print    |-> [keys |-> {"text"}, rowKeys |-> {}],
   ap_state |-> [keys |-> {"conn"}, rowKeys |-> {}],
   pong     |-> [keys |-> {"ts_ms"}, rowKeys |-> {}],
   err      |-> [keys |-> {"code", "ctx"}, rowKeys |-> {}],
   kill     |-> [keys |-> {"source", "cause"}, rowKeys |-> {}]]

\* parseOutstanding to parseCappy.
Known3 ==
  [outstanding   |-> [keys |-> {"entries", "lake_received_total", "snow_received_total"},
                      rowKeys |-> {"kingdom", "count"}],
   kingdom_gates |-> [keys |-> {"entries"}, rowKeys |-> {"kingdom", "gate"}],
   entrance_map  |-> [keys |-> {"reset", "entries"}, rowKeys |-> {"from", "to_stage", "to_id", "kind"}],
   cappy         |-> [keys |-> {"text"}, rowKeys |-> {}]]

\* parseTalkatooPool to parseAbilityState.
Known4 ==
  [talkatoo_pool |-> [keys |-> {"enabled", "kingdom", "moons"}, rowKeys |-> {}],
   shop_labels   |-> [keys |-> {"entries"}, rowKeys |-> {"file", "key", "label"}],
   moon_label    |-> [keys |-> {"text", "seq", "valid_for_ms"}, rowKeys |-> {}],
   coin_grant    |-> [keys |-> {"total"}, rowKeys |-> {}],
   ability_state |-> [keys |-> {"enforce", "entries"}, rowKeys |-> {"ability", "count"}]]

\* The types decode dispatches on; another is left alone and ignored by handleLine.
Known(type) ==
  CASE type \in DOMAIN Known1 -> Known1[type] [] type \in DOMAIN Known2 -> Known2[type]
    [] type \in DOMAIN Known3 -> Known3[type] [] type \in DOMAIN Known4 -> Known4[type]
KnownTypes == DOMAIN Known1 \cup DOMAIN Known2 \cup DOMAIN Known3 \cup DOMAIN Known4

\* Rows beyond the arrays of the message structs are read and dropped.
EarlyRowCap(type) ==
  CASE type = "checked_replay" -> 128 [] type = "shine_scouts" -> 256
    [] type \in {"outstanding", "kingdom_gates"} -> 17 [] OTHER -> 0
LateRowCap(type) ==
  CASE type = "talkatoo_pool" -> 96 [] type \in {"shop_labels", "ability_state"} -> 32
    [] type = "entrance_map" -> 64 [] OTHER -> 0
RowCap(type) == EarlyRowCap(type) + LateRowCap(type)

ItemFields == {"kind", "kingdom", "shine_id", "cap", "name", "from", "hack_name", "classification"}

\* The fields applyOnFrame and CappyMessenger read of an item of the kind; without a
\* from no bubble is shown.
ReadOf(kind) ==
  {"kind", "from"} \cup
  CASE kind = "moon"    -> {"kingdom", "shine_id", "name"}
    [] kind = "capture" -> {"cap", "hack_name", "name"}
    [] kind = "silent"  -> {"cap", "hack_name"}
    [] OTHER            -> {"name"}

\* What the handlers of the bridge read of a message: the fields of its dataclass the
\* Switch has something for.
HeardOf(m) ==
  CASE m.type = "hello"        -> {"mod_ver", "smo_ver", "cap_table_hash"}
    [] m.type = "check"        -> IF "hack_name" \in m.keys THEN {"kind"}
                                  ELSE {"kind", "stage_name", "object_id", "shine_uid", "seq"}
    [] m.type = "status"       -> {"kingdom", "stage_name"}
    [] m.type = "death"        -> {"ts_ms"}
    [] m.type = "log"          -> {"level", "msg"}
    [] m.type = "state_begin"  -> {"mod_ver"}
    [] m.type = "state_chunk"  -> {"stage_name", IF "shines" \in m.keys THEN "shines" ELSE "goal_reached"}
    [] m.type = "pay_snapshot" -> {"entries"}
    [] OTHER                   -> {}
-----------------------------------------------------------------------------
(* Bytes. *)

Newline(i) == <<i, 0>>
IsNewline(u) == u[2] = 0

\* The line of message i.
BodyOf(i, m)  == [k \in 1..m.size |-> <<i, k>>]
UnitsOf(i, m) == Append(BodyOf(i, m), Newline(i))

\* LineBuffer: what does not fit is dropped without a word.
BoundedLine(i, m) == SubSeq(UnitsOf(i, m), 1, IF m.size < LineCap THEN m.size + 1 ELSE LineCap)

\* The place of the first newline, 0 for none.
FirstNewline(s) ==
  LET places == {k \in DOMAIN s : IsNewline(s[k])} IN IF places = {} THEN 0 ELSE Min(places)

Rest(s, n) == SubSeq(s, n + 1, Len(s))

\* The reader of either side takes a line that is one whole message, never a piece, two
\* pieces, or nothing.
WholeLine(line) == line # <<>> /\ line = BodyOf(line[1][1], sent[line[1][1]])

\* Json.cpp's Reader goes through the fields in their order and through the rows.
ReadsAll(m) == m.keys \subseteq Known(m.type).keys /\ m.rowKeys \subseteq Known(m.type).rowKeys

Capped(m) == IF m.rows < RowCap(m.type) THEN m.rows ELSE RowCap(m.type)

Taken(i, rows, slot) == [line |-> i, rows |-> rows, slot |-> slot]

-----------------------------------------------------------------------------
LineInit ==
  /\ way \in {"up", "down"}
  /\ sent = <<>> /\ base = 0 /\ stream = <<>> /\ buf = <<>>
  /\ heard = <<>> /\ greeted = FALSE /\ leftover = <<>>
  /\ itemSlot = [f \in ItemFields |-> 0] /\ lineCuts = 0

Put(m, line) ==
  /\ Len(sent) < IF way = "up" THEN MaxUp ELSE MaxDown
  /\ sent' = Append(sent, m) /\ stream' = stream \o line
  /\ UNCHANGED <<way, base, buf, heard, greeted, leftover, itemSlot, lineCuts>>

\* encode raises ValueError before a byte of a message that is too long is written.
WriteDown ==
  way = "down" /\ \E m \in Down : m.size <= LineCap /\ Put(m, UnitsOf(Len(sent) + 1, m))

\* The Switch greets first.
WriteUp ==
  /\ way = "up"
  /\ \E m \in Up : /\ (m.type = "hello") = (Len(sent) = base)
                   /\ Put(m, BoundedLine(Len(sent) + 1, m))

Receive(n) ==
  /\ buf' = buf \o SubSeq(stream, 1, n) /\ stream' = Rest(stream, n)
  /\ UNCHANGED <<way, sent, base, heard, greeted, leftover, itemSlot, lineCuts>>

Overfull == IF way = "down" THEN LineCap ELSE LineCap + 1

Drained == FirstNewline(buf) = 0 /\ Len(buf) < Overfull

\* recvIntoBuf: once all lines are off the buffer, which is never full then.
RecvIntoBuf ==
  /\ way = "down" /\ Drained
  /\ \E n \in 1..LineCap - Len(buf) : n <= Len(stream) /\ Receive(n)

\* reader.read(4096) of _handle_client: behind the greeting, and behind the registration.
ReadChunk ==
  /\ way = "up" /\ Drained /\ (heard # <<>> => greeted)
  /\ \E n \in 1..Len(stream) : Receive(n)

\* popLine and iter_lines: a buffer that is full without a newline is given up.
Resync ==
  /\ FirstNewline(buf) = 0 /\ Len(buf) >= Overfull
  /\ buf' = <<>>
  /\ UNCHANGED <<way, sent, base, stream, heard, greeted, leftover, itemSlot, lineCuts>>

\* handleLine, of a line that is whole: item fields the message lacks stay in the slot
\* as they were.  What decode refuses, or does not know, has no effect beyond a warning.
HandleLine(i) ==
  LET m == sent[i] IN
  /\ itemSlot' = IF m.type = "item" THEN [f \in ItemFields |-> IF f \in m.keys THEN i ELSE itemSlot[f]]
                 ELSE itemSlot
  /\ heard' = IF m.type \in KnownTypes /\ ReadsAll(m)
            THEN Append(heard, Taken(i, Capped(m), itemSlot')) ELSE heard
  /\ UNCHANGED <<greeted, leftover>>

\* _handle_client: what comes in one chunk with the greeting is kept for later.
HearLine(i) ==
  LET it == Taken(i, sent[i].rows, itemSlot) IN
  /\ IF greeted \/ (heard = <<>> /\ sent[i].type = "hello")
     THEN heard' = Append(heard, it) /\ UNCHANGED leftover
     ELSE leftover' = Append(leftover, it) /\ UNCHANGED heard
  /\ UNCHANGED <<greeted, itemSlot>>

\* The first line of the buffer.  An empty one, and one that is no JSON, is passed over.
PopLine ==
  LET nl == FirstNewline(buf)  line == SubSeq(buf, 1, nl - 1) IN
  /\ nl > 0 /\ buf' = Rest(buf, nl)
  /\ IF ~WholeLine(line) THEN UNCHANGED <<heard, greeted, leftover, itemSlot>>
     ELSE IF way = "down" THEN HandleLine(line[1][1]) ELSE HearLine(line[1][1])
  /\ UNCHANGED <<way, sent, base, stream, lineCuts>>

\* The connection is registered and its policies passed: what was kept is dispatched.
Register ==
  /\ way = "up" /\ heard # <<>> /\ ~greeted /\ Drained
  /\ greeted' = TRUE /\ heard' = heard \o leftover /\ leftover' = <<>>
  /\ UNCHANGED <<way, sent, base, stream, buf, itemSlot, lineCuts>>

\* A connection that starts with what was left in the buffer (mutant).
RedialKeeps ==
  /\ lineCuts < MaxCuts /\ lineCuts' = lineCuts + 1 /\ Drained
  /\ base' = Len(sent) /\ stream' = <<>> /\ buf' = buf
  /\ heard' = <<>> /\ greeted' = FALSE /\ leftover' = <<>>
  /\ UNCHANGED <<way, sent, itemSlot>>

\* The end of a connection, whoever ends it, and the next one: disconnect empties the
\* buffer of the Switch; the bridge has a new handler, with a bytearray of its own.
Redial ==
  /\ lineCuts < MaxCuts /\ lineCuts' = lineCuts + 1 /\ Drained
  /\ base' = Len(sent) /\ stream' = <<>> /\ buf' = <<>>
  /\ heard' = <<>> /\ greeted' = FALSE /\ leftover' = <<>>
  /\ UNCHANGED <<way, sent, itemSlot>>

LineNext ==
  WriteDown \/ WriteUp \/ RecvIntoBuf \/ ReadChunk \/ Resync \/ PopLine \/ Register \/ Redial

LineSpec == LineInit /\ [][LineNext]_protoVars

-----------------------------------------------------------------------------
Units == (1..Len(sent)) \X (0..LineCap)
Entry == [line : 1..Len(sent), rows : Nat, slot : [ItemFields -> 0..Len(sent)]]

LineTypeOK ==
  /\ way \in {"up", "down"} /\ sent \in Seq(Down \cup Up) /\ base \in 0..Len(sent)
  /\ {stream, buf} \subseteq Seq(Units) /\ {heard, leftover} \subseteq Seq(Entry)
  /\ greeted \in BOOLEAN /\ itemSlot \in [ItemFields -> 0..Len(sent)] /\ lineCuts \in 0..MaxCuts

UnderWay(i)    == \E b \in {stream, buf} : \E k \in DOMAIN b : b[k] = Newline(i)

\* kick and activate are ignored; a line of exactly 8 KiB does not fit read_buf_.
MustArrive(i) == way = "up" \/ (sent[i].type \in KnownTypes /\ sent[i].size < LineCap)

\* What the code goes on to use is of this message: a moon of an older item, rows cut off
\* a table, a field the bridge waits for.  Only checked_replay may be cut.
Intact(e) ==
  LET m == sent[e.line] IN
  IF way = "up" THEN HeardOf(m) \subseteq m.keys
  ELSE /\ m.type # "checked_replay" => e.rows = m.rows
       /\ m.type = "item" => \A f \in ReadOf(m.kind) : e.slot[f] = e.line

\* However TCP cuts and joins the bytes, and however often the connection was lost, each
\* side takes the messages of this connection in their order, none twice, none left out
\* but those still under way, and each of them whole (ApClient.cpp:800-848,
\* switch_server.py:956-1064).
LinesExact ==
  LET got       == heard \o leftover
      gotLines  == {got[k].line : k \in DOMAIN got}
      dueLines  == {i \in base + 1..Len(sent) : MustArrive(i)}
      wireLines == {i \in dueLines : UnderWay(i)} IN
  /\ \A j, k \in DOMAIN got : j < k => got[j].line < got[k].line
  /\ gotLines \cup wireLines = dueLines
  /\ \A i \in gotLines, j \in wireLines : i < j
  /\ \A k \in DOMAIN heard : Intact(heard[k])
=============================================================================
