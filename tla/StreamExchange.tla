--------------------------- MODULE StreamExchange ---------------------------
(***************************************************************************)
(* Items written to a PacketDataStream over a buffer of some size, what    *)
(* arrives of the bytes, and the reader who takes the items back in the    *)
(* same order.                                                             *)
(***************************************************************************)
EXTENDS PacketDataStream

CONSTANTS
  BufferSizes,    \* sizes of the buffer at first
  Integers64,     \* 64-bit integers to write
  MaxItems        \* bound on the items of a stream

ASSUME ItemsAssumption == BufferSizes \subseteq Nat /\ Integers64 \subseteq U64 /\ MaxItems \in Nat

VARIABLES
  out, written,   \* the writer, and what was written
  in, got,        \* the reader, and what was read
  streaming       \* "none", "writing", "retried", "reading"

streamVars == <<out, written, in, got, streaming>>

Zeros(n) == [i \in 1 .. n |-> 0]

NoStream == Stream(<<>>)

StreamInit ==
  out = NoStream /\ written = <<>> /\ in = NoStream /\ got = <<>> /\ streaming = "none"

Item(kind, value) == [kind |-> kind, value |-> value]

\* A narrow integer is its bytes, the highest first.
Items ==
  {Item("uint64", v) : v \in Integers64}
    \cup {Item("int16", v) : v \in [1 .. 2 -> {0, 1, 127, 128, 255}]}
    \cup {Item("uint8", <<b>>) : b \in {0, 127, 128, 255}}
    \cup {Item("bool", <<b>>) : b \in {0, 1}}
    \cup {Item("float", <<0, 0, 128, 63>>)}
    \cup {Item("buf", b) : b \in {<<>>, <<248>>, <<1, 2, 3>>}}

Write(s, item) ==
  CASE item.kind = "uint64" -> WriteInt(s, item.value)
    [] item.kind = "int16" -> WriteInt(s, Extend(item.value, TRUE))
    [] item.kind = "uint8" -> WriteInt(s, Extend(item.value, FALSE))
    [] item.kind = "bool" -> WriteBool(s, item.value)
    [] item.kind = "float" -> WriteFloat(s, item.value)
    [] item.kind = "buf" -> WriteBuf(s, item.value)

ReadItem(s, kind) ==
  CASE kind = "uint64" -> ReadInt(s)
    [] kind = "int16" -> [ReadInt(s) EXCEPT !.value = Narrow(@, 2)]
    [] kind = "uint8" -> [ReadInt(s) EXCEPT !.value = Narrow(@, 1)]
    [] kind = "bool" -> ReadBool(s)
    [] kind = "float" -> ReadFloat(s)
    [] kind = "buf" -> ReadBuf(s)

WriteAll(s, items) ==
  LET after[n \in 0 .. Len(items)] == IF n = 0 THEN s ELSE Write(after[n - 1], items[n])
  IN  after[Len(items)]

-----------------------------------------------------------------------------

Open ==
  /\ streaming = "none"
  /\ \E n \in BufferSizes : out' = Stream(Zeros(n))
  /\ streaming' = "writing"
  /\ UNCHANGED <<written, in, got>>

Put ==
  /\ streaming = "writing" /\ Len(written) < MaxItems
  /\ \E item \in Items : out' = Write(out, item) /\ written' = Append(written, item)
  /\ UNCHANGED <<in, got, streaming>>

\* A writer whose buffer was too small tries again with one larger by undersize().
Retry ==
  /\ streaming = "writing" /\ ~out.ok
  /\ out' = WriteAll(Stream(Zeros(Len(out.buf) + out.overshoot)), written)
  /\ streaming' = "retried"
  /\ UNCHANGED <<written, in, got>>

\* What was written is handed on, and the rest of the buffer takes the next items.
Trim ==
  /\ streaming = "writing" /\ out.ok /\ written # <<>>
  /\ out' = Truncate(out) /\ written' = <<>>
  /\ UNCHANGED <<in, got, streaming>>

\* All bytes arrive, or the first n.
Arrive ==
  /\ streaming \in {"writing", "retried"} /\ out.ok /\ written # <<>>
  /\ \E n \in 0 .. Len(Data(out)) : in' = Stream(SubSeq(Data(out), 1, n))
  /\ streaming' = "reading"
  /\ UNCHANGED <<out, written, got>>

Take ==
  /\ streaming = "reading" /\ Len(got) < Len(written)
  /\ LET kind == written[Len(got) + 1].kind
         r    == ReadItem(in, kind)
     IN  in' = r.stream /\ got' = Append(got, Item(kind, r.value))
  /\ UNCHANGED <<out, written, streaming>>

\* The reader passes over the four bytes of a float.
PassOver ==
  /\ streaming = "reading" /\ Len(got) < Len(written)
  /\ written[Len(got) + 1].kind = "float"
  /\ in' = Skip(in, 4) /\ got' = Append(got, written[Len(got) + 1])
  /\ UNCHANGED <<out, written, streaming>>

\* rewind(), and the items once more.
Again ==
  /\ streaming = "reading" /\ Len(got) = Len(written) /\ in.ok /\ in.pos > 0
  /\ in' = Rewind(in) /\ got' = <<>>
  /\ UNCHANGED <<out, written, streaming>>

Close ==
  /\ streaming \in {"writing", "retried", "reading"}
  /\ out' = NoStream /\ written' = <<>> /\ in' = NoStream /\ got' = <<>> /\ streaming' = "none"

StreamNext == Open \/ Put \/ Retry \/ Trim \/ Arrive \/ Take \/ PassOver \/ Again \/ Close

StreamSpec == StreamInit /\ [][StreamNext]_streamVars

-----------------------------------------------------------------------------

Finished == streaming = "reading" /\ Len(got) = Len(written)

\* Items that fitted are read back as they were written, in order, and take all the bytes; a
\* reader that is given fewer bytes ends with m_ok cleared, wherever they were cut off.
ItemsRoundTrip ==
  Finished =>
    IF Len(in.buf) = Len(Data(out)) THEN in.ok /\ got = written /\ Room(in) = 0 ELSE ~in.ok

\* undersize() is what the buffer was short of: with so many bytes more everything that was
\* written fits, and nothing is left over.
UndersizeExact ==
  streaming = "retried" => out.ok /\ out.overshoot = 0 /\ Room(out) = 0
=============================================================================
