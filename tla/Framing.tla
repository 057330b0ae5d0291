------------------------------- MODULE Framing -------------------------------
(***************************************************************************)
(* The bytes that Connection leaves out: packs of a header and a body in   *)
(* records of TLS, which OpenSSL reads ahead from the kernel, and the      *)
(* readers of Connection.cpp: the application's process(), which waits,    *)
(* and then Peer's worker, which does not and is woken by what the kernel  *)
(* still has.                                                              *)
(***************************************************************************)
EXTENDS Naturals, Sequences

CONSTANTS
  HeaderBytes,    \* sizeof(NetHeader): 6
  BodySizes,      \* sizes of the packs' bodies
  MaxPacks        \* bound: packs of a connection

ASSUME FramingAssumption ==
  HeaderBytes \in Nat \ {0} /\ BodySizes \subseteq Nat /\ MaxPacks \in Nat

VARIABLES
  framed,         \* sizes of the bodies of the packs the peer wrote
  unsent,         \* bytes it has not made records of
  kernel,         \* records the kernel has received
  ahead,          \* records OpenSSL has read ahead
  record,         \* bytes of the record OpenSSL has decrypted: SSL_pending()
  reading,        \* where process() is, what it has read of the pack, how much is to follow
  caller,         \* who reads, or is to
  delivered,      \* packs given to m_feedback.pack()
  cut             \* ghost: process() returned with a part of a pack

framingVars == <<framed, unsent, kernel, ahead, record, reading, caller, delivered, cut>>

Idle == [at |-> "idle", buf |-> <<>>, rest |-> 0]
Begin == [at |-> "header", buf |-> <<>>, rest |-> HeaderBytes]

FramingInit ==
  /\ framed = <<>> /\ unsent = <<>> /\ kernel = <<>> /\ ahead = <<>> /\ record = <<>>
  /\ reading = Idle /\ caller = "application" /\ delivered = <<>> /\ cut = FALSE

\* The bytes of the i-th pack.
PackBytes(i, size) == [k \in 1 .. HeaderBytes + size |-> [pack |-> i, byte |-> k]]

-----------------------------------------------------------------------------
(* The peer *)

WritePack ==
  /\ Len(framed) < MaxPacks
  /\ \E size \in BodySizes :
       /\ framed' = Append(framed, size)
       /\ unsent' = unsent \o PackBytes(Len(framed) + 1, size)
  /\ UNCHANGED <<kernel, ahead, record, reading, caller, delivered, cut>>

\* A record with any number of bytes, of one pack or of several, reaches the kernel.
SendRecord ==
  /\ \E n \in 1 .. Len(unsent) :
       /\ kernel' = Append(kernel, SubSeq(unsent, 1, n))
       /\ unsent' = SubSeq(unsent, n + 1, Len(unsent))
  /\ UNCHANGED <<framed, ahead, record, reading, caller, delivered, cut>>

\* The connection ends, which is Connection's subject, and the next one begins.
Disconnect ==
  /\ framed # <<>>
  /\ framed' = <<>> /\ unsent' = <<>> /\ kernel' = <<>> /\ ahead' = <<>> /\ record' = <<>>
  /\ reading' = Idle /\ caller' = "application" /\ delivered' = <<>> /\ cut' = FALSE

-----------------------------------------------------------------------------
(* process() *)

\* Whether bytes are a pack's header.  Others may say any size, also one above 65535.
IsHeader(bytes) == \E i \in DOMAIN framed : bytes = SubSeq(PackBytes(i, framed[i]), 1, HeaderBytes)

\* Endian::toHost(header.size)
SizesSaid(bytes) == IF IsHeader(bytes) THEN {framed[bytes[1].pack]} ELSE BodySizes

\* P::read has read all of the header or of the body.
Completed(bytes) ==
  \/ /\ reading.at = "header"
     /\ \E size \in SizesSaid(bytes) :
          reading' = [at |-> IF size = 0 THEN "pack" ELSE "body", buf |-> bytes, rest |-> size]
     /\ UNCHANGED caller
  \/ /\ reading.at = "header" /\ ~IsHeader(bytes)     \* Invalid
     /\ reading' = Idle /\ caller' = "ended"
  \/ /\ reading.at = "body"
     /\ reading' = [at |-> "pack", buf |-> bytes, rest |-> 0]
     /\ UNCHANGED caller

\* Mutant: after Retry the buffer is filled from its beginning.
TakeBytesFromBegin(bytes, records) ==
  LET n == IF Len(bytes) < reading.rest THEN Len(bytes) ELSE reading.rest
      got == SubSeq(bytes, 1, n)
  IN  /\ record' = SubSeq(bytes, n + 1, Len(bytes))
      /\ ahead' = records
      /\ IF n < reading.rest
         THEN reading' = [reading EXCEPT !.rest = @ - n] /\ UNCHANGED caller
         ELSE Completed(reading.buf \o got)

\* SSL_read() takes what is asked for from one record; P::read comes again for the rest.
TakeBytes(bytes, records) ==
  LET n == IF Len(bytes) < reading.rest THEN Len(bytes) ELSE reading.rest
      got == reading.buf \o SubSeq(bytes, 1, n)
  IN  /\ record' = SubSeq(bytes, n + 1, Len(bytes))
      /\ ahead' = records
      /\ IF n < reading.rest
         THEN reading' = [reading EXCEPT !.buf = got, !.rest = @ - n] /\ UNCHANGED caller
         ELSE Completed(got)

AtRead == reading.at \in {"header", "body"}

ReadRecord ==
  /\ AtRead
  /\ \/ record # <<>> /\ TakeBytes(record, ahead)
     \/ record = <<>> /\ ahead # <<>> /\ TakeBytes(Head(ahead), Tail(ahead))
  /\ UNCHANGED <<framed, unsent, kernel, delivered, cut>>

\* OpenSSL asks the kernel, and gets any number of the records it has.
ReadAhead ==
  /\ AtRead /\ record = <<>> /\ ahead = <<>>
  /\ \E n \in 1 .. Len(kernel) :
       /\ TakeBytes(Head(kernel), SubSeq(kernel, 2, n))
       /\ kernel' = SubSeq(kernel, n + 1, Len(kernel))
  /\ UNCHANGED <<framed, unsent, delivered, cut>>

\* There is nothing to read, and process(false) does not wait: Busy.
ReadBusy ==
  /\ AtRead /\ caller = "worker"
  /\ record = <<>> /\ ahead = <<>> /\ kernel = <<>>
  /\ reading' = Idle /\ caller' = "asleep"
  /\ cut' = (cut \/ reading.buf # <<>>)
  /\ UNCHANGED <<framed, unsent, kernel, ahead, record, delivered>>

\* P::read sees Peer's m_halt.
ReadCancel ==
  /\ AtRead /\ caller = "worker"
  /\ reading' = Idle /\ caller' = "stopped"
  /\ cut' = (cut \/ reading.buf # <<>>)
  /\ UNCHANGED <<framed, unsent, kernel, ahead, record, delivered>>

\* Mutant: the worker calls process() once for an event.
DeliverOnce ==
  /\ reading.at = "pack"
  /\ delivered' = Append(delivered, reading.buf)
  /\ reading' = IF Len(record) >= HeaderBytes THEN Begin ELSE Idle
  /\ caller' = IF caller = "worker" /\ reading' = Idle THEN "asleep" ELSE caller
  /\ UNCHANGED <<framed, unsent, kernel, ahead, record, cut>>

\* m_feedback.pack() returns; process() goes on while the record has another header, and
\* Peer's worker calls process() until it does not succeed.
Deliver ==
  /\ reading.at = "pack"
  /\ delivered' = Append(delivered, reading.buf)
  /\ reading' = IF Len(record) >= HeaderBytes \/ caller = "worker" THEN Begin ELSE Idle
  /\ UNCHANGED <<framed, unsent, kernel, ahead, record, caller, cut>>

-----------------------------------------------------------------------------
(* Who calls it *)

\* The application, inside opened(): process() with its default arguments.
CallProcess ==
  /\ caller = "application" /\ reading = Idle
  /\ reading' = Begin
  /\ UNCHANGED <<framed, unsent, kernel, ahead, record, caller, delivered, cut>>

\* addTCP(); or Peer is started again.
Register ==
  /\ caller \in {"application", "stopped"} /\ reading = Idle
  /\ caller' = "registered"
  /\ UNCHANGED <<framed, unsent, kernel, ahead, record, reading, delivered, cut>>

\* The monitor reports the socket while the kernel has something for it.
Event ==
  /\ caller \in {"registered", "asleep"} /\ kernel # <<>>
  /\ caller' = "worker" /\ reading' = Begin
  /\ UNCHANGED <<framed, unsent, kernel, ahead, record, delivered, cut>>

FramingNext ==
  \/ WritePack \/ SendRecord \/ Disconnect
  \/ ReadRecord \/ ReadAhead \/ ReadBusy \/ ReadCancel \/ Deliver
  \/ CallProcess \/ Register \/ Event

FramingSpec == FramingInit /\ [][FramingNext]_framingVars

-----------------------------------------------------------------------------
(* Properties *)

\* The packs are those the peer wrote, whole and in their order, however its bytes were cut
\* into records and the records read, as long as process() returned between packs.  After a
\* process() that returned inside one, nothing is said: its bytes are lost.
InOrder ==
  ~cut => /\ Len(delivered) <= Len(framed)
          /\ \A i \in DOMAIN delivered : delivered[i] = PackBytes(i, framed[i])

\* When a worker is done with an event, OpenSSL keeps nothing in its buffers, of which the
\* monitor knows nothing; and every pack has been delivered of which nothing is left to
\* receive, as long as process() returned between packs.  That condition matters: a process()
\* that ends with Busy or Cancel after the header was read drops the header, so that a pack
\* received later to its last byte is never handed over (Connection.cpp:119-127).
Drained ==
  caller = "asleep" =>
    /\ record = <<>> /\ ahead = <<>>
    /\ ~cut /\ kernel = <<>> =>
         \A i \in DOMAIN framed : (unsent = <<>> \/ Head(unsent).pack > i) => i <= Len(delivered)
=============================================================================
