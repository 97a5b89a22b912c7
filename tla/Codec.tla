------------------------------- MODULE Codec -------------------------------
(***************************************************************************)
(* The envelope encoding of the API server (src/internal/ls/api.go):       *)
(* writeMessage/writeBin (lines 648-693) and readRequest/readBin (508-581) *)
(* as operators on byte sequences, and one envelope crossing the stream:   *)
(* written by the server or by the client's msgpack encoder, possibly cut  *)
(* short when the connection drops, then read.                             *)
(*                                                                         *)
(* Lengths are written in ByteBase digits, big-endian.  The program's      *)
(* ByteBase is 256; a smaller one keeps the width boundaries (ByteBase,    *)
(* ByteBase^2) and the uint32 wrap (ByteBase^4) within TLC's reach.  The   *)
(* marker bytes keep their values.  A string's bytes are all 0: no step    *)
(* looks at them except to count and copy them.                            *)
(***************************************************************************)
EXTENDS Integers, Sequences, SequencesExt

CONSTANTS
  ByteBase,     \* values of one length digit (256)
  Lengths,      \* lengths of the method and payload strings
  PeerWidths    \* length widths (1, 2, 4) the client's encoder may choose

ASSUME ByteBase \in Nat \ {0, 1} /\ Lengths \subseteq Nat /\ PeerWidths \subseteq {1, 2, 4}

FixedArray3 == 147  \* 0x93
U8 == 204           \* 0xCC
Bin8 == 196         \* 0xC4
Bin16 == 197        \* 0xC5
Bin32 == 198        \* 0xC6

\* MessageType values 1..6 (Request .. Call); IsValid rejects the rest.
MessageTypes == 1..6

\* What the model writes: length digits, message types, markers, and the
\* strings' bytes.
Markers == {FixedArray3, U8, Bin8, Bin16, Bin32}
Bytes == (0..ByteBase - 1) \cup MessageTypes \cup Markers

Zeros(n) == [i \in 1..n |-> 0]

\* Variant: the digits are not reduced to one byte each.
BigEndianUnmasked(n, w) == [i \in 1..w |-> n \div ByteBase^(w - i)]

\* The w-digit big-endian form of n, keeping the low digits as a
\* conversion to a w-byte unsigned integer does.
BigEndian(n, w) == [i \in 1..w |-> (n \div ByteBase^(w - i)) % ByteBase]

\* binary.Read of a big-endian unsigned integer.
FromBigEndian(ds) == FoldLeft(LAMBDA acc, d : acc * ByteBase + d, 0, ds)

BinMarker(w) == CASE w = 1 -> Bin8 [] w = 2 -> Bin16 [] w = 4 -> Bin32
WidthOf(t) == CASE t = Bin8 -> 1 [] t = Bin16 -> 2 [] t = Bin32 -> 4 [] OTHER -> 0

-----------------------------------------------------------------------------
(* Writing.                                                                *)

\* writeBin: the narrowest of the three bin formats for len(payload).
WriteBin(data) ==
  LET n == Len(data)
      w == IF n < ByteBase THEN 1 ELSE IF n < ByteBase^2 THEN 2 ELSE 4
  IN <<BinMarker(w)>> \o BigEndian(n, w) \o data

\* writeMessage: the fixed 3-element array, the uint8 type, two bins.
WriteMessage(e) ==
  <<FixedArray3, U8, e.kind>> \o WriteBin(e.method) \o WriteBin(e.payload)

-----------------------------------------------------------------------------
(* Reading.  A result is [ok, data or envelope, rest of the stream].       *)

Fail == [ok |-> FALSE, data |-> <<>>, rest |-> <<>>]

\* Variant: the data is read with a single Read, which returns what is
\* there instead of failing short.
ReadBinPartial(bs) ==
  IF bs = <<>> \/ WidthOf(bs[1]) = 0 THEN Fail
  ELSE LET w == WidthOf(bs[1])
       IN IF Len(bs) < 1 + w THEN Fail
          ELSE LET n == FromBigEndian(SubSeq(bs, 2, 1 + w))
                   last == IF Len(bs) < 1 + w + n THEN Len(bs) ELSE 1 + w + n
               IN [ok |-> TRUE, data |-> SubSeq(bs, 2 + w, last),
                   rest |-> SubSeq(bs, last + 1, Len(bs))]

\* readBin: the marker, the length in its width, then io.ReadFull of the
\* data; a missing byte anywhere is an error.
ReadBin(bs) ==
  IF bs = <<>> \/ WidthOf(bs[1]) = 0 THEN Fail
  ELSE LET w == WidthOf(bs[1])
       IN IF Len(bs) < 1 + w THEN Fail
          ELSE LET n == FromBigEndian(SubSeq(bs, 2, 1 + w))
               IN IF Len(bs) < 1 + w + n THEN Fail
                  ELSE [ok |-> TRUE, data |-> SubSeq(bs, 2 + w, 1 + w + n),
                        rest |-> SubSeq(bs, 2 + w + n, Len(bs))]

\* readRequest with expectedMethod "" (the Run loop's read).
ReadRequest(bs) ==
  IF Len(bs) < 3 \/ bs[1] # FixedArray3 \/ bs[2] # U8 \/ bs[3] \notin MessageTypes
  THEN [ok |-> FALSE]
  ELSE LET m == ReadBin(SubSeq(bs, 4, Len(bs)))
           p == ReadBin(m.rest)
       IN IF ~m.ok \/ ~p.ok THEN [ok |-> FALSE]
          ELSE [ok |-> TRUE, env |-> [kind |-> bs[3], method |-> m.data,
                                      payload |-> p.data], rest |-> p.rest]

-----------------------------------------------------------------------------

Envelopes == [kind : MessageTypes, method : {Zeros(n) : n \in Lengths},
              payload : {Zeros(n) : n \in Lengths}]

\* The client's encoder: any bin width whose length field holds the length.
PeerBin(data, w) == <<BinMarker(w)>> \o BigEndian(Len(data), w) \o data
Fits(data, w) == Len(data) < ByteBase^w

VARIABLES
  env,      \* the envelope being sent
  wire,     \* the bytes on the stream
  stage,    \* "start", "written", "read"
  cut,      \* the connection dropped before the whole envelope was written
  decoded   \* what readRequest returned

vars == <<env, wire, stage, cut, decoded>>

Init ==
  /\ env \in Envelopes
  /\ wire = <<>>
  /\ stage = "start"
  /\ cut = FALSE
  /\ decoded = [ok |-> FALSE]

\* The server sends env with writeMessage.
ServerWrite ==
  /\ stage = "start"
  /\ wire' = WriteMessage(env)
  /\ stage' = "written"
  /\ UNCHANGED <<env, cut, decoded>>

\* The client sends env, choosing the bin widths.
PeerWrite(w1, w2) ==
  /\ stage = "start"
  /\ Fits(env.method, w1) /\ Fits(env.payload, w2)
  /\ wire' = <<FixedArray3, U8, env.kind>> \o PeerBin(env.method, w1)
             \o PeerBin(env.payload, w2)
  /\ stage' = "written"
  /\ UNCHANGED <<env, cut, decoded>>

\* The connection drops after k bytes of the envelope.
Cut(k) ==
  /\ stage = "written"
  /\ ~cut
  /\ k < Len(wire)
  /\ wire' = SubSeq(wire, 1, k)
  /\ cut' = TRUE
  /\ UNCHANGED <<env, stage, decoded>>

\* The other side reads one envelope.
Read ==
  /\ stage = "written"
  /\ decoded' = ReadRequest(wire)
  /\ stage' = "read"
  /\ UNCHANGED <<env, wire, cut>>

Done == stage = "read" /\ UNCHANGED vars

Next ==
  \/ ServerWrite
  \/ \E w1, w2 \in PeerWidths : PeerWrite(w1, w2)
  \/ \E k \in 0..Len(wire) : Cut(k)
  \/ Read
  \/ Done

Spec == Init /\ [][Next]_vars

-----------------------------------------------------------------------------
(* Properties.                                                             *)

TypeOK ==
  /\ env \in Envelopes
  /\ wire \in Seq(Bytes)
  /\ stage \in {"start", "written", "read"}
  /\ cut \in BOOLEAN

\* Reading yields exactly the envelope written, and nothing when the
\* connection dropped mid-envelope: no short read is taken for a frame
\* (section 4.1, round trip and short read).
ReadYieldsWhatWasWritten ==
  stage = "read" =>
    IF cut THEN ~decoded.ok
    ELSE decoded.ok /\ decoded.env = env /\ decoded.rest = <<>>

\* Re-encoding what was read reproduces the bytes read (section 4.1:
\* encode(decode(bytes)) = bytes for any valid envelope).
ReEncodes ==
  stage = "read" /\ decoded.ok => WriteMessage(decoded.env) = wire

=============================================================================
