------------------------------- MODULE Framing -------------------------------
(***************************************************************************)
(* How the processes and the Android client cut a stream of bytes into     *)
(* messages.  Pack puts the length of a message, header included, into its *)
(* first four bytes, the highest byte first.  One connection is modelled:  *)
(* its writer, the bytes on their way, and the read callback of its reader *)
(* with its loop, one round at a time.                                     *)
(*                                                                         *)
(* The read callbacks of the processes are copies of three forms, and      *)
(* reader says which one reads:                                            *)
(*   "loop"     NetListener and NetLink of most processes (loadtable's are *)
(*              the ones mapped)                                           *)
(*   "drain"    push and pull                                              *)
(*   "strict"   mgroup's NetLink, which compares with len-4                *)
(*   "android"  ProtoLink.onData of the Android client                     *)
(*                                                                         *)
(* All three C forms decode lenbuf[0]<<24|lenbuf[1]<<16|lenbuf[2]>>8|      *)
(* lenbuf[3] from signed chars: the third byte is shifted away and a       *)
(* fourth byte of 128 or more makes the length huge.                       *)
(***************************************************************************)
EXTENDS Integers, Sequences

CONSTANTS
    Lengths,        \* bound: lengths of the messages that are sent
    MaxMessages,    \* bound: messages sent,
    MaxBytes,       \* ... and their bytes
    Piece,          \* bound: the bytes that arrive at a time
    Garbage,        \* bound: what four bytes inside a message may decode to
    ShuffleAt       \* ProtoLink.onData moves its bytes down past this: 10000

Longest == 32767        \* bound: the longest message; its length has two bytes
Huge == 2147483647      \* more bytes than ever arrive

ASSUME FramingAssumption ==
    /\ Lengths \subseteq 8 .. Longest
    /\ MaxMessages \in Nat /\ MaxBytes \in 0 .. Huge - 1
    /\ Piece \in Nat \ {0}
    /\ Garbage \subseteq Nat
    /\ ShuffleAt \in Nat

VARIABLES
    reader,     \* which callback reads the connection; never changes
    sent,       \* the messages sent: where each begins in the stream, and its length
    arrived,    \* bytes that have reached the reader's buffer
    fresh,      \* some of them since the callback last ran
    taken,      \* bytes that the reader has taken out of its buffer
    handled,    \* messages handed to the handler whole and in order
    wrong,      \* bytes were handed to the handler that are not a message
    reading,    \* the read callback is in its loop
    start,      \* ProtoLink.mStart: where the bytes begin in mRecvBuffer
    order       \* the byte order of mRecvBuffer

streamVars == <<sent, arrived, fresh, taken, handled, wrong, reading, start, order, reader>>

Readers == {"loop", "drain", "strict", "android"}
MaxPacket == 1024 * 1024 * 8

\* The bytes sent, the place of message i in the stream, and what is in the buffer.
Written == IF sent = <<>> THEN 0 ELSE sent[Len(sent)].at + sent[Len(sent)].len
Place(i) == IF i \in DOMAIN sent THEN sent[i].at ELSE Written
Available == arrived - taken

StreamTypeOK ==
    /\ reader \in Readers
    /\ sent \in Seq([at : Nat, len : Lengths]) /\ Len(sent) <= MaxMessages
    /\ arrived \in 0 .. Written /\ taken \in 0 .. arrived
    /\ handled \in 0 .. Len(sent) /\ Place(handled + 1) <= taken
    /\ wrong \in BOOLEAN /\ reading \in BOOLEAN /\ fresh \in BOOLEAN
    /\ start \in 0 .. taken
    /\ order \in {"big", "little"}

StreamInit ==
    /\ reader \in Readers
    /\ sent = <<>>
    /\ arrived = 0 /\ taken = 0 /\ fresh = FALSE
    /\ handled = 0 /\ wrong = FALSE
    /\ reading = FALSE
    /\ start = 0 /\ order = "big"

-----------------------------------------------------------------------------
(* The length that the first four bytes stand for *)

\* The third and fourth byte of the header; the first two are 0.
HeaderBytes(L) == [high |-> L \div 256, low |-> L % 256]

\* Mutant: the fourth byte is shifted as well.
Decoded_Shifted(b) == IF b.high >= 128 \/ b.low >= 128 THEN Huge ELSE b.low \div 2

\* What the C callbacks make of them: size_t from signed chars.
Decoded(b) == IF b.high >= 128 \/ b.low >= 128 THEN Huge ELSE b.low

\* ByteBuffer.getInt in the byte order of the buffer.
GetInt(b, o) ==
    IF o = "big" THEN b.high * 2^8 + b.low
    ELSE IF b.low < 128 THEN b.low * 2^24 + b.high * 2^16
    ELSE -1

\* What the reader may take for the length of the next message.
Declared ==
    LET at == {i \in 1 .. Len(sent) : Place(i) = taken}
        Read(b) == IF reader = "android" THEN GetInt(b, order) ELSE Decoded(b)
    IN  IF at = {} THEN Garbage ELSE {Read(HeaderBytes(sent[i].len)) : i \in at}

-----------------------------------------------------------------------------
(* The writer and the network *)

\* The writer packs a message and puts it on the connection.
Write(L) ==
    /\ Len(sent) < MaxMessages /\ Written + L <= MaxBytes
    /\ sent' = Append(sent, [at |-> Written, len |-> L])
    /\ UNCHANGED <<reader, arrived, fresh, taken, handled, wrong, reading, start, order>>

\* More bytes arrive; the buffer does not change during a callback.
Arrive ==
    /\ ~reading
    /\ arrived < Written
    /\ arrived' = IF arrived + Piece < Written THEN arrived + Piece ELSE Written
    /\ fresh' = TRUE
    /\ UNCHANGED <<reader, sent, taken, handled, wrong, reading, start, order>>

\* The callback is called with what has arrived since the last one.  What
\* follows bytes that were no message is left out.
ReadCb ==
    /\ ~reading /\ ~wrong
    /\ fresh
    /\ reading' = TRUE /\ fresh' = FALSE
    /\ UNCHANGED <<reader, sent, arrived, taken, handled, wrong, start, order>>

-----------------------------------------------------------------------------
(* One round of the loop of the callback *)

\* The callback returns and the buffer stays as it is.
Wait ==
    /\ reading' = FALSE
    /\ UNCHANGED <<reader, sent, arrived, fresh, taken, handled, wrong, start, order>>

\* The first len bytes are removed and handed to the handler.
Cut(len) ==
    LET whole == handled < Len(sent) /\ ~wrong
                 /\ taken = Place(handled + 1) /\ len = sent[handled + 1].len
    IN  /\ taken' = taken + len
        /\ handled' = IF whole THEN handled + 1 ELSE handled
        /\ wrong' = (wrong \/ ~whole)

\* Mutant: the callback leaves its loop after one message.
ReadLoop_Once ==
    /\ reading /\ reader \in {"loop", "drain"}
    /\ \/ Available <= 4 /\ Wait
       \/ Available > 4 /\ \E len \in Declared :
            \/ len > Available /\ Wait
            \/ /\ len <= Available
               /\ Cut(len)
               /\ reading' = FALSE
               /\ UNCHANGED <<reader, sent, arrived, fresh, start, order>>

\* NetListener::read_cb and push's NetLoop::read_cb.  The first stops when a
\* message ends the buffer, the second when it finds the buffer empty.
ReadLoop ==
    /\ reading /\ reader \in {"loop", "drain"}
    /\ \/ Available <= 4 /\ Wait
       \/ Available > 4 /\ \E len \in Declared :
            \/ len > Available /\ Wait
            \/ /\ len <= Available
               /\ Cut(len)
               /\ reading' = (reader = "drain" \/ len # Available)
               /\ UNCHANGED <<reader, sent, arrived, fresh, start, order>>

\* mgroup's NetLink::read_cb: four bytes must follow a message.
ReadStrict ==
    /\ reading /\ reader = "strict"
    /\ \/ Available <= 4 /\ Wait
       \/ Available > 4 /\ \E len \in Declared :
            \/ len > Available - 4 /\ Wait
            \/ /\ len <= Available - 4
               /\ Cut(len)
               /\ reading' = (len # Available)
               /\ UNCHANGED <<reader, sent, arrived, fresh, start, order>>

\* ProtoLink.onData.  shuffer() copies the rest into a buffer that is
\* LITTLE_ENDIAN, and so are the buffers after it.
ReadProto ==
    /\ reading /\ reader = "android"
    /\ \/ Available <= 10 /\ Wait
       \/ Available > 10 /\ \E len \in Declared :
            \/ /\ len > MaxPacket \/ len <= 0
               /\ taken' = arrived /\ start' = 0
               /\ reading' = FALSE
               /\ UNCHANGED <<reader, sent, arrived, fresh, handled, wrong, order>>
            \/ /\ len \in Available + 1 .. MaxPacket
               /\ reading' = FALSE
               /\ start' = 0 /\ order' = "little"
               /\ UNCHANGED <<reader, sent, arrived, fresh, taken, handled, wrong>>
            \/ /\ len \in 1 .. Available
               /\ Cut(len)
               /\ start' = IF len = Available \/ start + len > ShuffleAt THEN 0
                           ELSE start + len
               /\ order' = IF len # Available /\ start + len > ShuffleAt
                           THEN "little" ELSE order
               /\ UNCHANGED <<reader, sent, arrived, fresh, reading>>

StreamNext ==
    \/ \E L \in Lengths : Write(L)
    \/ Arrive \/ ReadCb
    \/ ReadLoop \/ ReadStrict \/ ReadProto

\* TCP delivers what was sent; the event loop runs the callback, and the
\* callback its loop.
StreamFairness ==
    /\ WF_streamVars(Arrive) /\ WF_streamVars(ReadCb)
    /\ WF_streamVars(ReadLoop \/ ReadStrict \/ ReadProto)

StreamSpec == StreamInit /\ [][StreamNext]_streamVars /\ StreamFairness

-----------------------------------------------------------------------------
(* Properties *)

\* A C reader is handed nothing but the messages that were sent, whole and in
\* order, up to the first message of 256 bytes or more; and so is the Android
\* client whatever the lengths, as long as its buffer has not been moved.
CutsAreMessages ==
    wrong => IF reader = "android" THEN order = "little"
             ELSE \E i \in 1 .. handled + 1 : i <= Len(sent) /\ sent[i].len >= 256

\* Every message is handled in the end, however the network splits the stream
\* and joins it.  Exempt are the readers that the code makes deaf: a C reader
\* before which a message of 128 bytes or more stands, the Android client once
\* a message came in two parts; and the last message of the strict reader.
Deaf(i) ==
    IF reader = "android" THEN order = "little" \/ Place(i + 1) - Place(handled + 1) <= 10
    ELSE \E k \in 1 .. i : sent[k].len >= 128
Owed(i) == Len(sent) >= IF reader = "strict" THEN i + 1 ELSE i
DeliversAll ==
    \A i \in 1 .. MaxMessages : Owed(i) ~> (handled >= i \/ (i <= Len(sent) /\ Deaf(i)))
=============================================================================
