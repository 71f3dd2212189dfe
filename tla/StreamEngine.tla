---------------------------- MODULE StreamEngine ----------------------------
(***************************************************************************)
(* Two stream engines and a TCP connection (src/lib/zeromq/                *)
(* stream_engine.cpp, encoder.hpp, decoder.hpp, v1_encoder.cpp,            *)
(* v1_decoder.cpp, session_base.cpp): `a' sends the messages of its        *)
(* session, `b' decodes them into the pipe of its own session, whose       *)
(* reader is slow.  The buffers of both engines and of TCP cut the stream  *)
(* anywhere; a full pipe stalls the decoder in the middle of a buffer.     *)
(*                                                                         *)
(* The stream is made of units.  A greeting is three: first byte, flags,   *)
(* version; the third is held back until the peer's second has shown that  *)
(* it knows versions.  Message m is <<m, 1>> (its flags), <<m, 2>> (its    *)
(* size) and SeSize[m] units of body.  Message 0 is the identity every     *)
(* session sends first.  Both peers are versioned, no maxmsgsize is set    *)
(* (options.cpp) and memory does not run out, so that the decoder never    *)
(* reports decoding_error.                                                 *)
(***************************************************************************)
EXTENDS Naturals, SequencesExt

CONSTANTS
    SeLast,         \* messages 1..SeLast follow the identity
    SeSize,         \* units in the body of a message
    SeBatch,        \* out_batch_size and in_batch_size
    SeWireCap,      \* units TCP holds in one direction
    SeHwm           \* rcvhwm

ASSUME SeAssumption ==
    /\ SeLast \in Nat /\ SeSize \in [0..SeLast -> Nat]
    /\ SeBatch \in Nat \ {0} /\ SeWireCap \in Nat \ {0} /\ SeHwm \in Nat \ {0}

VARIABLES
    seA,            \* engine a: [alive, greeted, pollout, starved, ending]
    seEnc,          \* its encoder: [msg, left], units of the chunk still to write
    seOut,          \* its outpos and outsize
    seSent,         \* messages the application gave to a's session
    seWire,         \* units under way from a to b
    seBack,         \* units under way from b to a
    seB,            \* engine b: [alive, greeted, pollin, io, out]
    seIn,           \* its inpos and insize
    seDec,          \* its decoder: [step, need, got, ident], ident: identity_received
    sePipe,         \* the messages written to the pipe of b's session
    seTaken,        \* how many of them the application has read
    seAcked,        \* how many reads b's end of the pipe knows of
    seOutActive,    \* out_active of b's end of the pipe
    seEof,          \* a has closed the connection
    seBroken,       \* history: the network broke the connection
    seCut,          \* history: a ended with units still to be sent
    seDangling      \* history: a used its session after it was deleted

seVars == <<seA, seEnc, seOut, seSent, seWire, seBack, seB, seIn, seDec, sePipe, seTaken,
            seAcked, seOutActive, seEof, seBroken, seCut, seDangling>>

SeHello(k) == <<SeLast + 1, k>>
SeGreeting == {SeHello(k) : k \in 1..3}
SeUnit == UNION {{<<m, k>> : k \in 1..(2 + SeSize[m])} : m \in 0..SeLast}
SeMessage(m) == [k \in 1..(2 + SeSize[m]) |-> <<m, k>>]

SeTypeOK ==
    /\ seA \in [alive : BOOLEAN, greeted : 0..3, pollout : BOOLEAN, starved : BOOLEAN,
                ending : BOOLEAN]
    /\ seEnc \in [msg : 0..(SeLast + 1), left : Nat, head : BOOLEAN]
    /\ \A i \in 1..Len(seOut) : seOut[i] \in SeUnit \cup SeGreeting
    /\ seSent \in 0..SeLast
    /\ \A i \in 1..Len(seWire) : seWire[i] \in SeUnit \cup SeGreeting
    /\ \A i \in 1..Len(seBack) : seBack[i] \in SeGreeting
    /\ seB.greeted \in 0..3
    /\ \A i \in 1..Len(seIn) : seIn[i] \in SeUnit
    /\ seDec.step \in {"flags", "size", "body"} /\ seDec.need \in Nat
    /\ seTaken \in 0..Len(sePipe) /\ seAcked \in 0..seTaken
    /\ {seOutActive, seEof, seBroken, seCut, seDangling} \subseteq BOOLEAN

(* plug: both engines have put ten bytes of their greeting into the buffer. *)
SeInit ==
    /\ seA = [alive |-> TRUE, greeted |-> 0, pollout |-> TRUE, starved |-> FALSE,
              ending |-> FALSE]
    /\ seEnc = [msg |-> 0, left |-> 0, head |-> TRUE]
    /\ seOut = <<SeHello(1), SeHello(2)>>
    /\ seSent = 0
    /\ seWire = <<>> /\ seBack = <<>>
    /\ seB = [alive |-> TRUE, greeted |-> 0, pollin |-> TRUE, io |-> TRUE,
              out |-> <<SeHello(1), SeHello(2)>>]
    /\ seIn = <<>>
    /\ seDec = [step |-> "flags", need |-> 1, got |-> <<>>, ident |-> FALSE]
    /\ sePipe = <<>> /\ seTaken = 0 /\ seAcked = 0 /\ seOutActive = TRUE
    /\ seEof = FALSE /\ seBroken = FALSE /\ seCut = FALSE /\ seDangling = FALSE

-----------------------------------------------------------------------------
(* get_data.  seEnc: `msg' is the message the encoder is at, `head' whether   *)
(* its header is next, `left' what is to_write of the current chunk.  The     *)
(* units the encoder can produce now, messages being pulled as they are       *)
(* reached; an encoder at message m with nothing left pulls m next.           *)
SeRest(enc) ==
    IF enc.left = 0 THEN <<>>
    ELSE LET all == SeMessage(enc.msg)
             from == IF enc.head THEN 3 - enc.left ELSE 1 + Len(all) - enc.left
         IN  SubSeq(all, from, Len(all))
SeFollowing(enc) == IF enc.left = 0 THEN enc.msg ELSE enc.msg + 1
SeAvailable(enc, last) ==
    SeRest(enc) \o FlattenSeq([i \in 1..(last + 1 - SeFollowing(enc)) |->
                                SeMessage(SeFollowing(enc) - 1 + i)])

(* Zero-copy: a chunk at least as large as the buffer is handed out whole. *)
SeBatchOf(enc, last) ==
    LET avail == SeAvailable(enc, last)
        body == IF enc.left > 0 /\ ~enc.head THEN enc.left ELSE 0
        n == IF body >= SeBatch THEN body
             ELSE IF Len(avail) < SeBatch THEN Len(avail) ELSE SeBatch
    IN  SubSeq(avail, 1, n)

(* Where the encoder is after handing out `units'. *)
SeEncAfter(enc, units) ==
    IF units = <<>> THEN enc
    ELSE LET m == Last(units)[1]
             k == Last(units)[2]
             size == SeSize[m]
         IN  IF k = 2 + size THEN [msg |-> m + 1, left |-> 0, head |-> TRUE]
             ELSE IF k < 2 THEN [msg |-> m, left |-> 2 - k, head |-> TRUE]
             ELSE [msg |-> m, left |-> 2 + size - k, head |-> FALSE]

(* Room left in the buffer makes get_data pull the next message; the session *)
(* it pulls from is gone once a is ending.                                     *)
SePulls(enc) == Len(SeRest(enc)) < SeBatch

(* has_data, to_write > 0: a chunk is begun.  A body whose header has just    *)
(* filled the buffer is set up by the next call of get_data.                   *)
SeHasData(enc) == enc.left > 0 /\ (enc.head \/ enc.left < SeSize[enc.msg])

-----------------------------------------------------------------------------
SePushKeepsPart(r) ==
    IF ~r.ident
    THEN [r EXCEPT !.ident = TRUE, !.step = "flags", !.need = 1, !.got = <<>>]
    ELSE IF r.room = 0 THEN [r EXCEPT !.stuck = TRUE]
    ELSE [r EXCEPT !.pushed = Append(@, r.got), !.room = @ - 1, !.step = "flags",
                   !.need = 1]

(* The decoder, fed one unit: flags_ready, one_byte_size_ready and            *)
(* message_ready.  `stuck' when push_msg failed; the unit is then not taken.   *)
SePush(r) ==
    IF ~r.ident
    THEN [r EXCEPT !.ident = TRUE, !.step = "flags", !.need = 1, !.got = <<>>]
    ELSE IF r.room = 0 THEN [r EXCEPT !.stuck = TRUE]
    ELSE [r EXCEPT !.pushed = Append(@, r.got), !.room = @ - 1, !.step = "flags",
                   !.need = 1, !.got = <<>>]

SeReady(r) ==
    CASE r.need > 0 -> r
      [] r.need = 0 /\ r.step = "flags" -> [r EXCEPT !.step = "size", !.need = 1]
      [] r.need = 0 /\ r.step = "size" ->
           LET s == [r EXCEPT !.step = "body", !.need = SeSize[r.got[1][1]]]
           IN  IF s.need = 0 THEN SePush(s) ELSE s
      [] OTHER -> SePush(r)

SeFeed(r, u) ==
    LET s == SeReady([r EXCEPT !.stuck = FALSE]) IN
    IF r.stuck \/ s.stuck THEN [s EXCEPT !.stuck = TRUE]
    ELSE SeReady([s EXCEPT !.need = @ - 1, !.got = Append(@, u), !.taken = @ + 1])

(* process_buffer (and stalled, which runs the same loop): the decoder goes   *)
(* on from seDec, with room in the pipe for what was not acknowledged.         *)
SeDecoder(acked) ==
    [step |-> seDec.step, need |-> seDec.need, got |-> seDec.got, ident |-> seDec.ident,
     room |-> SeHwm - (Len(sePipe) - acked), stuck |-> FALSE, pushed |-> <<>>, taken |-> 0]

SeProcess(r, units) ==
    LET fed[n \in 0..Len(units)] ==
            IF n = 0 THEN SeReady(r) ELSE SeFeed(fed[n - 1], units[n])
    IN  fed[Len(units)]

SeDecoded(r) ==
    /\ seDec' = [step |-> r.step, need |-> r.need, got |-> r.got, ident |-> r.ident]
    /\ sePipe' = sePipe \o r.pushed

-----------------------------------------------------------------------------
(* The application sends, until its session is ended; the command wakes an   *)
(* engine whose pull failed, and activate_out writes at once if it can.        *)
SeSend ==
    /\ seSent < SeLast
    /\ ~seA.ending /\ ~seEof
    /\ seSent' = seSent + 1
    /\ seA' = [seA EXCEPT !.pollout = @ \/ seA.starved, !.starved = FALSE]
    /\ UNCHANGED <<seEnc, seOut, seWire, seBack, seB, seIn, seDec, sePipe, seTaken, seAcked,
                   seOutActive, seEof, seBroken, seCut, seDangling>>

(* out_event of a: refill the buffer, else write what fits. *)
SeFill ==
    /\ seA.alive /\ seA.pollout /\ seOut = <<>>
    /\ IF seA.greeted < 3
       THEN /\ seA' = [seA EXCEPT !.pollout = FALSE]
            /\ UNCHANGED <<seEnc, seOut, seDangling>>
       ELSE LET units == SeBatchOf(seEnc, seSent)
                dry == Len(units) = Len(SeAvailable(seEnc, seSent)) /\ Len(units) < SeBatch
            IN  /\ seOut' = units
                /\ seEnc' = SeEncAfter(seEnc, units)
                /\ seDangling' = (seDangling \/ (seA.ending /\ SePulls(seEnc)))
                /\ seA' = [seA EXCEPT !.pollout = units # <<>>, !.starved = @ \/ dry]
    /\ UNCHANGED <<seSent, seWire, seBack, seB, seIn, seDec, sePipe, seTaken, seAcked,
                   seOutActive, seEof, seBroken, seCut>>

SeDeleted == seA' = [seA EXCEPT !.alive = FALSE]

(* A write may take less than it is given; an error only stops the polling.   *)
(* A write that empties the buffer of an ending engine deletes it.             *)
SeWrite ==
    /\ seA.alive /\ seA.pollout /\ seOut # <<>>
    /\ IF seBroken
       THEN /\ IF seA.ending THEN SeDeleted ELSE seA' = [seA EXCEPT !.pollout = FALSE]
            /\ seCut' = (seCut \/ seA.ending)
            /\ UNCHANGED <<seOut, seWire, seEof>>
       ELSE \E n \in 1..Len(seOut) :
            /\ Len(seWire) + n <= SeWireCap
            /\ seWire' = seWire \o SubSeq(seOut, 1, n)
            /\ seOut' = SubSeq(seOut, n + 1, Len(seOut))
            /\ IF seA.ending /\ seOut' = <<>>
               THEN /\ SeDeleted
                    /\ seEof' = TRUE
                    /\ seCut' = (seCut \/ SeAvailable(seEnc, seSent) # <<>>)
               ELSE /\ seA' = [seA EXCEPT !.pollout = seOut' # <<>> \/ seA.greeted = 3]
                    /\ UNCHANGED <<seEof, seCut>>
    /\ UNCHANGED <<seEnc, seSent, seBack, seB, seIn, seDec, sePipe, seTaken, seAcked,
                   seOutActive, seBroken, seDangling>>

(* handshake of a: the peer's greeting, unit by unit; after the second, a     *)
(* adds its own third.  After that a only ever reads the end of the stream.    *)
SeGreetA ==
    /\ seA.alive /\ seA.greeted < 3 /\ seBack # <<>>
    /\ seBack' = Tail(seBack)
    /\ seA' = [seA EXCEPT !.greeted = @ + 1,
                          !.pollout = @ \/ (seA.greeted > 0)]
    /\ seOut' = IF seA.greeted = 1 THEN Append(seOut, SeHello(3)) ELSE seOut
    /\ UNCHANGED <<seEnc, seSent, seWire, seB, seIn, seDec, sePipe, seTaken, seAcked,
                   seOutActive, seEof, seBroken, seCut, seDangling>>

(* b's half of the greetings. *)
SeGreetB ==
    /\ seB.alive /\ seB.greeted < 3 /\ seWire # <<>>
    /\ seWire' = Tail(seWire)
    /\ seB' = [seB EXCEPT !.greeted = @ + 1,
                          !.out = IF seB.greeted = 1 THEN Append(@, SeHello(3)) ELSE @]
    /\ UNCHANGED <<seA, seEnc, seOut, seSent, seBack, seIn, seDec, sePipe, seTaken, seAcked,
                   seOutActive, seEof, seBroken, seCut, seDangling>>

SeWriteB ==
    /\ seB.alive /\ seB.out # <<>> /\ ~seBroken
    /\ Len(seBack) < SeWireCap
    /\ seBack' = Append(seBack, Head(seB.out))
    /\ seB' = [seB EXCEPT !.out = Tail(@)]
    /\ UNCHANGED <<seA, seEnc, seOut, seSent, seWire, seIn, seDec, sePipe, seTaken, seAcked,
                   seOutActive, seEof, seBroken, seCut, seDangling>>

(* in_event of b after the handshake: take a buffer (all the missing body at  *)
(* once when it is large), decode, stop polling when stuck.  At the end of    *)
(* the stream a stalled decoder keeps the engine, without its descriptor.      *)
SeInEvent(n) ==
    LET fresh == seIn = <<>>
        limit == IF seDec.need >= SeBatch THEN seDec.need ELSE SeBatch
        units == IF fresh THEN SubSeq(seWire, 1, n) ELSE seIn
        gone == fresh /\ seWire = <<>> /\ (seEof \/ seBroken)
        r == SeProcess(SeDecoder(seAcked), units)
        stalled == r.stuck
    IN  /\ IF fresh THEN n \in 0..Len(seWire) /\ n <= limit /\ (n > 0 \/ gone) ELSE n = 0
        /\ seWire' = IF fresh THEN SubSeq(seWire, n + 1, Len(seWire)) ELSE seWire
        /\ seIn' = SubSeq(units, r.taken + 1, Len(units))
        /\ SeDecoded(r)
        /\ seOutActive' = (seOutActive /\ ~stalled)
        /\ seB' = IF gone
                  THEN [seB EXCEPT !.io = FALSE, !.pollin = FALSE, !.alive = stalled]
                  ELSE [seB EXCEPT !.pollin = r.taken = Len(units)]
        /\ UNCHANGED <<seA, seEnc, seOut, seSent, seBack, seTaken, seEof, seBroken, seCut,
                       seDangling>>

SeRead ==
    /\ seB.alive /\ seB.greeted = 3 /\ seB.pollin
    /\ \E n \in 0..Len(seWire) : SeInEvent(n)
    /\ UNCHANGED seAcked

(* The peer ends during the handshake: error. *)
SeHandshakeFails ==
    /\ seB.alive /\ seB.greeted < 3 /\ seWire = <<>> /\ (seEof \/ seBroken)
    /\ seB' = [seB EXCEPT !.alive = FALSE]
    /\ UNCHANGED <<seA, seEnc, seOut, seSent, seWire, seBack, seIn, seDec, sePipe, seTaken,
                   seAcked, seOutActive, seEof, seBroken, seCut, seDangling>>

(* The application takes a message from the pipe. *)
SeReceive ==
    /\ seTaken < Len(sePipe)
    /\ seTaken' = seTaken + 1
    /\ UNCHANGED <<seA, seEnc, seOut, seSent, seWire, seBack, seB, seIn, seDec, sePipe,
                   seAcked, seOutActive, seEof, seBroken, seCut, seDangling>>

(* compute_lwm: the reader acknowledges every so many messages. *)
SeLwm == IF SeHwm > 2048 THEN SeHwm - 1024 ELSE (SeHwm + 1) \div 2

(* An acknowledgement of reads arrives.  If the pipe was full, activate_in:   *)
(* poll again and go on with the buffer, or, when the connection is gone, push *)
(* the message the decoder was stalled with and end (the code asserts that it  *)
(* is not stalled any more).                                                    *)
SeActivateIn ==
    /\ seAcked + SeLwm <= seTaken
    /\ seAcked' = seAcked + SeLwm
    /\ IF seOutActive \/ ~seB.alive
       THEN /\ seOutActive' = TRUE
            /\ UNCHANGED <<seB, seIn, seDec, sePipe>>
       ELSE LET r == SeProcess(SeDecoder(seAcked + SeLwm), seIn)
            IN  /\ SeDecoded(r)
                /\ seIn' = SubSeq(seIn, r.taken + 1, Len(seIn))
                /\ seOutActive' = ~r.stuck
                /\ seB' = IF ~seB.io THEN [seB EXCEPT !.alive = r.stuck]
                          ELSE [seB EXCEPT !.pollin = r.taken = Len(seIn)]
    /\ UNCHANGED <<seA, seEnc, seOut, seSent, seWire, seBack, seTaken, seEof, seBroken,
                   seCut, seDangling>>

(* a's session is deleted, at any time: terminate.  An engine that has begun *)
(* a chunk stays for it, without the session; any other goes at once, whatever *)
(* is in its buffer, as one that has no encoder yet does.                       *)
SeTerminate ==
    /\ seA.alive /\ ~seA.ending
    /\ IF SeHasData(seEnc)
       THEN /\ seA' = [seA EXCEPT !.ending = TRUE]
            /\ UNCHANGED <<seOut, seEof, seCut>>
       ELSE /\ SeDeleted
            /\ seOut' = <<>>
            /\ seEof' = TRUE
            /\ seCut' = (seCut \/ seOut # <<>> \/ SeAvailable(seEnc, seSent) # <<>>)
    /\ UNCHANGED <<seEnc, seSent, seWire, seBack, seB, seIn, seDec, sePipe, seTaken, seAcked,
                   seOutActive, seBroken, seDangling>>

(* The network breaks the connection (external); what TCP held is lost, and a *)
(* sees it as soon as it reads: error, detach.  An ending engine has in_event   *)
(* flush the session it no longer has.                                           *)
SeBreak ==
    /\ ~seBroken /\ ~seEof
    /\ seBroken' = TRUE
    /\ seWire' = <<>> /\ seBack' = <<>>
    /\ UNCHANGED <<seA, seEnc, seOut, seSent, seB, seIn, seDec, sePipe, seTaken, seAcked,
                   seOutActive, seEof, seCut, seDangling>>

SeErrorA ==
    /\ seA.alive /\ seBroken
    /\ IF seA.ending
       THEN seDangling' = TRUE /\ UNCHANGED seA
       ELSE SeDeleted /\ UNCHANGED seDangling
    /\ UNCHANGED <<seEnc, seOut, seSent, seWire, seBack, seB, seIn, seDec, sePipe, seTaken,
                   seAcked, seOutActive, seEof, seBroken, seCut>>

SeEngines ==
    \/ SeFill \/ SeWrite \/ SeGreetA \/ SeGreetB \/ SeWriteB \/ SeRead
    \/ SeActivateIn \/ SeErrorA \/ SeHandshakeFails

(* Nothing is said of a after it used a deleted session. *)
SeNext ==
    /\ ~seDangling
    /\ SeSend \/ SeEngines \/ SeReceive \/ SeTerminate \/ SeBreak

(* The I/O threads poll for ever, and both applications go on. *)
SeFairness == WF_seVars(~seDangling /\ (SeSend \/ SeEngines \/ SeReceive))

SeSpec == SeInit /\ [][SeNext]_seVars /\ SeFairness

-----------------------------------------------------------------------------
(* However the stream is cut, and wherever it stalls or ends, the pipe of the *)
(* receiving session holds the messages that were sent: whole, in order, each *)
(* once, none beyond the mark (decoder.hpp:93-140, stream_engine.cpp:180-240). *)
SeWholeInOrder ==
    /\ \A i \in 1..Len(sePipe) : sePipe[i] = SeMessage(i)
    /\ Len(sePipe) - seAcked <= SeHwm

(* Greetings never wait for each other, a stalled decoder goes on when there  *)
(* is room, and a message that was complete when the peer closed the           *)
(* connection still arrives: every message given to the session before it was  *)
(* ended is delivered, unless the network broke the connection or the sender   *)
(* ended with units still to be sent (terminate looks at the chunk of the      *)
(* encoder, not at outsize).                                                    *)
SeDelivers ==
    <>(\/ seTaken = seSent /\ (seSent = SeLast \/ ~seA.alive)
       \/ seBroken \/ seCut \/ seDangling)
=============================================================================
