------------------------------- MODULE EncryptedConn -------------------------------
(***************************************************************************)
(* One direction of e2e.EncryptedConn: writers that seal frames under      *)
(* writeMu, the wire between two peers, and the reader with its replay     *)
(* guard and its buffer.  The two directions share nothing but the         *)
(* connection: keys, nonces, locks and buffers are per direction.          *)
(*                                                                         *)
(* Sealing and opening are perfect: a frame opens iff nothing on the way   *)
(* changed it.  A byte is the pair of its writer and its place in that     *)
(* writer's message, so that every byte written is told from every other.  *)
(***************************************************************************)
EXTENDS Integers, FiniteSets, SequencesExt

CONSTANTS Writers,      \* goroutines, each making one Write
          MsgLen,       \* bytes a Write is given
          MaxFrameSize, \* plaintext bytes of a frame, at most
          MaxNonce,     \* the largest value of the frame counter, ^uint64(0)
          None,
          Faults,       \* what the wire may do: "replay", "reorder", "drop",
                        \* "corrupt"; "crash", a sender dying in conn.Write;
                        \* "reset", the connection breaking under both ends
          MaxFaults     \* bound: faults of the wire in one behaviour

ASSUME SizeAssumption == /\ MsgLen \in Nat \ {0}
                         /\ MaxFrameSize \in Nat \ {0}
                         /\ MaxNonce \in Nat
                         /\ MaxFaults \in Nat
ASSUME NoneAssumption == None \notin Writers
ASSUME FaultsAssumption == Faults \subseteq {"replay", "reorder", "drop", "corrupt", "crash", "reset"}

VARIABLES writer,    \* writer[w]: where its Write stands
          rest,      \* rest[w]: the bytes it has yet to send
          writeMu,   \* the writer holding writeMu, or None
          counter,   \* nonceSequencer.counter
          link,      \* the connection: "up", "cut" by the network, or "dead"
                     \* with its sender
          wire,      \* frames sent and not yet read
          sent,      \* history: every frame sealed and sent whole
          written,   \* history: the bytes in those, one after the other
          nFaults,   \* faults of the wire so far
          reader,    \* whether Read still goes on, and how it ended
          last,      \* replayGuard: the last nonce accepted, -1 for none
          current,   \* the frame whose header has been read, <<f>>, or <<>>
          readBuf,   \* plaintext of a partially consumed frame
          delivered  \* history: what Read has returned

sendVars == <<writer, rest, writeMu, counter, link, sent, written>>
readVars == <<reader, last, current, readBuf, delivered>>
vars == <<sendVars, wire, nFaults, readVars>>

Bytes == Writers \X (1..MsgLen)
Message(w) == [i \in 1..MsgLen |-> <<w, i>>]

(* "cut" says how much of a frame got through at the connection's end: its *)
(* header in part, the header alone, or the header and a part of the body. *)
Cuts == {"inHeader", "afterHeader", "inBody"}
IsFrame(f) == /\ f.nonce \in 0..MaxNonce
              /\ f.data \in Seq(Bytes) /\ Len(f.data) \in 1..MaxFrameSize
              /\ f.cut \in Cuts \cup {"no"}
              /\ f.good \in BOOLEAN

TypeOK == /\ writer \in [Writers -> {"idle", "writing", "returned", "failed"}]
          /\ rest \in [Writers -> Seq(Bytes)]
          /\ writeMu \in Writers \cup {None}
          /\ counter \in 0..MaxNonce
          /\ link \in {"up", "cut", "dead"}
          /\ \A i \in DOMAIN wire : IsFrame(wire[i])
          /\ \A i \in DOMAIN sent : IsFrame(sent[i])
          /\ written \in Seq(Bytes)
          /\ nFaults \in 0..MaxFaults
          /\ reader \in {"reading", "eof", "failed"}
          /\ last \in -1..MaxNonce
          /\ Len(current) \in {0, 1}
          /\ readBuf \in Seq(Bytes)
          /\ delivered \in Seq(Bytes)

Init == /\ writer = [w \in Writers |-> "idle"]
        /\ rest = [w \in Writers |-> Message(w)]
        /\ writeMu = None
        /\ counter = 0
        /\ link = "up"
        /\ wire = <<>>
        /\ sent = <<>>
        /\ written = <<>>
        /\ nFaults = 0
        /\ reader = "reading"
        /\ last = -1
        /\ current = <<>>
        /\ readBuf = <<>>
        /\ delivered = <<>>

----------------------------------------------------------------------------------
(* Faulty variants of operators below, which show that the properties can  *)
(* fail: a Write that does not wait for writeMu, one that does not give it *)
(* back on an error; a chunk one byte too long; a counter that wraps; a    *)
(* guard that lets an equal nonce pass; a short Read that drops the rest of*)
(* its frame.                                                              *)
FailKeepsMu(w, outcome) ==
  /\ writer' = [writer EXCEPT ![w] = outcome]
  /\ writeMu' = IF outcome = "failed" THEN writeMu ELSE None
NonceWraps == [ok |-> TRUE, counter |-> (counter + 1) % MaxNonce]
AcceptsEqual(nonce) == nonce >= last
TakeDropsRest(n) == /\ delivered' = delivered \o SubSeq(readBuf, 1, n)
                    /\ readBuf' = <<>>

----------------------------------------------------------------------------------
(* Write: one critical section for the whole of p, cut into chunks.        *)
BeginWrite(w) == /\ link # "dead"
                 /\ writer[w] = "idle"
                 /\ writeMu = None
                 /\ writer' = [writer EXCEPT ![w] = "writing"]
                 /\ writeMu' = w
                 /\ UNCHANGED <<rest, counter, link, wire, sent, written, nFaults, readVars>>

Chunk(w) == SubSeq(rest[w], 1, Min({MaxFrameSize, Len(rest[w])}))
Frame(w, cut) == [nonce |-> counter, data |-> Chunk(w), cut |-> cut, good |-> TRUE]

(* nonceSequencer.next: an error, never a wrap, at the last counter value. *)
NextNonce == [ok |-> counter # MaxNonce,
              counter |-> IF counter = MaxNonce THEN counter ELSE counter + 1]

Sending(w) == writer[w] = "writing" /\ rest[w] # <<>>

WriteFrame(w) == /\ link = "up" /\ Sending(w)
                 /\ NextNonce.ok
                 /\ counter' = NextNonce.counter
                 /\ wire' = Append(wire, Frame(w, "no"))
                 /\ sent' = Append(sent, Frame(w, "no"))
                 /\ written' = written \o Chunk(w)
                 /\ rest' = [rest EXCEPT ![w] = SubSeq(@, Len(Chunk(w)) + 1, Len(@))]
                 /\ UNCHANGED <<writer, writeMu, link, nFaults, readVars>>

Return(w, outcome) == /\ writer' = [writer EXCEPT ![w] = outcome]
                      /\ writeMu' = None

(* The nonce is taken before conn.Write finds the connection cut.          *)
WriteFails(w) == /\ link # "dead" /\ Sending(w)
                 /\ ~NextNonce.ok \/ link = "cut"
                 /\ counter' = NextNonce.counter
                 /\ Return(w, "failed")
                 /\ UNCHANGED <<rest, link, wire, sent, written, nFaults, readVars>>

EndWrite(w) == /\ link # "dead"
               /\ writer[w] = "writing"
               /\ rest[w] = <<>>
               /\ Return(w, "returned")
               /\ UNCHANGED <<rest, counter, link, wire, sent, written, nFaults, readVars>>

(* What may be on the wire once it has taken a frame in part.              *)
InPart == {Append(wire, Frame(w, cut)) : w \in {v \in Writers : Sending(v) /\ NextNonce.ok},
                                         cut \in Cuts}

(* The sending process dies: a frame it was writing may leave in part.  (On*)
(* a connection already cut that would change nothing for its reader.)     *)
Crash == /\ "crash" \in Faults
         /\ link = "up"
         /\ link' = "dead"
         /\ wire' \in {wire} \cup InPart
         /\ UNCHANGED <<writer, rest, writeMu, counter, sent, written, nFaults, readVars>>

(* The network cuts the connection: any end of what is on it may be lost,  *)
(* what conn.Write took before it noticed included.                        *)
Reset == /\ "reset" \in Faults
         /\ link = "up"
         /\ link' = "cut"
         /\ \/ wire' \in InPart
            \/ \E n \in 0..Len(wire) : wire' = SubSeq(wire, 1, n)
            \/ \E n \in 1..Len(wire), cut \in Cuts :
                 wire' = Append(SubSeq(wire, 1, n - 1), [wire[n] EXCEPT !.cut = cut])
         /\ UNCHANGED <<writer, rest, writeMu, counter, sent, written, nFaults, readVars>>

----------------------------------------------------------------------------------
(* The wire.  Only whole frames are replayed, moved, dropped or changed,   *)
(* all of them still ahead of the reader.                                  *)
Fault(kind) == /\ kind \in Faults
               /\ nFaults < MaxFaults
               /\ nFaults' = nFaults + 1
               /\ UNCHANGED <<sendVars, readVars>>

Whole == {i \in DOMAIN wire : wire[i].cut = "no"}

Replay == /\ Fault("replay")
          /\ \E f \in ToSet(sent), i \in Whole \cup {Len(wire) + 1} :
               /\ \A j \in DOMAIN wire : wire[j].cut # "no" => i <= j
               /\ wire' = InsertAt(wire, i, f)

Reorder == /\ Fault("reorder")
           /\ \E i, j \in Whole :
                /\ i < j
                /\ wire' = [wire EXCEPT ![i] = wire[j], ![j] = wire[i]]

Drop == /\ Fault("drop")
        /\ \E i \in Whole : wire' = RemoveAt(wire, i)

(* A frame with another length or nonce does not open either.              *)
Corrupt == /\ Fault("corrupt")
           /\ \E i \in Whole, nonce \in 0..MaxNonce :
                wire' = [wire EXCEPT ![i].nonce = nonce, ![i].good = FALSE]

----------------------------------------------------------------------------------
(* Read.  A buffered remainder is served first.                            *)
TakeFrom(n) == /\ delivered' = delivered \o SubSeq(readBuf, 1, n)
               /\ readBuf' = SubSeq(readBuf, n + 1, Len(readBuf))

Take == /\ reader = "reading"
        /\ \E n \in 1..Len(readBuf) : TakeFrom(n)
        /\ UNCHANGED <<sendVars, wire, nFaults, reader, last, current>>

(* readFrame: the header, whose nonce replayGuard judges before anything   *)
(* has been authenticated, then the body.  Both callers of Read, io.Copy   *)
(* and io.ReadFull, stop at its first error.                               *)
Accepts(nonce) == nonce > last

ReadHeader == /\ reader = "reading"
              /\ readBuf = <<>> /\ current = <<>>
              /\ wire # <<>>
              /\ LET f == Head(wire) IN
                   /\ wire' = Tail(wire)
                   /\ IF f.cut # "inHeader" /\ Accepts(f.nonce)
                      THEN /\ current' = <<f>>
                           /\ last' = f.nonce
                           /\ UNCHANGED reader
                      ELSE /\ reader' = "failed"
                           /\ UNCHANGED <<current, last>>
              /\ UNCHANGED <<sendVars, nFaults, readBuf, delivered>>

(* io.ReadFull reports a clean EOF when not one byte of the body is there, *)
(* unless the connection has an error of its own.                          *)
AtEnd == IF link = "cut" THEN {"eof", "failed"} ELSE {"eof"}

ReadBody == /\ reader = "reading"
            /\ current # <<>>
            /\ LET f == current[1] IN
                 \/ /\ f.cut = "no" /\ f.good
                    /\ readBuf' = f.data
                    /\ current' = <<>>
                    /\ UNCHANGED reader
                 \/ /\ f.cut # "no" \/ ~f.good
                    /\ reader' \in IF f.cut = "afterHeader" THEN AtEnd ELSE {"failed"}
                    /\ UNCHANGED <<readBuf, current>>
            /\ UNCHANGED <<sendVars, wire, nFaults, last, delivered>>

ReadEof == /\ reader = "reading"
           /\ readBuf = <<>> /\ current = <<>>
           /\ wire = <<>> /\ link # "up"
           /\ reader' \in AtEnd
           /\ UNCHANGED <<sendVars, wire, nFaults, last, current, readBuf, delivered>>

----------------------------------------------------------------------------------
WriteStep(w) == BeginWrite(w) \/ WriteFrame(w) \/ WriteFails(w) \/ EndWrite(w)
WireFault == Replay \/ Reorder \/ Drop \/ Corrupt
ReadStep == Take \/ ReadHeader \/ ReadBody \/ ReadEof

Next == (\E w \in Writers : WriteStep(w)) \/ Crash \/ Reset \/ WireFault \/ ReadStep

Spec == Init /\ [][Next]_vars

(* Writers and the reader's caller keep running; the wire owes no fault.   *)
FairSpec == Spec /\ WF_vars(ReadStep) /\ \A w \in Writers : WF_vars(WriteStep(w))

----------------------------------------------------------------------------------
(* The frames of one Write are not mixed with another's, whatever writers  *)
(* run at once (writeMu in Write).                                         *)
WritesContiguous ==
  \A i, k \in DOMAIN written : \A j \in i..k :
    written[i][1] = written[k][1] => written[j][1] = written[i][1]

(* No two frames are sealed with the same nonce, at the end of the counter *)
(* neither (nonceSequencer.next).                                          *)
NoncesUnique == \A i, j \in DOMAIN sent : i # j => sent[i].nonce # sent[j].nonce

(* Whatever the wire replays, reorders, drops or corrupts, the bytes read  *)
(* are bytes written, each at most once, in their order, and those of one  *)
(* Write with no other's in between (replayGuard, readFrame, writeMu); no  *)
(* frame or buffer is larger than a frame may be.                          *)
PlaceOf(b) == CHOOSE i \in DOMAIN written : written[i] = b
DeliveredInOrder == /\ TypeOK
                    /\ WritesContiguous
                    /\ ToSet(delivered) \subseteq ToSet(written)
                    /\ \A i, j \in DOMAIN delivered :
                         i < j => PlaceOf(delivered[i]) < PlaceOf(delivered[j])

(* For as long as the wire keeps order and loses nothing, the connection is*)
(* the byte stream git expects of a net.Conn, across frames, short reads,  *)
(* a sender that dies and a connection that breaks (Read, Write).          *)
Stream == INSTANCE ByteStream
IsByteStream ==
  Stream!Init /\ [][nFaults' > 0 \/ Stream!Write \/ Stream!Read]_(Stream!streamVars)

(* Every Write of a living sender returns, with an error if the nonces run *)
(* out or the connection breaks (Write, writeFrame, next).                 *)
WritesEnd == \A w \in Writers : <>(writer[w] \in {"returned", "failed"} \/ link = "dead")

(* Over an ordinary wire every frame that left whole is read in the end,   *)
(* even if its sender is dead by then (Write, Read).                       *)
AllDelivered == <>[](nFaults = 0 /\ link # "cut" => delivered = written)
====================================================================================
