--------------------------- MODULE EncryptedConnProofs ---------------------------
(***************************************************************************)
(* What EncryptedConn keeps for any number of writers, any sizes and any   *)
(* faults of the wire.  Every byte written is followed from its message    *)
(* (SendInv) through the frame that carries it (FrameInv) to the reader    *)
(* (ReadInv); the nonce of a frame is its place among those sent.          *)
(***************************************************************************)
EXTENDS EncryptedConn, SequenceTheorems, TLAPS

Frames == {f \in [nonce : 0..MaxNonce, data : Seq(Bytes),
                  cut : Cuts \cup {"no"}, good : BOOLEAN] :
             Len(f.data) \in 1..MaxFrameSize}

(* Bytes of w sent so far.                                                 *)
Done(w) == MsgLen - Len(rest[w])

(* Byte b was written before byte c.                                       *)
Before(b, c) == \E i, j \in DOMAIN written : i < j /\ written[i] = b /\ written[j] = c

ScalarInv == /\ writer \in [Writers -> {"idle", "writing", "returned", "failed"}]
             /\ rest \in [Writers -> Seq(Bytes)]
             /\ writeMu \in Writers \cup {None}
             /\ counter \in 0..MaxNonce
             /\ link \in {"up", "cut", "dead"}
             /\ sent \in Seq(Frames)
             /\ written \in Seq(Bytes)
             /\ nFaults \in 0..MaxFaults
             /\ reader \in {"reading", "eof", "failed"}

(* What is left of a message is its end; only the writer with writeMu is   *)
(* in the middle of one, and the last byte written is its.                 *)
RestInv == \A w \in Writers :
  /\ Len(rest[w]) <= MsgLen
  /\ \A i \in 1..Len(rest[w]) : rest[w][i] = <<w, Done(w) + i>>
  /\ writer[w] = "idle" => Done(w) = 0
  /\ writer[w] = "writing" => writeMu = w
  /\ writer[w] = "writing" /\ Done(w) > 0 =>
       written # <<>> /\ written[Len(written)][1] = w

(* What has been written was sent, once, without interruption.             *)
WrittenInv == /\ \A i \in DOMAIN written : written[i][2] <= Done(written[i][1])
              /\ \A i, j \in DOMAIN written : written[i] = written[j] => i = j
              /\ WritesContiguous

(* Frames carry consecutive nonces, and what was written, in its order.    *)
(* (The counter goes on alone where a Write finds the connection cut.)     *)
FrameInv == /\ link = "up" => Len(sent) = counter
            /\ \A k \in DOMAIN sent : sent[k].nonce = k - 1
            /\ \A k \in DOMAIN sent : \A i \in DOMAIN sent[k].data :
                 \E n \in DOMAIN written : written[n] = sent[k].data[i]
            /\ \A k, m \in DOMAIN sent :
                 \A i \in DOMAIN sent[k].data, j \in DOMAIN sent[m].data :
                   k < m \/ (k = m /\ i < j) => Before(sent[k].data[i], sent[m].data[j])

SendInv == ScalarInv /\ RestInv /\ WrittenInv /\ FrameInv

(* Frames that may be on the wire: one that opens was sent.                *)
Possible == {f \in Frames : f.cut = "no" /\ f.good => f \in ToSet(sent)}

(* Byte b came in a frame the reader had accepted before the current one.  *)
Accepted(b) == \E k \in DOMAIN sent :
  /\ \E i \in DOMAIN sent[k].data : sent[k].data[i] = b
  /\ k - 1 <= last /\ (current # <<>> => k - 1 < last)

Got == delivered \o readBuf

ReadInv == /\ wire \in Seq(Possible)
           /\ current \in Seq(Possible) /\ Len(current) \in {0, 1}
           /\ last \in -1..MaxNonce
           /\ current # <<>> => readBuf = <<>> /\ current[1].nonce = last
           /\ readBuf \in Seq(Bytes) /\ Len(readBuf) <= MaxFrameSize
           /\ delivered \in Seq(Bytes)
           /\ \A i \in DOMAIN Got : Accepted(Got[i])
           /\ \A i, j \in DOMAIN Got : i < j => Before(Got[i], Got[j])

IInv == SendInv /\ ReadInv

(* The library's Min, of two sizes.                                        *)
LEMMA MinOfTwo ==
  ASSUME NEW m \in Nat, NEW n \in Nat
  PROVE  Min({m, n}) = IF m <= n THEN m ELSE n
<1>1. \E x \in {m, n} : \A y \in {m, n} : x <= y
  OBVIOUS
<1>2. Min({m, n}) \in {m, n} /\ \A y \in {m, n} : Min({m, n}) <= y
  BY <1>1 DEF Min
<1> QED BY <1>2

(* A chunk is the next bytes of a message, as many as a frame takes, and   *)
(* leaves those after it (Write).                                          *)
LEMMA ChunkProperties ==
  ASSUME NEW w \in Writers, rest[w] \in Seq(Bytes), rest[w] # <<>>
  PROVE  /\ Chunk(w) \in Seq(Bytes)
         /\ Len(Chunk(w)) \in 1..MaxFrameSize
         /\ Len(Chunk(w)) <= Len(rest[w])
         /\ \A i \in 1..Len(Chunk(w)) : Chunk(w)[i] = rest[w][i]
         /\ LET left == SubSeq(rest[w], Len(Chunk(w)) + 1, Len(rest[w]))
            IN  /\ left \in Seq(Bytes)
                /\ Len(left) = Len(rest[w]) - Len(Chunk(w))
                /\ \A i \in 1..Len(left) : left[i] = rest[w][Len(Chunk(w)) + i]
<1> DEFINE s == rest[w]
           n == Min({MaxFrameSize, Len(s)})
<1>1. Len(s) \in Nat /\ Len(s) # 0
  BY LenProperties, EmptySeq
<1>2. n \in 1..MaxFrameSize /\ n <= Len(s) /\ n \in Nat
  <2>1. n = IF MaxFrameSize <= Len(s) THEN MaxFrameSize ELSE Len(s)
    BY <1>1, SizeAssumption, MinOfTwo
  <2> QED BY <1>1, <2>1, SizeAssumption
<1> HIDE DEF n
<1>3. \A i \in 1..Len(s) : s[i] \in Bytes
  BY ElementOfSeq
<1>4. /\ SubSeq(s, 1, n) \in Seq(Bytes) /\ Len(SubSeq(s, 1, n)) = n
      /\ \A i \in 1..n : SubSeq(s, 1, n)[i] = s[i]
  BY <1>1, <1>2, <1>3, SubSeqProperties
<1>5. Chunk(w) = SubSeq(s, 1, n)
  BY DEF Chunk, n
<1>6. /\ SubSeq(s, n + 1, Len(s)) \in Seq(Bytes) /\ Len(SubSeq(s, n + 1, Len(s))) = Len(s) - n
      /\ \A i \in 1..Len(s) - n : SubSeq(s, n + 1, Len(s))[i] = s[n + i]
  <2> DEFINE m == n + 1
  <2>1. m \in Int /\ Len(s) \in Int /\ \A i \in m..Len(s) : s[i] \in Bytes
    BY <1>1, <1>2, <1>3
  <2> HIDE DEF m
  <2>2. /\ SubSeq(s, m, Len(s)) \in Seq(Bytes)
        /\ Len(SubSeq(s, m, Len(s))) = IF m <= Len(s) THEN Len(s) - m + 1 ELSE 0
        /\ \A i \in 1..Len(s) - m + 1 : SubSeq(s, m, Len(s))[i] = s[m + i - 1]
    BY <2>1, SubSeqProperties
  <2> QED BY <1>1, <1>2, <2>2 DEF m
<1> QED BY <1>2, <1>4, <1>5, <1>6

(* A message is a sequence of bytes of its writer.                         *)
LEMMA MessageProperties ==
  ASSUME NEW w \in Writers
  PROVE  /\ Message(w) \in Seq(Bytes) /\ Len(Message(w)) = MsgLen
         /\ \A i \in 1..MsgLen : Message(w)[i] = <<w, i>>
<1>1. Message(w) \in [1..MsgLen -> Bytes]
  BY DEF Message, Bytes
<1> QED BY <1>1, SizeAssumption DEF Message

(* Nothing is written or read in the beginning.                            *)
LEMMA InitIInv ==
  Init => IInv
<1> SUFFICES ASSUME Init PROVE IInv
  OBVIOUS
<1> USE MessageProperties, SizeAssumption, NoneAssumption DEF Init
<1>1. ScalarInv
  BY EmptySeq DEF ScalarInv
<1>2. \A w \in Writers : rest[w] = Message(w) /\ writer[w] = "idle"
  OBVIOUS
<1>3. RestInv
  BY <1>2 DEF RestInv, Done
<1>4. WrittenInv
  BY DEF WrittenInv, WritesContiguous
<1>5. FrameInv
  BY DEF FrameInv
<1>6. ReadInv
  <2>1. Got = <<>>
    BY DEF Got
  <2> QED BY <2>1, EmptySeq DEF ReadInv
<1> QED BY <1>1, <1>3, <1>4, <1>5, <1>6 DEF IInv, SendInv

(* What WriteFrame adds: the next bytes of w's message, to the end of what *)
(* has been written.                                                       *)
LEMMA WriteFrameExtends ==
  ASSUME SendInv, NEW w \in Writers, WriteFrame(w)
  PROVE  LET n == Len(Chunk(w))
         IN  /\ n \in 1..MaxFrameSize /\ n <= Len(rest[w])
             /\ Chunk(w) \in Seq(Bytes)
             /\ \A i \in 1..n : Chunk(w)[i] = <<w, Done(w) + i>>
             /\ rest' \in [Writers -> Seq(Bytes)]
             /\ \A v \in Writers \ {w} : rest'[v] = rest[v] /\ Done(v)' = Done(v)
             /\ Len(rest'[w]) = Len(rest[w]) - n /\ Done(w)' = Done(w) + n
             /\ \A i \in 1..Len(rest'[w]) : rest'[w][i] = <<w, Done(w)' + i>>
             /\ written' \in Seq(Bytes) /\ Len(written') = Len(written) + n
             /\ \A i \in 1..Len(written) : written'[i] = written[i]
             /\ \A i \in 1..n : written'[Len(written) + i] = Chunk(w)[i]
<1> DEFINE n == Len(Chunk(w))
<1>1. /\ rest[w] \in Seq(Bytes) /\ rest[w] # <<>> /\ written \in Seq(Bytes)
      /\ written' = written \o Chunk(w)
      /\ rest' = [rest EXCEPT ![w] = SubSeq(rest[w], n + 1, Len(rest[w]))]
  BY DEF SendInv, ScalarInv, WriteFrame, Sending
<1>2. /\ n \in 1..MaxFrameSize /\ n <= Len(rest[w]) /\ Chunk(w) \in Seq(Bytes)
      /\ \A i \in 1..n : Chunk(w)[i] = rest[w][i]
      /\ SubSeq(rest[w], n + 1, Len(rest[w])) \in Seq(Bytes)
      /\ Len(SubSeq(rest[w], n + 1, Len(rest[w]))) = Len(rest[w]) - n
      /\ \A i \in 1..Len(rest[w]) - n :
           SubSeq(rest[w], n + 1, Len(rest[w]))[i] = rest[w][n + i]
  BY <1>1, ChunkProperties
<1> HIDE DEF n
<1>3. Len(rest[w]) \in Nat /\ MaxFrameSize \in Nat /\ MsgLen \in Nat /\ Len(written) \in Nat
  BY <1>1, LenProperties, SizeAssumption
<1>4. /\ rest' \in [Writers -> Seq(Bytes)]
      /\ \A v \in Writers \ {w} : rest'[v] = rest[v]
      /\ rest'[w] = SubSeq(rest[w], n + 1, Len(rest[w]))
  BY <1>1, <1>2 DEF SendInv, ScalarInv
<1>5. \A i \in 1..n : Chunk(w)[i] = <<w, Done(w) + i>>
  BY <1>2, <1>3 DEF SendInv, RestInv
<1>6. Len(rest'[w]) = Len(rest[w]) - n /\ Done(w)' = Done(w) + n
  <2>1. Len(rest'[w]) = Len(rest[w]) - n
    BY <1>2, <1>4
  <2>2. Done(w)' = MsgLen - Len(rest'[w])
    BY DEF Done
  <2>3. MsgLen - (Len(rest[w]) - n) = (MsgLen - Len(rest[w])) + n
    BY <1>2, <1>3
  <2> QED BY <2>1, <2>2, <2>3 DEF Done
<1>7. \A i \in 1..Len(rest'[w]) : rest'[w][i] = <<w, Done(w)' + i>>
  <2>1. ASSUME NEW i \in 1..Len(rest'[w]) PROVE rest'[w][i] = <<w, Done(w)' + i>>
    <3>1. rest'[w][i] = rest[w][n + i] /\ n + i \in 1..Len(rest[w])
      BY <1>2, <1>3, <1>4, <1>6
    <3>2. rest[w][n + i] = <<w, Done(w) + (n + i)>>
      BY <3>1 DEF SendInv, RestInv
    <3> QED BY <1>2, <1>3, <1>6, <3>1, <3>2 DEF Done
  <2> QED BY <2>1
<1>8. /\ written' \in Seq(Bytes) /\ Len(written') = Len(written) + n
      /\ \A i \in 1..Len(written) + n :
           written'[i] = IF i <= Len(written) THEN written[i] ELSE Chunk(w)[i - Len(written)]
  BY <1>1, <1>2, ConcatProperties DEF n
<1>9. /\ \A i \in 1..Len(written) : written'[i] = written[i]
      /\ \A i \in 1..n : written'[Len(written) + i] = Chunk(w)[i]
  <2>1. \A i \in 1..Len(written) : i \in 1..Len(written) + n /\ i <= Len(written)
    BY <1>2, <1>3
  <2>2. ASSUME NEW i \in 1..n PROVE written'[Len(written) + i] = Chunk(w)[i]
    <3>1. /\ Len(written) + i \in 1..Len(written) + n
          /\ ~(Len(written) + i <= Len(written))
          /\ (Len(written) + i) - Len(written) = i
      BY <1>2, <1>3
    <3> QED BY <1>8, <3>1
  <2> QED BY <1>8, <2>1, <2>2
<1> QED BY <1>2, <1>4, <1>5, <1>6, <1>7, <1>8, <1>9 DEF n, Done

(* A byte is told by its writer and its place.                             *)
LEMMA ByteParts ==
  ASSUME NEW b \in Bytes
  PROVE  b[1] \in Writers /\ b[2] \in 1..MsgLen /\ b = <<b[1], b[2]>>
BY DEF Bytes

(* The counter ends at its largest value (nonceSequencer.next).            *)
LEMMA NonceProperties ==
  ASSUME counter \in 0..MaxNonce, NextNonce.ok
  PROVE  counter # MaxNonce /\ NextNonce.counter = counter + 1
BY DEF NextNonce

(* writeMu lets one Write at a time send frames: its bytes follow each     *)
(* other, and each is sent once.                                           *)
LEMMA WriteFramePreservesSend ==
  ASSUME SendInv, NEW w \in Writers, WriteFrame(w)
  PROVE  ScalarInv' /\ RestInv' /\ WrittenInv'
<1> DEFINE n == Len(Chunk(w))
           old == Len(written)
           left(v) == MsgLen - Len(rest'[v])
<1>1. /\ writer[w] = "writing" /\ writeMu = w
      /\ counter' = counter + 1 /\ counter' \in 0..MaxNonce
      /\ sent' = Append(sent, Frame(w, "no"))
      /\ UNCHANGED <<writer, writeMu, link, nFaults, readVars>>
  <2>1. writer[w] = "writing" /\ NextNonce.ok /\ counter' = NextNonce.counter
    BY DEF WriteFrame, Sending
  <2>2. counter' = counter + 1 /\ counter' \in 0..MaxNonce
    BY <2>1, NonceProperties, SizeAssumption DEF SendInv, ScalarInv
  <2>3. writeMu = w
    BY <2>1 DEF SendInv, RestInv
  <2>4. /\ sent' = Append(sent, Frame(w, "no"))
        /\ UNCHANGED <<writer, writeMu, link, nFaults, readVars>>
    BY DEF WriteFrame
  <2> QED BY <2>1, <2>2, <2>3, <2>4
<1>2. /\ n \in 1..MaxFrameSize /\ n <= Len(rest[w]) /\ Chunk(w) \in Seq(Bytes)
      /\ \A i \in 1..n : Chunk(w)[i] = <<w, Done(w) + i>>
      /\ rest' \in [Writers -> Seq(Bytes)]
      /\ \A v \in Writers \ {w} : rest'[v] = rest[v] /\ Done(v)' = Done(v)
      /\ Len(rest'[w]) = Len(rest[w]) - n /\ Done(w)' = Done(w) + n
      /\ \A i \in 1..Len(rest'[w]) : rest'[w][i] = <<w, Done(w)' + i>>
      /\ written' \in Seq(Bytes) /\ Len(written') = old + n
      /\ \A i \in 1..old : written'[i] = written[i]
      /\ \A i \in 1..n : written'[old + i] = Chunk(w)[i]
  BY WriteFrameExtends
<1>3. /\ old \in Nat /\ n \in Nat /\ n # 0 /\ MsgLen \in Nat
      /\ DOMAIN written = 1..old /\ DOMAIN written' = 1..(old + n)
      /\ \A v \in Writers : Len(rest[v]) \in Nat /\ Len(rest[v]) <= MsgLen /\ Done(v) \in Nat
      /\ \A v \in Writers : left(v) = Done(v)'
  BY <1>2, LenProperties, SizeAssumption DEF SendInv, ScalarInv, RestInv, Done
<1> HIDE DEF n, old
<1>4. Frame(w, "no") \in Frames
  BY <1>2 DEF Frame, Frames, SendInv, ScalarInv, n
<1>5. ScalarInv'
  <2>1. sent' \in Seq(Frames)
    BY <1>1, <1>4, AppendProperties DEF SendInv, ScalarInv
  <2> QED BY <1>1, <1>2, <2>1 DEF SendInv, ScalarInv, readVars
<1>6. \A i \in old + 1..old + n : /\ written'[i] = <<w, Done(w) + (i - old)>>
                                 /\ written'[i][1] = w /\ written'[i][2] = Done(w) + (i - old)
  <2>1. ASSUME NEW i \in old + 1..old + n PROVE written'[i] = <<w, Done(w) + (i - old)>>
    <3>1. i - old \in 1..n /\ old + (i - old) = i
      BY <1>3
    <3> QED BY <1>2, <3>1
  <2> QED BY <2>1
<1>7. RestInv'
  <2>1. ASSUME NEW v \in Writers, v # w
        PROVE  /\ Len(rest'[v]) <= MsgLen
               /\ \A i \in 1..Len(rest'[v]) : rest'[v][i] = <<v, Done(v)' + i>>
               /\ writer'[v] = "idle" => Done(v)' = 0
               /\ writer'[v] # "writing"
    <3>1. writer'[v] # "writing" /\ (writer'[v] = "idle" => Done(v) = 0)
      BY <1>1, <2>1 DEF SendInv, RestInv
    <3>2. /\ Len(rest[v]) <= MsgLen
          /\ \A i \in 1..Len(rest[v]) : rest[v][i] = <<v, Done(v) + i>>
      BY DEF SendInv, RestInv
    <3>3. rest'[v] = rest[v] /\ Done(v)' = Done(v)
      BY <1>2, <2>1
    <3> QED BY <3>1, <3>2, <3>3
  <2>2. Len(rest'[w]) <= MsgLen
    BY <1>2, <1>3
  <2>3. written' # <<>> /\ written'[Len(written')][1] = w
    <3>1. old + n \in old + 1..old + n /\ Len(written') # 0
      BY <1>2, <1>3
    <3> QED BY <1>2, <1>6, <3>1
  <2> QED BY <1>1, <1>2, <2>1, <2>2, <2>3 DEF RestInv
<1>8. \A i \in 1..old : written[i] \in Bytes /\ written[i][1] \in Writers /\ written[i][2] \in Nat
  <2>1. \A i \in 1..old : written[i] \in Bytes
    BY <1>3, ElementOfSeq DEF SendInv, ScalarInv, old
  <2> QED BY <1>3, <2>1, ByteParts
<1>9. \A i \in 1..old : written[i][2] <= Done(written[i][1])
  BY <1>3 DEF SendInv, WrittenInv
<1> HIDE DEF left
<1>10. ASSUME NEW i \in 1..old + n
       PROVE  /\ written'[i][1] \in Writers /\ written'[i][2] \in Nat
              /\ written'[i][2] <= left(written'[i][1])
  <2>1. CASE i \in 1..old
    <3> DEFINE v == written[i][1]
    <3>1. v \in Writers /\ written[i][2] <= Done(v) /\ written[i][2] \in Nat
      BY <1>8, <1>9, <2>1
    <3> HIDE DEF v
    <3>2. left(v) >= Done(v) /\ left(v) \in Int
      <4>1. CASE v = w
        BY <1>2, <1>3, <4>1
      <4>2. CASE v # w
        BY <1>2, <1>3, <3>1, <4>2
      <4> QED BY <4>1, <4>2
    <3>3. written'[i] = written[i]
      BY <1>2, <2>1
    <3> QED BY <1>3, <3>1, <3>2, <3>3 DEF v
  <2>2. CASE i \in old + 1..old + n
    <3>1. /\ written'[i][1] = w /\ written'[i][2] = Done(w) + (i - old)
          /\ left(w) = Done(w) + n /\ Done(w) \in Nat
      BY <1>2, <1>3, <1>6, <2>2
    <3>2. i - old \in 1..n
      BY <1>3, <2>2
    <3> QED BY <1>3, <3>1, <3>2
  <2> QED BY <1>3, <2>1, <2>2
<1>11. ASSUME NEW i \in 1..old + n, NEW j \in 1..old + n, written'[i] = written'[j]
       PROVE  i = j
  <2>1. ASSUME NEW k \in 1..old, NEW m \in old + 1..old + n PROVE written'[k] # written'[m]
    <3>1. written[k][1] = w => written[k][2] <= Done(w)
      BY <1>9
    <3> QED BY <1>2, <1>3, <1>6, <1>8, <3>1
  <2>2. CASE i \in 1..old /\ j \in 1..old
    BY <1>2, <1>3, <1>11, <2>2 DEF SendInv, WrittenInv
  <2>3. CASE i \in old + 1..old + n /\ j \in old + 1..old + n
    BY <1>3, <1>6, <1>11, <2>3
  <2> QED BY <1>3, <1>11, <2>1, <2>2, <2>3
<1>12. \A i, k \in 1..old + n : \A j \in i..k :
         written'[i][1] = written'[k][1] => written'[j][1] = written'[i][1]
  <2>1. SUFFICES ASSUME NEW i \in 1..old + n, NEW k \in 1..old + n, NEW j \in i..k,
                        written'[i][1] = written'[k][1]
                 PROVE  written'[j][1] = written'[i][1]
    OBVIOUS
  <2>2. j \in 1..old + n
    BY <1>3
  <2>3. \A a, c \in 1..old : \A b \in a..c :
          written[a][1] = written[c][1] => written[b][1] = written[a][1]
    BY <1>3 DEF SendInv, WrittenInv, WritesContiguous
  <2>4. CASE k \in 1..old
    <3>1. i \in 1..old /\ j \in 1..old
      BY <1>3, <2>4
    <3>2. written'[i] = written[i] /\ written'[j] = written[j] /\ written'[k] = written[k]
      BY <1>2, <2>4, <3>1
    <3> QED BY <2>1, <2>3, <2>4, <3>1, <3>2
  <2>5. CASE i \in old + 1..old + n
    <3>1. j \in old + 1..old + n
      BY <1>3, <2>5
    <3> QED BY <1>6, <2>5, <3>1
  <2>6. CASE i \in 1..old /\ k \in old + 1..old + n
    <3>1. written[i][1] = w /\ written'[i] = written[i]
      BY <1>2, <1>6, <2>1, <2>6
    <3>2. Done(w) > 0
      BY <1>3, <1>8, <1>9, <2>6, <3>1, ByteParts
    <3>3. written[old][1] = w
      BY <1>1, <3>2 DEF SendInv, RestInv, old
    <3>4. CASE j \in 1..old
      <4>1. old \in 1..old /\ j \in i..old
        BY <1>3, <2>6, <3>4
      <4>2. written[j][1] = w
        BY <2>3, <2>6, <3>1, <3>3, <4>1
      <4> QED BY <1>2, <3>1, <3>4, <4>2
    <3>5. CASE j \in old + 1..old + n
      BY <1>6, <3>1, <3>5
    <3> QED BY <1>3, <2>2, <3>4, <3>5
  <2> QED BY <1>3, <2>4, <2>5, <2>6
<1> QED BY <1>3, <1>5, <1>7, <1>10, <1>11, <1>12 DEF WrittenInv, WritesContiguous, Done, left

(* What has been written before stays so as more is.                       *)
LEMMA BeforeStays ==
  ASSUME NEW b, NEW c, Before(b, c), SendInv, NEW w \in Writers, WriteFrame(w)
  PROVE  Before(b, c)'
<1>1. /\ Len(written) \in Nat /\ DOMAIN written = 1..Len(written)
      /\ DOMAIN written' = 1..Len(written') /\ Len(written') \in Nat
  BY WriteFrameExtends, LenProperties DEF SendInv, ScalarInv
<1>2. /\ Len(written') >= Len(written)
      /\ \A i \in 1..Len(written) : written'[i] = written[i]
  <2> DEFINE n == Len(Chunk(w))
  <2>1. /\ n \in 1..MaxFrameSize /\ Len(written') = Len(written) + n
        /\ \A i \in 1..Len(written) : written'[i] = written[i]
    BY WriteFrameExtends
  <2> HIDE DEF n
  <2> QED BY <1>1, <2>1, SizeAssumption
<1>3. PICK i \in DOMAIN written, j \in DOMAIN written : i < j /\ written[i] = b /\ written[j] = c
  BY DEF Before
<1>4. i \in DOMAIN written' /\ j \in DOMAIN written' /\ written'[i] = b /\ written'[j] = c
  BY <1>1, <1>2, <1>3
<1> QED BY <1>3, <1>4 DEF Before

(* A frame sent is the last one, with the counter for its nonce, and its   *)
(* bytes come after all that were written.                                 *)
LEMMA WriteFramePreservesFrames ==
  ASSUME SendInv, NEW w \in Writers, WriteFrame(w)
  PROVE  FrameInv'
<1> DEFINE n == Len(Chunk(w))
           old == Len(written)
           f == Frame(w, "no")
<1>1. /\ n \in 1..MaxFrameSize /\ Chunk(w) \in Seq(Bytes)
      /\ written' \in Seq(Bytes) /\ Len(written') = old + n
      /\ \A i \in 1..old : written'[i] = written[i]
      /\ \A i \in 1..n : written'[old + i] = Chunk(w)[i]
  BY WriteFrameExtends
<1>2. /\ old \in Nat /\ n \in Nat
      /\ DOMAIN written = 1..old /\ DOMAIN written' = 1..(old + n) /\ DOMAIN Chunk(w) = 1..n
  BY <1>1, LenProperties, SizeAssumption DEF SendInv, ScalarInv
<1>3. f.nonce = counter /\ f.data = Chunk(w) /\ f \in Frames
  BY <1>1 DEF Frame, Frames, SendInv, ScalarInv
<1>4. counter' = counter + 1 /\ sent' = Append(sent, f) /\ counter \in Nat /\ sent \in Seq(Frames)
  BY NonceProperties, SizeAssumption DEF WriteFrame, SendInv, ScalarInv
<1> HIDE DEF n, old, f
<1>5. /\ Len(sent') = counter + 1 /\ DOMAIN sent = 1..counter /\ DOMAIN sent' = 1..(counter + 1)
      /\ \A k \in 1..counter : sent'[k] = sent[k]
      /\ sent'[counter + 1] = f
  <2>1. Len(sent) = counter
    BY DEF SendInv, FrameInv, WriteFrame
  <2> QED BY <1>3, <1>4, <2>1, AppendProperties, LenProperties
<1>6. \A k \in 1..counter + 1 : sent'[k].nonce = k - 1
  BY <1>3, <1>4, <1>5 DEF SendInv, FrameInv
<1>7. ASSUME NEW k \in 1..counter + 1, NEW i \in DOMAIN sent'[k].data
      PROVE  \E p \in DOMAIN written' : written'[p] = sent'[k].data[i]
  <2>1. CASE k = counter + 1
    <3>1. i \in 1..n /\ sent'[k].data[i] = Chunk(w)[i]
      BY <1>2, <1>3, <1>5, <1>7, <2>1
    <3>2. old + i \in DOMAIN written'
      BY <1>2, <3>1
    <3> QED BY <1>1, <3>1, <3>2
  <2>2. CASE k # counter + 1
    <3>1. k \in 1..counter
      BY <1>4, <2>2
    <3>2. PICK p \in DOMAIN written : written[p] = sent[k].data[i]
      BY <1>5, <1>7, <3>1 DEF SendInv, FrameInv
    <3>3. p \in DOMAIN written' /\ written'[p] = written[p]
      BY <1>1, <1>2
    <3> QED BY <1>5, <3>1, <3>2, <3>3
  <2> QED BY <2>1, <2>2
<1>8. ASSUME NEW k \in 1..counter + 1, NEW m \in 1..counter + 1,
             NEW i \in DOMAIN sent'[k].data, NEW j \in DOMAIN sent'[m].data,
             k < m \/ (k = m /\ i < j)
      PROVE  \E p, q \in DOMAIN written' :
               p < q /\ written'[p] = sent'[k].data[i] /\ written'[q] = sent'[m].data[j]
  <2>1. CASE m # counter + 1
    <3>1. k \in 1..counter /\ m \in 1..counter
      BY <1>4, <1>8, <2>1
    <3>2. Before(sent[k].data[i], sent[m].data[j])
      BY <1>5, <1>8, <3>1 DEF SendInv, FrameInv
    <3>3. \A b, c : Before(b, c) =>
            \E p, q \in DOMAIN written' : p < q /\ written'[p] = b /\ written'[q] = c
      BY BeforeStays DEF Before
    <3> QED BY <1>5, <3>1, <3>2, <3>3
  <2>2. CASE m = counter + 1 /\ k = counter + 1
    <3>1. i \in 1..n /\ j \in 1..n /\ i < j
      BY <1>2, <1>3, <1>5, <1>8, <2>2
    <3>2. old + i \in DOMAIN written' /\ old + j \in DOMAIN written' /\ old + i < old + j
      BY <1>2, <3>1
    <3> QED BY <1>1, <1>3, <1>5, <2>2, <3>1, <3>2
  <2>3. CASE m = counter + 1 /\ k # counter + 1
    <3>1. k \in 1..counter /\ j \in 1..n
      BY <1>2, <1>3, <1>4, <1>5, <2>3
    <3>2. PICK p \in DOMAIN written : written[p] = sent[k].data[i]
      BY <1>5, <1>8, <3>1 DEF SendInv, FrameInv
    <3>3. /\ p \in DOMAIN written' /\ written'[p] = written[p]
          /\ old + j \in DOMAIN written' /\ p < old + j
      BY <1>1, <1>2, <3>1
    <3> QED BY <1>1, <1>3, <1>5, <2>3, <3>1, <3>2, <3>3
  <2> QED BY <2>1, <2>2, <2>3
<1> QED BY <1>4, <1>5, <1>6, <1>7, <1>8 DEF FrameInv, Before

(* Every step keeps what is said of the sender.                            *)
LEMMA SendPreserved ==
  ASSUME SendInv, [Next]_vars
  PROVE  SendInv'
<1> USE DEF SendInv
<1>1. CASE UNCHANGED sendVars /\ nFaults' \in 0..MaxFaults /\ reader' \in {"reading", "eof", "failed"}
  BY <1>1 DEF sendVars, ScalarInv, RestInv, WrittenInv, WritesContiguous, FrameInv, Before, Done
<1>2. ASSUME NEW w \in Writers, WriteFrame(w) PROVE SendInv'
  BY <1>2, WriteFramePreservesSend, WriteFramePreservesFrames
<1>3. ASSUME UNCHANGED <<rest, link, sent, written, nFaults, reader>>,
             link = "up" => counter' = counter, counter' \in 0..MaxNonce,
             NEW w \in Writers, BeginWrite(w) \/ WriteFails(w) \/ EndWrite(w)
      PROVE SendInv'
  <2>1. WrittenInv' /\ FrameInv'
    BY <1>3 DEF WrittenInv, WritesContiguous, FrameInv, Before, Done
  <2>2. ScalarInv' /\ RestInv'
    <3>1. CASE BeginWrite(w)
      <4>1. \A v \in Writers : writer[v] # "writing"
        BY <3>1, NoneAssumption DEF BeginWrite, RestInv
      <4> QED BY <1>3, <3>1, <4>1 DEF ScalarInv, RestInv, Done, BeginWrite
    <3>2. CASE Return(w, "failed") \/ Return(w, "returned")
      <4>1. writeMu' = None /\ \A v \in Writers : writer'[v] # "writing"
        BY <1>3, <3>2 DEF ScalarInv, RestInv, Return, WriteFails, EndWrite, BeginWrite, Sending
      <4>2. \A v \in Writers : writer'[v] = "idle" => writer[v] = "idle"
        BY <3>2 DEF ScalarInv, Return
      <4>3. writer' \in [Writers -> {"idle", "writing", "returned", "failed"}]
        BY <3>2 DEF ScalarInv, Return
      <4> QED BY <1>3, <4>1, <4>2, <4>3 DEF ScalarInv, RestInv, Done
    <3> QED BY <1>3, <3>1, <3>2 DEF WriteFails, EndWrite
  <2> QED BY <2>1, <2>2
<1>4. CASE Crash \/ Reset
  <2>1. /\ link' \in {"cut", "dead"}
        /\ UNCHANGED <<writer, rest, writeMu, counter, sent, written, nFaults, reader>>
    BY <1>4 DEF Crash, Reset, readVars
  <2>2. WrittenInv' /\ FrameInv'
    BY <2>1 DEF WrittenInv, WritesContiguous, FrameInv, Before, Done
  <2>3. ScalarInv' /\ RestInv'
    BY <2>1 DEF ScalarInv, RestInv, Done
  <2> QED BY <2>2, <2>3
<1>5. CASE WireFault
  <2>1. UNCHANGED <<sendVars, reader>> /\ nFaults' \in 0..MaxFaults
    BY <1>5, SizeAssumption DEF WireFault, Replay, Reorder, Drop, Corrupt, Fault, readVars, ScalarInv
  <2> QED BY <1>1, <2>1 DEF ScalarInv
<1>6. CASE ReadStep
  <2>1. UNCHANGED <<sendVars, nFaults>> /\ reader' \in {"reading", "eof", "failed"}
    BY <1>6 DEF ReadStep, Take, ReadHeader, ReadBody, ReadEof, AtEnd, ScalarInv
  <2> QED BY <1>1, <2>1 DEF ScalarInv
<1>7. CASE UNCHANGED vars
  BY <1>1, <1>7 DEF vars, readVars, ScalarInv
<1>8. ASSUME NEW w \in Writers, WriteStep(w) PROVE SendInv'
  <2>1. CASE WriteFails(w)
    <3>1. /\ UNCHANGED <<rest, link, sent, written, nFaults, reader>>
          /\ counter' = NextNonce.counter /\ (link = "up" => ~NextNonce.ok)
      BY <2>1 DEF WriteFails, readVars
    <3>2. counter \in 0..MaxNonce /\ MaxNonce \in Nat
      BY SizeAssumption DEF ScalarInv
    <3>3. (link = "up" => counter' = counter) /\ counter' \in 0..MaxNonce
      <4>1. CASE counter = MaxNonce
        BY <3>1, <3>2, <4>1 DEF NextNonce
      <4>2. CASE counter # MaxNonce
        <5>1. counter' = counter + 1 /\ NextNonce.ok
          BY <3>1, <4>2 DEF NextNonce
        <5> QED BY <3>1, <3>2, <4>2, <5>1
      <4> QED BY <4>1, <4>2
    <3> QED BY <1>3, <2>1, <3>1, <3>3
  <2>2. CASE BeginWrite(w) \/ EndWrite(w)
    BY <1>3, <2>2 DEF BeginWrite, EndWrite, readVars, ScalarInv
  <2> QED BY <1>2, <1>8, <2>1, <2>2 DEF WriteStep
<1> QED BY <1>4, <1>5, <1>6, <1>7, <1>8 DEF Next

----------------------------------------------------------------------------------
(* A frame inserted where a frame may be (SequencesExt's InsertAt).        *)
LEMMA InsertAtProperties ==
  ASSUME NEW S, NEW s \in Seq(S), NEW e \in S, NEW i \in 1..Len(s) + 1
  PROVE  InsertAt(s, i, e) \in Seq(S)
<1>1. SubSeq(s, 1, i - 1) \in Seq(S) /\ SubSeq(s, i, Len(s)) \in Seq(S)
  BY SubSeqProperties, LenProperties, ElementOfSeq
<1>2. <<e>> \in Seq(S)
  OBVIOUS
<1>3. SubSeq(s, 1, i - 1) \o <<e>> \in Seq(S)
  BY <1>1, <1>2, ConcatProperties
<1> QED BY <1>1, <1>3, ConcatProperties DEF InsertAt

(* A frame taken out is all that is gone (SequencesExt's RemoveAt).        *)
LEMMA RemoveAtProperties ==
  ASSUME NEW S, NEW s \in Seq(S), NEW i \in 1..Len(s)
  PROVE  RemoveAt(s, i) \in Seq(S)
<1>1. SubSeq(s, 1, i - 1) \in Seq(S) /\ SubSeq(s, i + 1, Len(s)) \in Seq(S)
  BY SubSeqProperties, LenProperties, ElementOfSeq
<1> QED BY <1>1, ConcatProperties DEF RemoveAt

(* A frame that was sent may be on the wire again, and any frame changed   *)
(* or cut short may, since it does not open.                               *)
LEMMA PossibleProperties ==
  ASSUME SendInv
  PROVE  /\ \A f \in ToSet(sent) : f \in Possible
         /\ \A f \in Frames : f.cut # "no" => f \in Possible
         /\ \A f \in Frames, nonce \in 0..MaxNonce :
              [f EXCEPT !.nonce = nonce, !.good = FALSE] \in Possible
<1>1. \A f \in ToSet(sent) : f \in Frames
  BY ElementOfSeq, LenProperties DEF ToSet, SendInv, ScalarInv
<1>2. ASSUME NEW f \in Frames, NEW nonce \in 0..MaxNonce
      PROVE  /\ [f EXCEPT !.nonce = nonce, !.good = FALSE] \in Frames
             /\ [f EXCEPT !.nonce = nonce, !.good = FALSE].good = FALSE
  BY DEF Frames
<1> QED BY <1>1, <1>2 DEF Possible

(* The wire's faults put nothing on it that could not be there.            *)
LEMMA FaultsPreserveWire ==
  ASSUME SendInv, wire \in Seq(Possible), WireFault
  PROVE  wire' \in Seq(Possible)
<1>1. DOMAIN wire = 1..Len(wire) /\ Len(wire) \in Nat
      /\ \A i \in 1..Len(wire) : wire[i] \in Possible /\ wire[i] \in Frames
  BY LenProperties, ElementOfSeq DEF Possible
<1>2. CASE Replay
  <2>1. PICK f \in ToSet(sent), i \in Whole \cup {Len(wire) + 1} : wire' = InsertAt(wire, i, f)
    BY <1>2 DEF Replay
  <2>2. f \in Possible
    BY PossibleProperties
  <2>3. i \in 1..Len(wire) + 1
    BY <1>1 DEF Whole
  <2> QED BY <2>1, <2>2, <2>3, InsertAtProperties
<1>3. CASE Reorder
  <2>1. PICK i \in 1..Len(wire), j \in 1..Len(wire) :
          wire' = [wire EXCEPT ![i] = wire[j], ![j] = wire[i]]
    BY <1>1, <1>3 DEF Reorder, Whole
  <2> QED BY <1>1, <2>1, ExceptSeq
<1>4. CASE Drop
  <2>1. PICK i \in 1..Len(wire) : wire' = RemoveAt(wire, i)
    BY <1>1, <1>4 DEF Drop, Whole
  <2> QED BY <2>1, RemoveAtProperties
<1>5. CASE Corrupt
  <2>1. PICK i \in 1..Len(wire), nonce \in 0..MaxNonce :
          wire' = [wire EXCEPT ![i] = [wire[i] EXCEPT !.nonce = nonce, !.good = FALSE]]
    BY <1>1, <1>5 DEF Corrupt, Whole
  <2>2. [wire[i] EXCEPT !.nonce = nonce, !.good = FALSE] \in Possible
    BY <1>1, PossibleProperties
  <2> QED BY <2>1, <2>2, ExceptSeq
<1> QED BY <1>2, <1>3, <1>4, <1>5 DEF WireFault

(* The end of a sender or of the connection leaves what was on the wire up *)
(* to some frame, and perhaps a part of the next one.                      *)
LEMMA WireAtEnd ==
  ASSUME SendInv, NEW S \in SUBSET Frames, wire \in Seq(S), Crash \/ Reset,
         \A f \in Frames : f.cut # "no" => f \in S
  PROVE  /\ wire' \in Seq(S)
         /\ \E n \in 0..Len(wire) :
              /\ Len(wire') \in {n, n + 1}
              /\ \A i \in 1..n : wire'[i] = wire[i]
              /\ Len(wire') = n + 1 =>
                   /\ wire'[n + 1].cut # "no"
                   /\ wire'[n + 1].nonce =
                        IF n = Len(wire) THEN Len(sent) ELSE wire[n + 1].nonce
<1>1. DOMAIN wire = 1..Len(wire) /\ Len(wire) \in Nat /\ \A i \in 1..Len(wire) : wire[i] \in S
  BY LenProperties, ElementOfSeq
<1>2. ASSUME NEW n \in 0..Len(wire)
      PROVE  /\ SubSeq(wire, 1, n) \in Seq(S) /\ Len(SubSeq(wire, 1, n)) = n
             /\ \A i \in 1..n : SubSeq(wire, 1, n)[i] = wire[i]
  BY <1>1, SubSeqProperties
<1>3. ASSUME NEW n \in 0..Len(wire), wire' = SubSeq(wire, 1, n)
      PROVE  /\ wire' \in Seq(S) /\ Len(wire') = n
             /\ \A i \in 1..n : wire'[i] = wire[i]
  BY <1>2, <1>3
<1>4. ASSUME NEW n \in 0..Len(wire), NEW f \in Frames, f.cut # "no",
             wire' = Append(SubSeq(wire, 1, n), f)
      PROVE  /\ wire' \in Seq(S) /\ Len(wire') = n + 1
             /\ \A i \in 1..n : wire'[i] = wire[i]
             /\ wire'[n + 1] = f
  <2>1. PICK t \in Seq(S) : t = SubSeq(wire, 1, n)
    BY <1>2
  <2>2. f \in S
    BY <1>4
  <2>3. /\ Append(t, f) \in Seq(S) /\ Len(Append(t, f)) = Len(t) + 1
        /\ \A i \in 1..Len(t) : Append(t, f)[i] = t[i]
        /\ Append(t, f)[Len(t) + 1] = f
    BY <2>2, AppendProperties
  <2> QED BY <1>2, <1>4, <2>1, <2>3
<1>5. ASSUME wire' \in InPart, link = "up"
      PROVE  \E f \in Frames : /\ f.cut # "no" /\ f.nonce = Len(sent)
                                /\ wire' = Append(SubSeq(wire, 1, Len(wire)), f)
  <2>1. PICK w \in Writers, cut \in Cuts : Sending(w) /\ wire' = Append(wire, Frame(w, cut))
    BY <1>5 DEF InPart
  <2>2. /\ Frame(w, cut) \in Frames /\ Frame(w, cut).cut = cut
        /\ Frame(w, cut).nonce = Len(sent)
    BY <1>5, <2>1, ChunkProperties DEF SendInv, ScalarInv, FrameInv, Sending, Frame, Frames
  <2>3. cut # "no"
    BY DEF Cuts
  <2>4. SubSeq(wire, 1, Len(wire)) = wire
    BY SubSeqFull
  <2> QED BY <2>1, <2>2, <2>3, <2>4
<1>6. Len(wire) \in 0..Len(wire)
  BY <1>1
<1>7. CASE wire' = wire
  <2>1. wire' = SubSeq(wire, 1, Len(wire))
    BY <1>7, SubSeqFull
  <2>2. PICK n \in 0..Len(wire) : n = Len(wire)
    BY <1>6
  <2>3. n \in Nat
    BY <1>1
  <2>4. n # n + 1
    BY <2>3
  <2> QED BY <1>7, <2>2, <2>4
<1>8. CASE wire' \in InPart /\ link = "up"
  <2>1. PICK f \in Frames : /\ f.cut # "no" /\ f.nonce = Len(sent)
                            /\ wire' = Append(SubSeq(wire, 1, Len(wire)), f)
    BY <1>5, <1>8
  <2> QED BY <1>4, <1>6, <2>1
<1>9. ASSUME NEW n \in 0..Len(wire), wire' = SubSeq(wire, 1, n)
      PROVE  /\ wire' \in Seq(S) /\ Len(wire') \in {n, n + 1} /\ Len(wire') # n + 1
             /\ \A i \in 1..n : wire'[i] = wire[i]
  BY <1>1, <1>3, <1>9
<1>10. ASSUME NEW k \in 1..Len(wire), NEW cut \in Cuts,
              wire' = Append(SubSeq(wire, 1, k - 1), [wire[k] EXCEPT !.cut = cut])
       PROVE  \E n \in 0..Len(wire) :
                /\ wire' \in Seq(S) /\ Len(wire') = n + 1
                /\ \A i \in 1..n : wire'[i] = wire[i]
                /\ wire'[n + 1].cut # "no" /\ n # Len(wire)
                /\ wire'[n + 1].nonce = wire[n + 1].nonce
  <2>1. PICK f : f = [wire[k] EXCEPT !.cut = cut]
    OBVIOUS
  <2>2. wire[k] \in Frames
    BY <1>1
  <2>3. f \in Frames /\ f.cut = cut /\ f.nonce = wire[k].nonce /\ cut # "no"
    BY <2>1, <2>2 DEF Frames, Cuts
  <2>4. PICK n \in 0..Len(wire) : n = k - 1
    BY <1>1
  <2>5. n + 1 = k /\ n # Len(wire)
    BY <1>1, <2>4
  <2>6. wire' = Append(SubSeq(wire, 1, n), f)
    BY <1>10, <2>1, <2>4
  <2> QED BY <1>4, <2>3, <2>5, <2>6
<1> QED BY <1>7, <1>8, <1>9, <1>10 DEF Crash, Reset

(* A sender puts on it what it sent, or a frame cut short.                 *)
LEMMA SendersPreserveWire ==
  ASSUME SendInv, SendInv', wire \in Seq(Possible),
         Crash \/ Reset \/ \E w \in Writers : WriteFrame(w)
  PROVE  Possible \subseteq Possible' /\ wire' \in Seq(Possible')
<1>1. ASSUME NEW w \in Writers, WriteFrame(w)
      PROVE  Possible \subseteq Possible' /\ wire' \in Seq(Possible')
  <2>1. /\ sent \in Seq(Frames) /\ sent' \in Seq(Frames) /\ Frame(w, "no") \in Frames
        /\ sent' = Append(sent, Frame(w, "no")) /\ wire' = Append(wire, Frame(w, "no"))
    BY <1>1, ChunkProperties DEF SendInv, ScalarInv, WriteFrame, Sending, Frame, Frames
  <2>2. ToSet(sent) \subseteq ToSet(sent') /\ Frame(w, "no") \in ToSet(sent')
    <3> DEFINE f == Frame(w, "no")
    <3>1. f \in Frames /\ sent' = Append(sent, f)
      BY <2>1
    <3> HIDE DEF f
    <3>2. /\ Len(sent') = Len(sent) + 1 /\ Len(sent) \in Nat
          /\ \A i \in 1..Len(sent) : sent'[i] = sent[i]
          /\ sent'[Len(sent) + 1] = f
      BY <2>1, <3>1, AppendProperties, LenProperties
    <3>3. DOMAIN sent = 1..Len(sent) /\ DOMAIN sent' = 1..(Len(sent) + 1)
      BY <2>1, <3>2, LenProperties
    <3> QED BY <3>2, <3>3 DEF ToSet, f
  <2>3. Possible \subseteq Possible' /\ Frame(w, "no") \in Possible'
    BY <2>1, <2>2 DEF Possible
  <2> QED BY <2>1, <2>3, SeqMonotonic, AppendProperties
<1>2. ASSUME Crash \/ Reset
      PROVE  Possible \subseteq Possible' /\ wire' \in Seq(Possible')
  <2>1. Possible' = Possible
    BY <1>2 DEF Crash, Reset, Possible
  <2>2. Possible \subseteq Frames
    BY DEF Possible
  <2>3. wire' \in Seq(Possible)
    BY <1>2, <2>2, WireAtEnd, PossibleProperties
  <2> QED BY <2>1, <2>3
<1> QED BY <1>1, <1>2

(* What Take hands over it takes from the front of the buffer.             *)
LEMMA TakePreserves ==
  ASSUME SendInv, ReadInv, Take
  PROVE  ReadInv'
<1>1. PICK n \in 1..Len(readBuf) : TakeFrom(n)
  BY DEF Take
<1>2. /\ readBuf \in Seq(Bytes) /\ delivered \in Seq(Bytes)
      /\ Len(readBuf) \in Nat /\ Len(readBuf) <= MaxFrameSize
  BY LenProperties DEF ReadInv
<1> DEFINE a == SubSeq(readBuf, 1, n)
           b == SubSeq(readBuf, n + 1, Len(readBuf))
<1>3. /\ a \in Seq(Bytes) /\ b \in Seq(Bytes) /\ a \o b = readBuf
      /\ Len(b) <= Len(readBuf) /\ Len(b) \in Nat
  <2>1. a \in Seq(Bytes) /\ b \in Seq(Bytes) /\ Len(b) <= Len(readBuf) /\ Len(b) \in Nat
    BY <1>2, SubSeqProperties, ElementOfSeq, LenProperties
  <2>2. a \o b = SubSeq(readBuf, 1, Len(readBuf))
    BY <1>2, ConcatAdjacentSubSeq
  <2> QED BY <1>2, <2>1, <2>2, SubSeqFull
<1>4. delivered' = delivered \o a /\ readBuf' = b
  BY <1>1 DEF TakeFrom
<1> HIDE DEF a, b
<1>5. Got' = Got /\ delivered' \in Seq(Bytes)
  <2>1. delivered \o a \in Seq(Bytes)
    BY <1>2, <1>3, ConcatProperties
  <2>2. (delivered \o a) \o b = delivered \o (a \o b)
    <3>1. \A t, u, v \in Seq(Bytes) : (t \o u) \o v = t \o (u \o v)
      BY ConcatAssociative
    <3> QED BY <1>2, <1>3, <3>1
  <2> QED BY <1>3, <1>4, <2>1, <2>2 DEF Got
<1>6. UNCHANGED <<sent, written, wire, last, current>> /\ readBuf # <<>>
  BY <1>1, EmptySeq, <1>2 DEF Take, sendVars
<1>7. current = <<>>
  BY <1>6, EmptySeq DEF ReadInv
<1>8. /\ \A c : Accepted(c) => Accepted(c)'
      /\ \A c, d : Before(c, d) => Before(c, d)'
      /\ Possible' = Possible
  BY <1>6 DEF Accepted, Before, Possible
<1>9. /\ \A i \in DOMAIN Got : Accepted(Got[i])'
      /\ \A i, j \in DOMAIN Got : i < j => Before(Got[i], Got[j])'
  BY <1>5, <1>8 DEF ReadInv
<1> QED BY <1>2, <1>3, <1>4, <1>5, <1>6, <1>7, <1>8, <1>9, SizeAssumption DEF ReadInv

(* The frames whose headers were accepted before are before the new one.   *)
LEMMA ReadHeaderPreserves ==
  ASSUME SendInv, ReadInv, ReadHeader
  PROVE  ReadInv'
<1> DEFINE f == Head(wire)
<1>1. f \in Possible /\ wire' \in Seq(Possible) /\ f \in Frames /\ f.nonce \in 0..MaxNonce
  BY HeadTailProperties DEF ReadInv, ReadHeader, Possible, Frames
<1>2. /\ UNCHANGED <<sent, written, readBuf, delivered>> /\ current = <<>> /\ readBuf = <<>>
      /\ \/ current' = <<f>> /\ last' = f.nonce /\ f.nonce > last
         \/ UNCHANGED <<current, last>>
  BY DEF ReadHeader, sendVars, Accepts
<1> HIDE DEF f
<1>3. /\ last \in -1..MaxNonce /\ last' \in -1..MaxNonce
      /\ current' \in Seq(Possible) /\ Len(current') \in {0, 1}
      /\ current' # <<>> => current'[1].nonce = last'
  <2>1. CASE current' = <<f>> /\ last' = f.nonce
    <3>1. <<f>> \in Seq(Possible) /\ Len(<<f>>) = 1 /\ <<f>>[1] = f
      BY <1>1
    <3> QED BY <1>1, <2>1, <3>1, SizeAssumption DEF ReadInv
  <2>2. CASE UNCHANGED <<current, last>>
    BY <1>2, <2>2 DEF ReadInv
  <2> QED BY <1>2, <2>1, <2>2
<1>4. DOMAIN sent = 1..Len(sent) /\ Len(sent) \in Nat
  BY LenProperties DEF SendInv, ScalarInv
<1>5. /\ \A k \in DOMAIN sent : k - 1 <= last => k - 1 <= last' /\ (current' # <<>> => k - 1 < last')
      /\ Possible' = Possible /\ Got' = Got
  BY <1>1, <1>2, <1>3, <1>4, SizeAssumption DEF Possible, Got
<1>6. /\ \A c : Accepted(c) => Accepted(c)'
      /\ \A c, d : Before(c, d) => Before(c, d)'
  BY <1>2, <1>5 DEF Accepted, Before
<1>7. /\ \A i \in DOMAIN Got : Accepted(Got[i])'
      /\ \A i, j \in DOMAIN Got : i < j => Before(Got[i], Got[j])'
  BY <1>5, <1>6 DEF ReadInv
<1> QED BY <1>1, <1>2, <1>3, <1>5, <1>7 DEF ReadInv

(* The body that opens is that of a frame sent, after all those accepted.  *)
LEMMA ReadBodyPreserves ==
  ASSUME SendInv, ReadInv, ReadBody
  PROVE  ReadInv'
<1> DEFINE f == current[1]
<1>1. /\ UNCHANGED <<sent, written, wire, last, delivered>> /\ current # <<>> /\ readBuf = <<>>
      /\ f \in Possible /\ f.nonce = last
  <2>1. Len(current) \in Nat /\ Len(current) # 0 /\ Len(current) \in {0, 1}
    BY LenProperties, EmptySeq DEF ReadInv, ReadBody
  <2>2. f \in Possible
    BY <2>1, ElementOfSeq DEF ReadInv
  <2> QED BY <2>2 DEF ReadBody, ReadInv, sendVars
<1>2. Possible' = Possible
  BY <1>1 DEF Possible
<1>3. CASE UNCHANGED <<readBuf, current>>
  <2>1. /\ \A c : Accepted(c) => Accepted(c)'
        /\ \A c, d : Before(c, d) => Before(c, d)'
        /\ Got' = Got
    BY <1>1, <1>3 DEF Accepted, Before, Got
  <2>2. /\ \A i \in DOMAIN Got : Accepted(Got[i])'
        /\ \A i, j \in DOMAIN Got : i < j => Before(Got[i], Got[j])'
    BY <2>1 DEF ReadInv
  <2> QED BY <1>1, <1>2, <1>3, <2>1, <2>2 DEF ReadInv
<1>4. CASE f.cut = "no" /\ f.good /\ readBuf' = f.data /\ current' = <<>>
  <2>1. PICK m \in DOMAIN sent : sent[m] = f
    BY <1>1, <1>4 DEF Possible, ToSet
  <2>2. /\ m - 1 = last /\ DOMAIN sent = 1..Len(sent) /\ Len(sent) \in Nat /\ m \in Nat
        /\ f.data \in Seq(Bytes) /\ Len(f.data) <= MaxFrameSize
    <3>1. sent[m].nonce = m - 1 /\ f \in Frames
      BY <1>1 DEF SendInv, FrameInv, Possible
    <3>2. DOMAIN sent = 1..Len(sent) /\ Len(sent) \in Nat
      BY LenProperties DEF SendInv, ScalarInv
    <3> QED BY <1>1, <2>1, <3>1, <3>2, SizeAssumption DEF Frames
  <2> DEFINE old == Len(delivered)
             n == Len(f.data)
             got == delivered \o f.data
  <2>3. /\ Got = delivered /\ Got' = got /\ delivered \in Seq(Bytes)
    BY <1>1, <1>4, ConcatEmptySeq DEF Got, ReadInv
  <2>4. /\ old \in Nat /\ n \in Nat /\ DOMAIN delivered = 1..old /\ DOMAIN f.data = 1..n
        /\ DOMAIN got = 1..(old + n)
        /\ \A i \in 1..old : got[i] = delivered[i]
        /\ \A i \in old + 1..old + n : i - old \in 1..n /\ got[i] = sent[m].data[i - old]
    <3>1. /\ old \in Nat /\ n \in Nat /\ DOMAIN delivered = 1..old /\ DOMAIN f.data = 1..n
          /\ got \in Seq(Bytes) /\ Len(got) = old + n
          /\ \A i \in 1..old + n : got[i] = IF i <= old THEN delivered[i] ELSE f.data[i - old]
      BY <2>2, <2>3, LenProperties, ConcatProperties
    <3> HIDE DEF old, n, got
    <3>2. DOMAIN got = 1..(old + n)
      BY <3>1, LenProperties
    <3> QED BY <2>1, <3>1, <3>2
  <2> HIDE DEF old, n, got
  <2>5. ASSUME NEW i \in 1..old
        PROVE  \E k \in DOMAIN sent :
                 k < m /\ \E p \in DOMAIN sent[k].data : sent[k].data[p] = got[i]
    <3>1. Accepted(delivered[i])
      BY <2>3, <2>4 DEF ReadInv
    <3>2. PICK k \in DOMAIN sent : /\ \E p \in DOMAIN sent[k].data : sent[k].data[p] = delivered[i]
                                  /\ k - 1 < last
      BY <1>1, <3>1 DEF Accepted
    <3>3. k < m
      BY <2>2, <3>2
    <3> QED BY <2>4, <3>2, <3>3
  <2>6. ASSUME NEW i \in 1..old + n
        PROVE  \E k \in DOMAIN sent :
                 k - 1 <= last /\ \E p \in DOMAIN sent[k].data : sent[k].data[p] = got[i]
    <3>1. CASE i \in 1..old
      <4>1. PICK k \in DOMAIN sent : k < m /\ \E p \in DOMAIN sent[k].data : sent[k].data[p] = got[i]
        BY <2>5, <3>1
      <4>2. k - 1 <= last
        BY <2>2, <4>1
      <4> QED BY <4>1, <4>2
    <3>2. CASE i \in old + 1..old + n
      <4>1. i - old \in DOMAIN sent[m].data /\ sent[m].data[i - old] = got[i]
        BY <2>1, <2>4, <3>2
      <4>2. m - 1 <= last
        BY <2>2
      <4> QED BY <4>1, <4>2
    <3> QED BY <2>4, <3>1, <3>2
  <2>7. ASSUME NEW i \in 1..old + n, NEW j \in 1..old + n, i < j PROVE Before(got[i], got[j])
    <3>1. CASE j \in 1..old
      <4>1. i \in 1..old
        BY <2>4, <2>7, <3>1
      <4>2. Before(delivered[i], delivered[j])
        BY <2>3, <2>4, <2>7, <3>1, <4>1 DEF ReadInv
      <4> QED BY <2>4, <3>1, <4>1, <4>2
    <3>2. CASE i \in 1..old /\ j \in old + 1..old + n
      <4>1. PICK k \in DOMAIN sent : k < m /\ \E p \in DOMAIN sent[k].data : sent[k].data[p] = got[i]
        BY <2>5, <3>2
      <4>2. j - old \in DOMAIN sent[m].data /\ sent[m].data[j - old] = got[j]
        BY <2>1, <2>4, <3>2
      <4> QED BY <4>1, <4>2 DEF SendInv, FrameInv
    <3>3. CASE i \in old + 1..old + n /\ j \in old + 1..old + n
      <4>1. /\ i - old \in DOMAIN sent[m].data /\ sent[m].data[i - old] = got[i]
            /\ j - old \in DOMAIN sent[m].data /\ sent[m].data[j - old] = got[j]
        BY <2>1, <2>4, <3>3
      <4>2. i - old < j - old
        BY <2>4, <2>7
      <4> QED BY <4>1, <4>2 DEF SendInv, FrameInv
    <3> QED BY <2>4, <2>7, <3>1, <3>2, <3>3
  <2>8. /\ \A c, d : Before(c, d) => Before(c, d)'
        /\ \A c : (\E k \in DOMAIN sent :
                     k - 1 <= last /\ \E p \in DOMAIN sent[k].data : sent[k].data[p] = c)
                  => Accepted(c)'
    BY <1>1, <1>4 DEF Before, Accepted
  <2>9. /\ (\A i \in DOMAIN Got : Accepted(Got[i]))'
        /\ (\A i, j \in DOMAIN Got : i < j => Before(Got[i], Got[j]))'
    <3>1. PICK g : g = Got'
      OBVIOUS
    <3>2. /\ \A i \in DOMAIN g : Accepted(g[i])'
          /\ \A i, j \in DOMAIN g : i < j => Before(g[i], g[j])'
      <4>1. g = got
        BY <2>3, <3>1
      <4> QED BY <2>4, <2>6, <2>7, <2>8, <4>1
    <3> QED BY <3>1, <3>2
  <2>10. current' \in Seq(Possible) /\ Len(current') \in {0, 1} /\ current' = <<>>
    BY <1>4
  <2> QED BY <1>1, <1>2, <1>4, <2>2, <2>9, <2>10 DEF ReadInv
<1> QED BY <1>3, <1>4 DEF ReadBody

(* What the reader has stays so while the senders and the wire go on.      *)
LEMMA OthersPreserveRead ==
  ASSUME SendInv, SendInv', ReadInv, UNCHANGED readVars,
         Possible \subseteq Possible', wire' \in Seq(Possible'),
         UNCHANGED <<sent, written>> \/ \E w \in Writers : WriteFrame(w)
  PROVE  ReadInv'
<1>1. UNCHANGED <<last, current, readBuf, delivered, Got>>
  BY DEF readVars, Got
<1>2. \A c, d : Before(c, d) => Before(c, d)'
  BY BeforeStays DEF Before
<1>3. \A k \in DOMAIN sent : k \in DOMAIN sent' /\ sent'[k] = sent[k]
  <2>1. CASE UNCHANGED sent
    BY <2>1
  <2>2. ASSUME NEW w \in Writers, WriteFrame(w)
        PROVE  \A k \in DOMAIN sent : k \in DOMAIN sent' /\ sent'[k] = sent[k]
    <3> DEFINE f == Frame(w, "no")
    <3>1. sent \in Seq(Frames) /\ sent' = Append(sent, f) /\ f \in Frames
      BY <2>2, ChunkProperties DEF SendInv, ScalarInv, WriteFrame, Sending, Frame, Frames
    <3> HIDE DEF f
    <3>2. /\ DOMAIN sent = 1..Len(sent) /\ Len(sent) \in Nat
          /\ sent' \in Seq(Frames) /\ Len(sent') = Len(sent) + 1
          /\ \A i \in 1..Len(sent) : sent'[i] = sent[i]
      BY <3>1, AppendProperties, LenProperties
    <3>3. DOMAIN sent' = 1..(Len(sent) + 1)
      BY <3>2, LenProperties
    <3> QED BY <3>2, <3>3
  <2> QED BY <2>1, <2>2
<1>4. \A c : Accepted(c) => Accepted(c)'
  BY <1>1, <1>3 DEF Accepted
<1>5. /\ \A i \in DOMAIN Got : Accepted(Got[i])'
      /\ \A i, j \in DOMAIN Got : i < j => Before(Got[i], Got[j])'
  BY <1>1, <1>2, <1>4 DEF ReadInv
<1>6. current \in Seq(Possible')
  BY SeqMonotonic DEF ReadInv
<1> QED BY <1>1, <1>5, <1>6 DEF ReadInv

(* Every step keeps what is said of the reader.                            *)
LEMMA ReadPreserved ==
  ASSUME SendInv, SendInv', ReadInv, [Next]_vars
  PROVE  ReadInv'
<1>1. CASE ReadEof
  <2>1. UNCHANGED <<readBuf, delivered, sent, written, wire, last, current>>
    BY <1>1 DEF ReadEof, sendVars
  <2>2. Possible' = Possible /\ Got' = Got /\ \A c : Accepted(c) => Accepted(c)'
    BY <2>1 DEF Possible, Got, Accepted
  <2>3. \A c, d : Before(c, d) => Before(c, d)'
    BY <2>1 DEF Before
  <2>4. /\ \A i \in DOMAIN Got : Accepted(Got[i])'
        /\ \A i, j \in DOMAIN Got : i < j => Before(Got[i], Got[j])'
    BY <2>2, <2>3 DEF ReadInv
  <2> QED BY <2>1, <2>2, <2>4 DEF ReadInv
<1>2. CASE ReadStep
  BY <1>1, <1>2, TakePreserves, ReadHeaderPreserves, ReadBodyPreserves DEF ReadStep
<1>3. CASE WireFault
  <2>1. UNCHANGED <<readVars, sent, written>>
    BY <1>3 DEF WireFault, Replay, Reorder, Drop, Corrupt, Fault, sendVars
  <2>2. wire' \in Seq(Possible) /\ Possible' = Possible
    BY <1>3, <2>1, FaultsPreserveWire DEF ReadInv, Possible
  <2> QED BY <2>1, <2>2, OthersPreserveRead
<1>4. ASSUME NEW w \in Writers, WriteFrame(w) PROVE ReadInv'
  <2>1. UNCHANGED readVars
    BY <1>4 DEF WriteFrame
  <2>2. Possible \subseteq Possible' /\ wire' \in Seq(Possible')
    BY <1>4, SendersPreserveWire DEF ReadInv
  <2> QED BY <1>4, <2>1, <2>2, OthersPreserveRead
<1>5. CASE Crash \/ Reset
  <2>1. UNCHANGED <<readVars, sent, written>>
    BY <1>5 DEF Crash, Reset
  <2>2. Possible \subseteq Possible' /\ wire' \in Seq(Possible')
    BY <1>5, SendersPreserveWire DEF ReadInv
  <2> QED BY <2>1, <2>2, OthersPreserveRead
<1>6. CASE UNCHANGED <<readVars, sent, written, wire>>
  <2>1. Possible' = Possible
    BY <1>6 DEF Possible
  <2> QED BY <1>6, <2>1, OthersPreserveRead DEF ReadInv
<1>7. ASSUME NEW w \in Writers, WriteStep(w) PROVE ReadInv'
  BY <1>4, <1>6, <1>7 DEF WriteStep, BeginWrite, WriteFails, EndWrite
<1>8. CASE UNCHANGED vars
  BY <1>6, <1>8 DEF vars, sendVars
<1> QED BY <1>2, <1>3, <1>5, <1>7, <1>8 DEF Next

(* The invariant holds, whatever the wire does.                            *)
LEMMA IInvHolds == Spec => []IInv
<1>1. IInv /\ [Next]_vars => IInv'
  BY SendPreserved, ReadPreserved DEF IInv
<1> QED BY <1>1, InitIInv, PTL DEF Spec

(* No two frames are sealed with the same nonce, for a counter of any      *)
(* width: a nonce is the number of the frames before (nonceSequencer.next).*)
THEOREM NoncesAreUnique == Spec => []NoncesUnique
<1>1. IInv => NoncesUnique
  <2> SUFFICES ASSUME IInv, NEW i \in DOMAIN sent, NEW j \in DOMAIN sent, i # j
               PROVE  sent[i].nonce # sent[j].nonce
    BY DEF NoncesUnique
  <2>1. i \in Nat /\ j \in Nat
    BY LenProperties DEF IInv, SendInv, ScalarInv
  <2>2. sent[i].nonce = i - 1 /\ sent[j].nonce = j - 1
    BY DEF IInv, SendInv, FrameInv
  <2> QED BY <2>1, <2>2
<1> QED BY <1>1, IInvHolds, PTL

(* Whatever the wire does to frames, Read returns bytes that were written, *)
(* each at most once, in their order, and those of one Write together      *)
(* (replayGuard, readFrame, writeMu).                                      *)
THEOREM ReadsAreInOrder == Spec => []DeliveredInOrder
<1>1. IInv => DeliveredInOrder
  <2> SUFFICES ASSUME IInv PROVE DeliveredInOrder
    OBVIOUS
  <2>1. TypeOK
    <3>1. /\ \A i \in DOMAIN wire : wire[i] \in Frames
          /\ \A i \in DOMAIN sent : sent[i] \in Frames
      BY LenProperties, ElementOfSeq DEF IInv, SendInv, ScalarInv, ReadInv, Possible
    <3>2. \A f \in Frames : IsFrame(f)
      BY DEF Frames, IsFrame
    <3> QED BY <3>1, <3>2 DEF TypeOK, IInv, SendInv, ScalarInv, ReadInv
  <2>2. DOMAIN delivered \subseteq DOMAIN Got /\ \A i \in DOMAIN delivered : Got[i] = delivered[i]
    <3>1. /\ delivered \in Seq(Bytes) /\ readBuf \in Seq(Bytes)
      BY DEF IInv, ReadInv
    <3>2. /\ Got \in Seq(Bytes) /\ Len(Got) = Len(delivered) + Len(readBuf)
          /\ \A i \in 1..Len(delivered) + Len(readBuf) :
               Got[i] = IF i <= Len(delivered) THEN delivered[i] ELSE readBuf[i - Len(delivered)]
      BY <3>1, ConcatProperties DEF Got
    <3>3. /\ DOMAIN delivered = 1..Len(delivered) /\ DOMAIN Got = 1..Len(Got)
          /\ Len(delivered) \in Nat /\ Len(readBuf) \in Nat
      BY <3>1, <3>2, LenProperties
    <3> QED BY <3>2, <3>3
  <2>3. ASSUME NEW i \in DOMAIN delivered
        PROVE  \E n \in DOMAIN written : written[n] = delivered[i]
    <3>1. Accepted(delivered[i])
      BY <2>2 DEF IInv, ReadInv
    <3>2. PICK k \in DOMAIN sent : \E p \in DOMAIN sent[k].data : sent[k].data[p] = delivered[i]
      BY <3>1 DEF Accepted
    <3> QED BY <3>2 DEF IInv, SendInv, FrameInv
  <2>4. ToSet(delivered) \subseteq ToSet(written)
    BY <2>3 DEF ToSet
  <2>5. \A n \in DOMAIN written : PlaceOf(written[n]) = n
    BY DEF PlaceOf, IInv, SendInv, WrittenInv
  <2>6. ASSUME NEW i \in DOMAIN delivered, NEW j \in DOMAIN delivered, i < j
        PROVE  PlaceOf(delivered[i]) < PlaceOf(delivered[j])
    <3>1. Before(delivered[i], delivered[j])
      BY <2>2, <2>6 DEF IInv, ReadInv
    <3> QED BY <2>5, <3>1 DEF Before
  <2> QED BY <2>1, <2>4, <2>6 DEF DeliveredInOrder, IInv, SendInv, WrittenInv
<1> QED BY <1>1, IInvHolds, PTL

----------------------------------------------------------------------------------
(* With no fault of the wire, the frames on it are the next in order, all  *)
(* of those sent while the sender lives, and only its last may be cut.     *)
WireOrder ==
  nFaults = 0 =>
    /\ \A i \in 1..Len(wire) : /\ wire[i].nonce = last + i
                               /\ wire[i].cut # "no" => i = Len(wire) /\ link # "up"
    /\ link = "up" => last + Len(wire) + 1 = Len(sent)

(* Frames the reader has taken whole.                                      *)
NumRead == IF current = <<>> THEN last + 1 ELSE last

(* m marks where in written each frame ends.                               *)
Marks(m) == /\ m[0] = 0 /\ m[Len(sent)] = Len(written)
            /\ \A k \in 1..Len(sent) :
                 /\ m[k] = m[k - 1] + Len(sent[k].data) /\ m[k] <= Len(written)
                 /\ \A i \in 1..Len(sent[k].data) : written[m[k - 1] + i] = sent[k].data[i]

(* What was read is what was written, up to such a mark.                   *)
ReadUpTo(m) == /\ NumRead \in 0..Len(sent)
               /\ Len(Got) = m[NumRead]
               /\ Len(Got) <= Len(written)
               /\ \A i \in 1..Len(Got) : Got[i] = written[i]

StreamInv == /\ WireOrder
             /\ \E m \in [0..Len(sent) -> Nat] : Marks(m) /\ (nFaults = 0 => ReadUpTo(m))

(* A sequence that another one continues is a prefix of it.                *)
LEMMA PrefixProperties ==
  ASSUME NEW S, NEW s \in Seq(S), NEW t \in Seq(S), Len(s) <= Len(t),
         \A i \in 1..Len(s) : s[i] = t[i]
  PROVE  Stream!IsPrefix(s, t)
<1>1. Len(s) \in Nat /\ Len(t) \in Nat
  BY LenProperties
<1>2. SubSeq(t, 1, Len(s)) \in Seq(S) /\ Len(SubSeq(t, 1, Len(s))) = Len(s)
      /\ \A i \in 1..Len(s) : SubSeq(t, 1, Len(s))[i] = t[i]
  <2>1. \A i \in 1..Len(s) : t[i] \in S
    BY <1>1, ElementOfSeq
  <2> QED BY <1>1, <2>1, SubSeqProperties
<1>3. SubSeq(t, 1, Len(s)) = s
  BY <1>2, SeqEqual
<1>4. SubSeq(s, 1, Len(s)) = s
  BY SubSeqFull
<1> QED BY <1>3, <1>4 DEF Stream!IsPrefix

(* What was read and what is buffered, as one sequence.                    *)
LEMMA GotProperties ==
  ASSUME IInv
  PROVE  /\ Got \in Seq(Bytes) /\ Len(Got) \in Nat /\ Len(delivered) \in Nat
         /\ Len(Got) = Len(delivered) + Len(readBuf) /\ Len(readBuf) \in Nat
         /\ Len(delivered) <= Len(Got)
         /\ \A i \in 1..Len(delivered) : Got[i] = delivered[i]
<1>1. delivered \in Seq(Bytes) /\ readBuf \in Seq(Bytes)
  BY DEF IInv, ReadInv
<1>2. /\ Got \in Seq(Bytes) /\ Len(Got) = Len(delivered) + Len(readBuf)
      /\ \A i \in 1..Len(delivered) + Len(readBuf) :
           Got[i] = IF i <= Len(delivered) THEN delivered[i] ELSE readBuf[i - Len(delivered)]
  BY <1>1, ConcatProperties DEF Got
<1>3. Len(delivered) \in Nat /\ Len(readBuf) \in Nat
  BY <1>1, LenProperties
<1> QED BY <1>2, <1>3

(* The first frame and the first byte are yet to come.                     *)
LEMMA InitStreamInv ==
  Init => StreamInv
<1> SUFFICES ASSUME Init PROVE StreamInv
  OBVIOUS
<1>1. /\ Len(sent) = 0 /\ Len(wire) = 0 /\ Len(written) = 0 /\ last = -1 /\ current = <<>>
      /\ delivered = <<>> /\ readBuf = <<>>
  BY DEF Init
<1>2. WireOrder
  BY <1>1 DEF WireOrder
<1>3. Got = <<>>
  BY <1>1 DEF Got
<1> DEFINE m == [k \in 0..0 |-> 0]
<1>4. m \in [0..Len(sent) -> Nat] /\ m[0] = 0
  BY <1>1
<1> HIDE DEF m
<1>5. Marks(m) /\ ReadUpTo(m)
  BY <1>1, <1>3, <1>4 DEF Marks, ReadUpTo, NumRead
<1> QED BY <1>2, <1>4, <1>5 DEF StreamInv

(* A frame sent is the last on the wire, and its end the end of what was   *)
(* written.                                                                *)
LEMMA WriteFrameKeepsStream ==
  ASSUME IInv, StreamInv, NEW w \in Writers, WriteFrame(w)
  PROVE  StreamInv'
<1> DEFINE f == Frame(w, "no")
           n == Len(Chunk(w))
           old == Len(written)
           c == Len(sent)
<1>1. /\ f \in Frames /\ f.nonce = c /\ f.cut = "no" /\ f.data = Chunk(w)
      /\ sent \in Seq(Frames) /\ sent' = Append(sent, f) /\ wire' = Append(wire, f)
      /\ wire \in Seq(Possible) /\ link = "up"
      /\ UNCHANGED <<link, nFaults, last, current, readBuf, delivered>>
  <2>1. f \in Frames
    BY ChunkProperties DEF IInv, SendInv, ScalarInv, WriteFrame, Sending, Frame, Frames
  <2> QED BY <2>1 DEF IInv, SendInv, ScalarInv, FrameInv, ReadInv, WriteFrame, Sending, Frame, readVars
<1>2. /\ n \in 1..MaxFrameSize /\ Len(written') = old + n
      /\ \A i \in 1..old : written'[i] = written[i]
      /\ \A i \in 1..n : written'[old + i] = Chunk(w)[i]
  BY WriteFrameExtends DEF IInv
<1>3. old \in Nat /\ n \in Nat /\ c \in Nat /\ Len(wire) \in Nat /\ last \in Int
  BY <1>1, <1>2, SizeAssumption, LenProperties DEF IInv, SendInv, ScalarInv, ReadInv
<1> HIDE DEF f, n, old, c
<1>4. /\ Len(sent') = c + 1 /\ \A k \in 1..c : sent'[k] = sent[k]
      /\ sent'[c + 1] = f
  BY <1>1, AppendProperties DEF c
<1>5. /\ Len(wire') = Len(wire) + 1 /\ \A i \in 1..Len(wire) : wire'[i] = wire[i]
      /\ wire'[Len(wire) + 1] = f
  <2>1. wire \in Seq(Frames)
    BY <1>1, SeqMonotonic DEF Possible
  <2> QED BY <1>1, <2>1, AppendProperties
<1>6. WireOrder'
  <2> SUFFICES ASSUME nFaults = 0
               PROVE  /\ \A i \in 1..Len(wire') : wire'[i].nonce = last + i /\ wire'[i].cut = "no"
                      /\ last + Len(wire') + 1 = Len(sent')
    BY <1>1 DEF WireOrder
  <2>1. /\ \A i \in 1..Len(wire) : wire[i].nonce = last + i /\ wire[i].cut = "no"
        /\ last + Len(wire) + 1 = c
    BY <1>1 DEF StreamInv, WireOrder, c
  <2>2. ASSUME NEW i \in 1..Len(wire) + 1 PROVE wire'[i].nonce = last + i /\ wire'[i].cut = "no"
    <3>1. CASE i \in 1..Len(wire)
      BY <1>5, <2>1, <3>1
    <3>2. CASE i = Len(wire) + 1
      BY <1>1, <1>3, <1>5, <2>1, <3>2
    <3> QED BY <1>3, <3>1, <3>2
  <2>3. last + (Len(wire) + 1) + 1 = c + 1
    BY <1>3, <2>1
  <2> QED BY <1>4, <1>5, <2>2, <2>3
<1>7. PICK m \in [0..c -> Nat] : Marks(m) /\ (nFaults = 0 => ReadUpTo(m))
  BY DEF StreamInv, c
<1>8. PICK q : q = [k \in 0..c + 1 |-> IF k <= c THEN m[k] ELSE old + n]
  OBVIOUS
<1>9. /\ q \in [0..c + 1 -> Nat] /\ q[c + 1] = old + n
      /\ \A k \in 0..c : q[k] = m[k]
  BY <1>3, <1>8
<1>10. /\ m[0] = 0 /\ m[c] = old
       /\ \A k \in 1..c :
            /\ m[k] = m[k - 1] + Len(sent[k].data) /\ m[k] <= old
            /\ \A i \in 1..Len(sent[k].data) : written[m[k - 1] + i] = sent[k].data[i]
  BY <1>7 DEF Marks, c, old
<1>11. ASSUME NEW k \in 1..c + 1
       PROVE  /\ q[k] = q[k - 1] + Len(sent'[k].data) /\ q[k] <= old + n
              /\ \A i \in 1..Len(sent'[k].data) : written'[q[k - 1] + i] = sent'[k].data[i]
  <2>1. CASE k = c + 1
    <3>1. q[k - 1] = old /\ q[k] = old + n /\ sent'[k].data = Chunk(w) /\ Len(sent'[k].data) = n
      BY <1>1, <1>3, <1>4, <1>9, <1>10, <2>1 DEF n
    <3> QED BY <1>2, <1>3, <3>1
  <2>2. CASE k \in 1..c
    <3>1. /\ q[k] = m[k] /\ q[k - 1] = m[k - 1] /\ sent'[k] = sent[k]
          /\ m[k - 1] \in Nat /\ m[k] <= old
      BY <1>3, <1>4, <1>7, <1>9, <1>10, <2>2
    <3>2. Len(sent[k].data) \in Nat
      <4>1. sent[k].data \in Seq(Bytes)
        BY <1>1, <2>2, ElementOfSeq DEF Frames, c
      <4> QED BY <4>1, LenProperties
    <3>3. m[k] = m[k - 1] + Len(sent[k].data)
      BY <1>10, <2>2
    <3>4. ASSUME NEW i \in 1..Len(sent[k].data)
          PROVE  written'[q[k - 1] + i] = sent[k].data[i]
      <4>1. m[k - 1] + i \in 1..old
        <5> DEFINE p == m[k - 1]
                   l == Len(sent[k].data)
        <5>1. p \in Nat /\ l \in Nat /\ p + l <= old /\ i \in 1..l
          BY <3>1, <3>2, <3>3
        <5> HIDE DEF p, l
        <5>2. p + i \in 1..old
          BY <1>3, <5>1
        <5> QED BY <5>2 DEF p
      <4>2. written[m[k - 1] + i] = sent[k].data[i]
        BY <1>10, <2>2
      <4> QED BY <1>2, <3>1, <4>1, <4>2
    <3>5. q[k] <= old + n
      BY <1>3, <1>7, <2>2, <3>1
    <3> QED BY <3>1, <3>3, <3>4, <3>5
  <2> QED BY <1>3, <2>1, <2>2
<1>12. Marks(q)'
  <2>1. q[0] = 0 /\ q[Len(sent')] = Len(written')
    BY <1>2, <1>3, <1>4, <1>9, <1>10
  <2> QED BY <1>2, <1>4, <1>11, <2>1 DEF Marks
<1>13. nFaults = 0 => ReadUpTo(q)'
  <2> SUFFICES ASSUME nFaults = 0 PROVE ReadUpTo(q)'
    OBVIOUS
  <2>1. ReadUpTo(m) /\ NumRead' = NumRead /\ Got' = Got
    BY <1>1, <1>7 DEF NumRead, Got
  <2>2. /\ NumRead \in 0..c /\ Len(Got) = m[NumRead] /\ Len(Got) <= old
        /\ \A i \in 1..Len(Got) : Got[i] = written[i]
    BY <2>1 DEF ReadUpTo, c, old
  <2>3. /\ NumRead \in 0..Len(sent') /\ Len(Got) = q[NumRead] /\ Len(Got) <= Len(written')
    BY <1>2, <1>3, <1>4, <1>9, <2>2, GotProperties
  <2>4. \A i \in 1..Len(Got) : Got[i] = written'[i]
    <3>1. \A i \in 1..Len(Got) : i \in 1..old
      BY <1>3, <2>2, GotProperties
    <3> QED BY <1>2, <2>2, <3>1
  <2> QED BY <2>1, <2>3, <2>4 DEF ReadUpTo
<1> QED BY <1>1, <1>4, <1>6, <1>9, <1>12, <1>13 DEF StreamInv

(* While nothing is written the marks stay where they are.                 *)
LEMMA MarksStay ==
  ASSUME StreamInv, UNCHANGED <<sent, written>>, WireOrder',
         nFaults' = 0 => nFaults = 0,
         \A m : nFaults' = 0 /\ Marks(m) /\ ReadUpTo(m) => ReadUpTo(m)'
  PROVE  StreamInv'
<1>1. PICK m \in [0..Len(sent) -> Nat] : Marks(m) /\ (nFaults = 0 => ReadUpTo(m))
  BY DEF StreamInv
<1>2. Marks(m)'
  BY <1>1 DEF Marks
<1> QED BY <1>1, <1>2 DEF StreamInv

(* The end of a sender or of the connection leaves at most one frame cut   *)
(* short, the last one.                                                    *)
LEMMA EndKeepsStream ==
  ASSUME IInv, StreamInv, Crash \/ Reset
  PROVE  StreamInv'
<1>1. /\ link = "up" /\ link' # "up"
      /\ UNCHANGED <<sent, written, nFaults, last, current, readBuf, delivered>>
  BY DEF Crash, Reset, readVars
<1>2. wire \in Seq(Frames) /\ Len(wire) \in Nat /\ last \in Int /\ Len(sent) \in Nat
  <2>1. wire \in Seq(Frames)
    BY SeqMonotonic DEF IInv, ReadInv, Possible
  <2> QED BY <2>1, LenProperties, SizeAssumption DEF IInv, SendInv, ScalarInv, ReadInv
<1>3. WireOrder'
  <2>0. link' # "up" /\ last' = last /\ nFaults' = nFaults
    BY <1>1
  <2> SUFFICES ASSUME nFaults' = 0
               PROVE  \A i \in 1..Len(wire') : /\ wire'[i].nonce = last' + i
                                               /\ wire'[i].cut # "no" => i = Len(wire') /\ link' # "up"
    BY <2>0, Zenon DEF WireOrder
  <2>1. /\ \A i \in 1..Len(wire) : wire[i].nonce = last + i /\ wire[i].cut = "no"
        /\ last + Len(wire) + 1 = Len(sent)
    BY <1>1, <2>0 DEF StreamInv, WireOrder
  <2>2. PICK n \in 0..Len(wire) :
          /\ Len(wire') \in {n, n + 1}
          /\ \A i \in 1..n : wire'[i] = wire[i]
          /\ Len(wire') = n + 1 =>
               wire'[n + 1].nonce = IF n = Len(wire) THEN Len(sent) ELSE wire[n + 1].nonce
    BY <1>2, WireAtEnd DEF IInv
  <2>3. ASSUME NEW i \in 1..n PROVE wire'[i].nonce = last + i /\ wire'[i].cut = "no"
    <3>1. i \in 1..Len(wire)
      BY <1>2
    <3> QED BY <2>1, <2>2, <3>1
  <2>4. ASSUME Len(wire') = n + 1 PROVE wire'[n + 1].nonce = last + (n + 1)
    <3>1. CASE n = Len(wire)
      BY <1>2, <2>1, <2>2, <2>4, <3>1
    <3>2. CASE n # Len(wire)
      <4>1. n + 1 \in 1..Len(wire)
        BY <1>2, <3>2
      <4>2. wire[n + 1].nonce = last + (n + 1)
        BY <2>1, <4>1
      <4> QED BY <2>2, <2>4, <3>2, <4>2
    <3> QED BY <3>1, <3>2
  <2>5. ASSUME NEW i \in 1..Len(wire')
        PROVE  wire'[i].nonce = last + i /\ (wire'[i].cut # "no" => i = Len(wire'))
    <3>1. i \in 1..n \/ (Len(wire') = n + 1 /\ i = n + 1)
      BY <1>2, <2>2
    <3> QED BY <2>3, <2>4, <3>1
  <2> QED BY <2>0, <2>5
<1>4. NumRead' = NumRead /\ Got' = Got
  BY <1>1 DEF NumRead, Got
<1> QED BY <1>1, <1>3, <1>4, MarksStay DEF ReadUpTo

(* The header of the next frame is accepted; after one cut short nothing   *)
(* comes.                                                                  *)
LEMMA ReadHeaderKeepsStream ==
  ASSUME IInv, StreamInv, ReadHeader
  PROVE  StreamInv'
<1> DEFINE f == Head(wire)
<1>1. /\ UNCHANGED <<sent, written, nFaults, link, readBuf, delivered>>
      /\ current = <<>> /\ wire # <<>> /\ wire' = Tail(wire)
      /\ \/ f.cut # "inHeader" /\ f.nonce > last /\ current' = <<f>> /\ last' = f.nonce
         \/ ~(f.cut # "inHeader" /\ f.nonce > last) /\ UNCHANGED <<current, last>>
  BY DEF ReadHeader, sendVars, Accepts
<1>2. /\ wire \in Seq(Frames) /\ Len(wire) \in Nat /\ last \in Int /\ Len(sent) \in Nat
  <2>1. wire \in Seq(Frames)
    BY SeqMonotonic DEF IInv, ReadInv, Possible
  <2> QED BY <2>1, LenProperties, SizeAssumption DEF IInv, SendInv, ScalarInv, ReadInv
<1>3. /\ f = wire[1] /\ Len(wire) >= 1 /\ Len(wire') = Len(wire) - 1
      /\ \A i \in 1..Len(wire) - 1 : wire'[i] = wire[i + 1]
  BY <1>1, <1>2, HeadTailProperties, EmptySeq
<1> HIDE DEF f
<1>4. ASSUME nFaults = 0
      PROVE  /\ \A i \in 1..Len(wire) : wire[i].nonce = last + i
             /\ \A i \in 1..Len(wire) : wire[i].cut # "no" => i = Len(wire) /\ link # "up"
             /\ link = "up" => last + Len(wire) + 1 = Len(sent)
  BY <1>4 DEF StreamInv, WireOrder
<1>5. nFaults = 0 => f.nonce = last + 1 /\ f.nonce > last
  <2>1. 1 \in 1..Len(wire)
    BY <1>2, <1>3
  <2> QED BY <1>2, <1>3, <1>4, <2>1
<1>6. nFaults = 0 /\ f.cut = "inHeader" => Len(wire) = 1 /\ link # "up"
  <2>1. 1 \in 1..Len(wire)
    BY <1>2, <1>3
  <2> QED BY <1>3, <1>4, <2>1
<1>7. WireOrder'
  <2> SUFFICES ASSUME nFaults' = 0
               PROVE  /\ \A i \in 1..Len(wire') : /\ wire'[i].nonce = last' + i
                                                  /\ wire'[i].cut # "no" => i = Len(wire') /\ link' # "up"
                      /\ link' = "up" => last' + Len(wire') + 1 = Len(sent')
    BY Zenon DEF WireOrder
  <2>1. link' = link /\ sent' = sent /\ nFaults = 0
    BY <1>1
  <2>2. CASE last' = last + 1
    <3>1. ASSUME NEW i \in 1..Len(wire')
          PROVE  wire'[i].nonce = last' + i
      <4> PICK j : j = i + 1
        OBVIOUS
      <4>1. j \in 1..Len(wire) /\ wire'[i] = wire[j] /\ i \in Nat
        BY <1>2, <1>3
      <4>2. wire[j].nonce = last + j
        BY <1>4, <2>1, <4>1
      <4> QED BY <1>2, <2>2, <4>1, <4>2
    <3>2. ASSUME NEW i \in 1..Len(wire'), wire'[i].cut # "no"
          PROVE  i = Len(wire') /\ link' # "up"
      <4> PICK j : j = i + 1
        OBVIOUS
      <4>1. j \in 1..Len(wire) /\ wire'[i] = wire[j] /\ i \in Nat
        BY <1>2, <1>3
      <4>2. j = Len(wire) /\ link # "up"
        BY <1>4, <2>1, <3>2, <4>1
      <4> QED BY <1>2, <1>3, <2>1, <4>1, <4>2
    <3>3. link' = "up" => last' + Len(wire') + 1 = Len(sent')
      <4>1. last' + Len(wire') + 1 = last + Len(wire) + 1
        BY <1>2, <1>3, <2>2
      <4> QED BY <1>4, <2>1, <4>1
    <3> QED BY <3>1, <3>2, <3>3
  <2>3. CASE f.cut = "inHeader"
    <3>1. Len(wire) = 1 /\ link # "up"
      BY <1>6, <2>1, <2>3
    <3>2. 1..Len(wire') = {}
      BY <1>3, <3>1
    <3> QED BY <2>1, <3>1, <3>2
  <2> QED BY <1>1, <1>5, <2>1, <2>2, <2>3
<1>8. nFaults = 0 => NumRead' = NumRead
  <2> SUFFICES ASSUME nFaults = 0 PROVE NumRead' = NumRead
    OBVIOUS
  <2>1. NumRead = last + 1
    BY <1>1 DEF NumRead
  <2>2. CASE current' = <<f>> /\ last' = f.nonce
    <3>1. current' # <<>>
      BY <2>2
    <3> QED BY <1>5, <2>1, <2>2, <3>1 DEF NumRead
  <2>3. CASE UNCHANGED <<current, last>>
    BY <2>3 DEF NumRead
  <2> QED BY <1>1, <2>2, <2>3
<1>9. Got' = Got
  BY <1>1 DEF Got
<1> QED BY <1>1, <1>7, <1>8, <1>9, MarksStay DEF ReadUpTo

(* The body of the next frame takes the reader to its mark.                *)
LEMMA ReadBodyKeepsStream ==
  ASSUME IInv, StreamInv, ReadBody
  PROVE  StreamInv'
<1> DEFINE f == current[1]
<1>1. /\ UNCHANGED <<sent, written, nFaults, link, wire, last, delivered>>
      /\ current # <<>> /\ readBuf = <<>> /\ f \in Possible /\ f.nonce = last
  <2>1. Len(current) \in Nat /\ Len(current) # 0 /\ Len(current) \in {0, 1}
    BY LenProperties, EmptySeq DEF IInv, ReadInv, ReadBody
  <2>2. f \in Possible
    BY <2>1, ElementOfSeq DEF IInv, ReadInv
  <2> QED BY <2>2 DEF IInv, ReadBody, ReadInv, sendVars
<1>2. WireOrder'
  BY <1>1 DEF StreamInv, WireOrder
<1>3. CASE UNCHANGED <<readBuf, current>>
  <2>1. NumRead' = NumRead /\ Got' = Got
    BY <1>1, <1>3 DEF NumRead, Got
  <2> QED BY <1>1, <1>2, <2>1, MarksStay DEF ReadUpTo
<1>4. CASE f.cut = "no" /\ f.good /\ readBuf' = f.data /\ current' = <<>>
  <2>1. PICK k \in DOMAIN sent : sent[k] = f
    BY <1>1, <1>4 DEF Possible, ToSet
  <2>2. k \in 1..Len(sent) /\ Len(sent) \in Nat /\ k - 1 = last
    <3>1. sent[k].nonce = k - 1
      BY DEF IInv, SendInv, FrameInv
    <3> QED BY <1>1, <2>1, <3>1, LenProperties DEF IInv, SendInv, ScalarInv
  <2>3. NumRead = k - 1 /\ NumRead' = k
    BY <1>1, <1>4, <2>2 DEF NumRead
  <2> DEFINE old == Len(delivered)
             n == Len(f.data)
  <2> PICK g : g = Got'
    OBVIOUS
  <2>4. /\ Got = delivered /\ old \in Nat /\ n \in Nat /\ Len(g) = old + n
        /\ \A i \in 1..old + n : g[i] = IF i <= old THEN delivered[i] ELSE f.data[i - old]
    <3>1. delivered \in Seq(Bytes) /\ f.data \in Seq(Bytes)
      BY <1>1 DEF IInv, ReadInv, Possible, Frames
    <3>2. /\ Len(delivered \o f.data) = old + n /\ old \in Nat /\ n \in Nat
          /\ \A i \in 1..old + n :
               (delivered \o f.data)[i] = IF i <= old THEN delivered[i] ELSE f.data[i - old]
      BY <3>1, ConcatProperties, LenProperties
    <3>3. Got = delivered /\ Got' = delivered \o f.data
      BY <1>1, <1>4, <3>1, ConcatEmptySeq DEF Got
    <3> QED BY <3>2, <3>3
  <2> HIDE DEF old, n
  <2>5. ASSUME NEW m, Marks(m), ReadUpTo(m) PROVE ReadUpTo(m)'
    <3>1. /\ old = m[k - 1] /\ \A i \in 1..old : delivered[i] = written[i]
      BY <2>3, <2>4, <2>5 DEF ReadUpTo, old
    <3>2. /\ m[k] = m[k - 1] + Len(sent[k].data) /\ m[k] <= Len(written)
          /\ \A i \in 1..Len(sent[k].data) : written[m[k - 1] + i] = sent[k].data[i]
      BY <2>2, <2>5 DEF Marks
    <3>3. /\ m[k] = old + n /\ \A i \in 1..n : written[old + i] = f.data[i]
      BY <2>1, <3>1, <3>2 DEF n
    <3>4. ASSUME NEW i \in 1..old + n PROVE g[i] = written[i]
      <4>1. CASE i <= old
        BY <2>4, <3>1, <4>1
      <4>2. CASE i > old
        <5>1. i - old \in 1..n /\ old + (i - old) = i
          BY <2>4, <4>2
        <5> QED BY <2>4, <3>3, <4>2, <5>1
      <4> QED BY <2>4, <4>1, <4>2
    <3>5. k \in 0..Len(sent) /\ old + n <= Len(written)
      BY <2>2, <3>2, <3>3
    <3> QED BY <1>1, <2>3, <2>4, <3>3, <3>4, <3>5 DEF ReadUpTo
  <2> QED BY <1>1, <1>2, <2>5, MarksStay
<1> QED BY <1>3, <1>4 DEF ReadBody

(* Take leaves together what it splits.                                    *)
LEMMA TakeSplits ==
  ASSUME IInv, Take
  PROVE  /\ Got' = Got /\ UNCHANGED <<sent, written, wire, nFaults, link, last, current>>
         /\ delivered' \in Seq(Bytes) /\ Stream!IsPrefix(delivered, delivered')
         /\ Len(delivered') \in Nat /\ Len(delivered') <= Len(Got)
         /\ \A i \in 1..Len(delivered') : delivered'[i] = Got[i]
<1>1. UNCHANGED <<sent, written, wire, nFaults, link, last, current>>
  BY DEF Take, sendVars
<1>2. PICK n \in 1..Len(readBuf) : TakeFrom(n)
  BY DEF Take
<1>3. readBuf \in Seq(Bytes) /\ delivered \in Seq(Bytes) /\ Len(readBuf) \in Nat
  BY LenProperties DEF IInv, ReadInv
<1> DEFINE a == SubSeq(readBuf, 1, n)
           b == SubSeq(readBuf, n + 1, Len(readBuf))
<1>4. a \in Seq(Bytes) /\ b \in Seq(Bytes) /\ a \o b = readBuf
  <2>1. a \in Seq(Bytes) /\ b \in Seq(Bytes)
    BY <1>3, SubSeqProperties, ElementOfSeq
  <2>2. a \o b = SubSeq(readBuf, 1, Len(readBuf))
    BY <1>3, ConcatAdjacentSubSeq
  <2> QED BY <1>3, <2>1, <2>2, SubSeqFull
<1>5. delivered' = delivered \o a /\ readBuf' = b
  BY <1>2 DEF TakeFrom
<1> HIDE DEF a, b
<1>6. /\ delivered' \in Seq(Bytes) /\ Len(delivered') = Len(delivered) + Len(a)
      /\ \A i \in 1..Len(delivered) + Len(a) :
           delivered'[i] = IF i <= Len(delivered) THEN delivered[i] ELSE a[i - Len(delivered)]
  BY <1>3, <1>4, <1>5, ConcatProperties
<1>7. Len(delivered) \in Nat /\ Len(a) \in Nat
  BY <1>3, <1>4, LenProperties
<1>8. Len(delivered) <= Len(delivered') /\ \A i \in 1..Len(delivered) : delivered[i] = delivered'[i]
  BY <1>6, <1>7
<1>9. Stream!IsPrefix(delivered, delivered')
  BY <1>3, <1>6, <1>8, PrefixProperties
<1>10. Got' = Got
  <2>1. \A t, u, v \in Seq(Bytes) : (t \o u) \o v = t \o (u \o v)
    BY ConcatAssociative
  <2> QED BY <1>3, <1>4, <1>5, <2>1 DEF Got
<1> PICK d : d = delivered'
  OBVIOUS
<1>11. /\ Len(Got) = Len(d) + Len(b)
       /\ \A i \in 1..Len(d) + Len(b) : Got[i] = IF i <= Len(d) THEN d[i] ELSE b[i - Len(d)]
  <2>1. Got = d \o b /\ d \in Seq(Bytes)
    BY <1>5, <1>6, <1>10 DEF Got
  <2> HIDE DEF Got
  <2> QED BY <1>4, <2>1, ConcatProperties
<1>12. Len(delivered') \in Nat /\ Len(b) \in Nat
  BY <1>4, <1>6, LenProperties
<1>13. Len(delivered') <= Len(Got) /\ \A i \in 1..Len(delivered') : delivered'[i] = Got[i]
  BY <1>11, <1>12
<1> QED BY <1>1, <1>6, <1>9, <1>10, <1>12, <1>13

(* Every step keeps the order of the stream.                               *)
LEMMA StreamPreserved ==
  ASSUME IInv, StreamInv, [Next]_vars
  PROVE  StreamInv'
<1>1. ASSUME UNCHANGED <<sent, written, wire, nFaults, link, last, current>>, Got' = Got
      PROVE  StreamInv'
  <2>1. WireOrder' /\ NumRead' = NumRead
    BY <1>1 DEF StreamInv, WireOrder, NumRead
  <2> QED BY <1>1, <2>1, MarksStay DEF ReadUpTo
<1>2. CASE UNCHANGED <<sent, written, wire, nFaults, link, readVars>>
  BY <1>1, <1>2 DEF readVars, Got
<1>3. CASE WireFault
  <2>1. UNCHANGED <<sent, written>> /\ nFaults' = nFaults + 1 /\ nFaults \in Nat
    BY <1>3, SizeAssumption DEF WireFault, Replay, Reorder, Drop, Corrupt, Fault, sendVars, IInv, SendInv,
                                ScalarInv
  <2>2. nFaults' # 0 /\ WireOrder'
    BY <2>1 DEF WireOrder
  <2> QED BY <2>1, <2>2, MarksStay
<1>4. CASE ReadEof
  BY <1>1, <1>4 DEF ReadEof, sendVars, Got
<1>5. CASE ReadStep
  BY <1>1, <1>4, <1>5, TakeSplits, ReadHeaderKeepsStream, ReadBodyKeepsStream DEF ReadStep
<1>6. ASSUME NEW w \in Writers, WriteStep(w) PROVE StreamInv'
  BY <1>2, <1>6, WriteFrameKeepsStream DEF WriteStep, BeginWrite, WriteFails, EndWrite
<1>7. CASE UNCHANGED vars
  BY <1>2, <1>7 DEF vars, sendVars
<1> QED BY <1>3, <1>5, <1>6, <1>7, EndKeepsStream DEF Next

(* Whole frames are added to the stream, and bytes that are there are read *)
(* from it: until the wire's first fault every step is one of ByteStream's *)
(* or none.                                                                *)
LEMMA StepsOfStream ==
  ASSUME IInv, StreamInv, [Next]_vars
  PROVE  [nFaults' > 0 \/ Stream!Write \/ Stream!Read]_(Stream!streamVars)
<1>1. CASE UNCHANGED <<written, delivered>>
  BY <1>1 DEF Stream!streamVars
<1>2. ASSUME NEW w \in Writers, WriteFrame(w) PROVE Stream!Write
  <2> DEFINE n == Len(Chunk(w))
  <2>1. /\ n \in 1..MaxFrameSize /\ written \in Seq(Bytes)
        /\ written' \in Seq(Bytes) /\ Len(written') = Len(written) + n
        /\ \A i \in 1..Len(written) : written'[i] = written[i]
    BY <1>2, WriteFrameExtends DEF IInv, SendInv, ScalarInv
  <2> HIDE DEF n
  <2>2. Len(written) <= Len(written')
    BY <2>1, SizeAssumption, LenProperties
  <2>3. Stream!IsPrefix(written, written')
    BY <2>1, <2>2, PrefixProperties
  <2>4. UNCHANGED delivered
    BY <1>2 DEF WriteFrame, readVars
  <2> QED BY <2>1, <2>3, <2>4 DEF Stream!Write
<1>3. CASE Take /\ ~(nFaults' > 0)
  <2>1. /\ Got' = Got /\ UNCHANGED <<written, nFaults>> /\ delivered' \in Seq(Bytes)
        /\ Stream!IsPrefix(delivered, delivered')
    BY <1>3, TakeSplits
  <2>2. nFaults = 0
    BY <1>3, <2>1, SizeAssumption DEF IInv, SendInv, ScalarInv
  <2>3. /\ Len(Got) <= Len(written) /\ \A i \in 1..Len(Got) : Got[i] = written[i]
    BY <2>2 DEF StreamInv, ReadUpTo
  <2>4. /\ Len(delivered') <= Len(Got) /\ \A i \in 1..Len(delivered') : delivered'[i] = Got[i]
        /\ Len(delivered') \in Nat /\ Len(Got) \in Nat
    BY <1>3, TakeSplits, GotProperties
  <2>5. written \in Seq(Bytes) /\ Len(written) \in Nat
    BY LenProperties DEF IInv, SendInv, ScalarInv
  <2>6. Len(delivered') <= Len(written) /\ \A i \in 1..Len(delivered') : delivered'[i] = written[i]
    BY <2>3, <2>4, <2>5
  <2>7. Stream!IsPrefix(delivered', written)
    BY <2>1, <2>5, <2>6, PrefixProperties
  <2> QED BY <2>1, <2>7 DEF Stream!Read
<1>4. CASE ReadStep
  BY <1>1, <1>3, <1>4 DEF ReadStep, ReadHeader, ReadBody, ReadEof, sendVars
<1>5. CASE WireFault \/ Crash \/ Reset \/ UNCHANGED vars
  BY <1>1, <1>5 DEF WireFault, Replay, Reorder, Drop, Corrupt, Fault, Crash, Reset, sendVars, readVars, vars
<1>6. ASSUME NEW w \in Writers, WriteStep(w)
      PROVE  [nFaults' > 0 \/ Stream!Write \/ Stream!Read]_(Stream!streamVars)
  BY <1>1, <1>2, <1>6 DEF WriteStep, BeginWrite, WriteFails, EndWrite, readVars
<1> QED BY <1>4, <1>5, <1>6 DEF Next

(* Until the wire's first fault the connection is the byte stream git      *)
(* expects of a net.Conn, across frames, short reads, a sender that dies   *)
(* and a connection that breaks (Read, Write).                             *)
THEOREM ConnectionIsByteStream == Spec => IsByteStream
<1>1. Init => Stream!Init
  BY DEF Init, Stream!Init
<1>2. StreamInv /\ IInv /\ [Next]_vars => StreamInv'
  BY StreamPreserved
<1>3. StreamInv /\ IInv /\ [Next]_vars =>
        [nFaults' > 0 \/ Stream!Write \/ Stream!Read]_(Stream!streamVars)
  BY StepsOfStream
<1> QED BY <1>1, <1>2, <1>3, InitStreamInv, IInvHolds, PTL DEF Spec, IsByteStream
==================================================================================
