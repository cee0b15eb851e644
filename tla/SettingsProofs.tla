--------------------------- MODULE SettingsProofs ---------------------------
(***************************************************************************)
(* What holds of Settings for every number of requests, every set of texts *)
(* and every size of the flash.  The invariant says what the flash looks   *)
(* like after each way a save can go: it is always what the first v        *)
(* records of the last saved settings leave (Written), all of them unless  *)
(* the save was cut off.  Two lemmas then say what a load makes of such a  *)
(* flash: it learns the number of channels from record 4 alone             *)
(* (LoadHeader), and one that reads to the end needs every text of the     *)
(* last save, so that only the very last port can be missing (LoadWhole).  *)
(***************************************************************************)
EXTENDS Settings, SequenceTheorems, TLAPS

Channels == [host : AllTexts, path : AllTexts, port : Int]

Typed(s) == s.ssid \in AllTexts /\ s.pass \in AllTexts /\ s.chans \in Seq(Channels)

\* What can be found in the flash.
Records == {Erased, Header} \cup {Text(x) : x \in AllTexts} \cup {Number(x) : x \in Int}

\* The flash after v of the records of settings s have been written.
Written(s, v) == [p \in 1..Capacity |-> IF p <= v THEN Image(s)[p] ELSE Erased]

\* The parts of Load.
Upto(f, p) == f[1] = Header /\ \A k \in 2..p : CanRead(f, k)
Base(f, s) == IF Upto(f, 4) /\ ValidCount(NumberAt(f, 4))
                THEN Fresh(NumberAt(f, 4)) ELSE s.chans
TextAt(f, p, before) == IF Upto(f, p) THEN Decode(f[p].text) ELSE before
ChanAt(f, s, i) ==
  [host |-> TextAt(f, 3 * i + 2, Base(f, s)[i].host),
   path |-> TextAt(f, 3 * i + 3, Base(f, s)[i].path),
   port |-> IF Upto(f, 3 * i + 4) THEN NumberAt(f, 3 * i + 4)
                                  ELSE Base(f, s)[i].port]
-----------------------------------------------------------------------------
\* Load, put together from its named parts.
LEMMA LoadParts ==
  ASSUME NEW f, NEW s
  PROVE  Load(f, s) = [ssid |-> TextAt(f, 2, s.ssid), pass |-> TextAt(f, 3, s.pass),
                       chans |-> [i \in 1 .. Len(Base(f, s)) |-> ChanAt(f, s, i)],
                       ok |-> Upto(f, 3 * Len(Base(f, s)) + 4)]
  BY DEF Load, Upto, Base, TextAt, ChanAt

\* Where each setting is written.
LEMMA ImageRecords ==
  ASSUME NEW s, s.chans \in Seq(Channels)
  PROVE  /\ Len(Image(s)) = 4 + 3 * Len(s.chans)
         /\ Image(s)[1] = Header /\ Image(s)[2] = Text(s.ssid)
         /\ Image(s)[3] = Text(s.pass) /\ Image(s)[4] = Number(Len(s.chans))
         /\ \A i \in 1 .. Len(s.chans) :
              /\ Image(s)[3 * i + 2] = Text(s.chans[i].host)
              /\ Image(s)[3 * i + 3] = Text(s.chans[i].path)
              /\ Image(s)[3 * i + 4] = Number(s.chans[i].port)
<1> DEFINE front == <<Header, Text(s.ssid), Text(s.pass), Number(Len(s.chans))>>
           m == 3 * Len(s.chans)
           record(k) == LET c == s.chans[1 + ((k - 1) \div 3)]
                        IN  CASE k % 3 = 1 -> Text(c.host)
                              [] k % 3 = 2 -> Text(c.path)
                              [] k % 3 = 0 -> Number(c.port)
           rest == [k \in 1 .. m |-> record(k)]
           R == {Header, Text(s.ssid), Text(s.pass), Number(Len(s.chans))}
                  \cup {record(k) : k \in 1..m}
<1>1. m \in Nat /\ Len(s.chans) \in Nat /\ m = 3 * Len(s.chans)
  OBVIOUS
<1>2. Image(s) = front \o rest
  BY DEF Image
<1>3. \A k \in 1..m, i \in Nat : 1 + ((k - 1) \div 3) = i =>
        /\ k % 3 = 1 => record(k) = Text(s.chans[i].host)
        /\ k % 3 = 2 => record(k) = Text(s.chans[i].path)
        /\ k % 3 = 0 => record(k) = Number(s.chans[i].port)
  BY <1>1
<1> HIDE DEF record, m
<1>4. rest \in Seq(R) /\ Len(rest) = m /\ \A k \in 1..m : rest[k] = record(k)
  BY <1>1
<1>5. front \in Seq(R)
  OBVIOUS
<1>6. /\ Len(front) = 4 /\ front[1] = Header /\ front[2] = Text(s.ssid)
      /\ front[3] = Text(s.pass) /\ front[4] = Number(Len(s.chans))
  OBVIOUS
<1> HIDE DEF front, rest, R
<1>7. /\ Len(front \o rest) = Len(front) + Len(rest)
      /\ \A k \in 1 .. Len(front) + Len(rest) :
           (front \o rest)[k] = IF k <= Len(front) THEN front[k]
                                                  ELSE rest[k - Len(front)]
  BY <1>4, <1>5, ConcatProperties, Zenon
<1>8. /\ Len(Image(s)) = 4 + m
      /\ \A k \in 1 .. 4 + m :
           Image(s)[k] = IF k <= 4 THEN front[k] ELSE rest[k - 4]
  BY <1>2, <1>4, <1>6, <1>7
<1>9. \A k \in 1..4 : Image(s)[k] = front[k]
  BY <1>1, <1>8
<1>10. ASSUME NEW i \in 1 .. Len(s.chans)
       PROVE  /\ Image(s)[3 * i + 2] = Text(s.chans[i].host)
              /\ Image(s)[3 * i + 3] = Text(s.chans[i].path)
              /\ Image(s)[3 * i + 4] = Number(s.chans[i].port)
  <2>1. \A k \in 1..m : Image(s)[k + 4] = record(k)
    <3> SUFFICES ASSUME NEW k \in 1..m PROVE Image(s)[k + 4] = record(k)
      OBVIOUS
    <3>1. k + 4 \in 1 .. 4 + m /\ ~(k + 4 <= 4) /\ (k + 4) - 4 = k
      BY <1>1
    <3> QED
      BY <3>1, <1>4, <1>8
  <2> DEFINE h == 3 * i - 2
             p == 3 * i - 1
             n == 3 * i
  <2>2. /\ i \in Nat /\ h \in 1..m /\ h % 3 = 1 /\ 1 + ((h - 1) \div 3) = i
        /\ p \in 1..m /\ p % 3 = 2 /\ 1 + ((p - 1) \div 3) = i
        /\ n \in 1..m /\ n % 3 = 0 /\ 1 + ((n - 1) \div 3) = i
    BY <1>1
  <2>3. 3 * i + 2 = h + 4 /\ 3 * i + 3 = p + 4 /\ 3 * i + 4 = n + 4
    OBVIOUS
  <2> HIDE DEF h, p, n
  <2>5. Image(s)[h + 4] = Text(s.chans[i].host)
    <3>1. Image(s)[h + 4] = record(h)
      BY <2>1, <2>2, Zenon
    <3>2. record(h) = Text(s.chans[i].host)
      BY <1>3, <2>2, Zenon
    <3> QED
      BY <3>1, <3>2, Zenon
  <2>6. Image(s)[p + 4] = Text(s.chans[i].path)
    <3>1. Image(s)[p + 4] = record(p)
      BY <2>1, <2>2, Zenon
    <3>2. record(p) = Text(s.chans[i].path)
      BY <1>3, <2>2, Zenon
    <3> QED
      BY <3>1, <3>2, Zenon
  <2>7. Image(s)[n + 4] = Number(s.chans[i].port)
    <3>1. Image(s)[n + 4] = record(n)
      BY <2>1, <2>2, Zenon
    <3>2. record(n) = Number(s.chans[i].port)
      BY <1>3, <2>2, Zenon
    <3> QED
      BY <3>1, <3>2, Zenon
  <2> QED
    BY <2>3, <2>5, <2>6, <2>7
<1>11. /\ Image(s)[1] = Header /\ Image(s)[2] = Text(s.ssid)
       /\ Image(s)[3] = Text(s.pass) /\ Image(s)[4] = Number(Len(s.chans))
  BY <1>6, <1>9
<1> QED
  BY <1>1, <1>8, <1>10, <1>11
-----------------------------------------------------------------------------
LEMMA RecordKinds ==
  ASSUME NEW r \in Records
  PROVE  /\ r.kind \in {"erased", "header", "text", "number"}
         /\ r.kind = "text" => r.text \in AllTexts
         /\ r.kind = "number" => r.number \in Int
  BY DEF Records, Erased, Header, Text, Number

LEMMA DecodeTyped ==
  ASSUME NEW x \in AllTexts
  PROVE  Decode(x) \in AllTexts
  BY DEF Decode, AllTexts

LEMMA FreshTyped ==
  ASSUME NEW n \in Nat
  PROVE  Fresh(n) \in Seq(Channels) /\ Len(Fresh(n)) = n
  BY DEF Fresh, Channels, AllTexts, Junk

LEMMA ImageSize ==
  ASSUME NEW s, Typed(s), ValidCount(Len(s.chans))
  PROVE  /\ Len(s.chans) \in Nat /\ Len(s.chans) > 0
         /\ Len(Image(s)) = 4 + 3 * Len(s.chans)
         /\ Len(Image(s)) \in Nat /\ Len(Image(s)) >= 7
<1>1. Len(s.chans) \in Nat /\ Len(s.chans) > 0
  BY DEF Typed, ValidCount
<1>2. Len(Image(s)) = 4 + 3 * Len(s.chans)
  BY ImageRecords, Zenon DEF Typed
<1> QED
  BY <1>1, <1>2

\* Everything written is a record.
LEMMA ImageTyped ==
  ASSUME NEW s, Typed(s)
  PROVE  \A p \in 1 .. Len(Image(s)) : Image(s)[p] \in Records
<1> SUFFICES ASSUME NEW p \in 1 .. Len(Image(s)) PROVE Image(s)[p] \in Records
  OBVIOUS
<1>1. /\ s.chans \in Seq(Channels) /\ Len(s.chans) \in Nat
      /\ s.ssid \in AllTexts /\ s.pass \in AllTexts
  BY DEF Typed
<1>2. Len(Image(s)) = 4 + 3 * Len(s.chans)
  BY <1>1, ImageRecords, Zenon
<1>3. CASE p <= 4
  <2>1. p = 1 \/ p = 2 \/ p = 3 \/ p = 4
    BY <1>2, <1>1, <1>3
  <2>2. /\ Image(s)[1] = Header /\ Image(s)[2] = Text(s.ssid)
        /\ Image(s)[3] = Text(s.pass) /\ Image(s)[4] = Number(Len(s.chans))
    BY <1>1, ImageRecords, Zenon
  <2> QED
    BY <2>1, <2>2, <1>1 DEF Records
<1>4. CASE p > 4
  <2> DEFINE i == (p - 2) \div 3
  <2>1. i \in 1 .. Len(s.chans) /\ (p = 3 * i + 2 \/ p = 3 * i + 3 \/ p = 3 * i + 4)
    <3>1. p \in Int /\ p > 4 /\ p <= 4 + 3 * Len(s.chans)
      BY <1>1, <1>2, <1>4
    <3> HIDE DEF i
    <3>2. i \in Int /\ 3 * i <= p - 2 /\ p - 2 < 3 * i + 3
      BY <3>1 DEF i
    <3> QED
      BY <3>1, <3>2, <1>1
  <2> HIDE DEF i
  <2>2. /\ Image(s)[3 * i + 2] = Text(s.chans[i].host)
        /\ Image(s)[3 * i + 3] = Text(s.chans[i].path)
        /\ Image(s)[3 * i + 4] = Number(s.chans[i].port)
    BY <1>1, <2>1, ImageRecords, Zenon
  <2>3. s.chans[i] \in Channels
    BY <1>1, <2>1
  <2>4. s.chans[i].host \in AllTexts /\ s.chans[i].path \in AllTexts /\ s.chans[i].port \in Int
    BY <2>3 DEF Channels
  <2> QED
    BY <2>1, <2>2, <2>4 DEF Records
<1> QED
  BY <1>1, <1>2, <1>3, <1>4

LEMMA WrittenTyped ==
  ASSUME NEW s, Typed(s), NEW v \in 0 .. Len(Image(s))
  PROVE  Written(s, v) \in [1..Capacity -> Records]
<1>1. Len(s.chans) \in Nat /\ Len(Image(s)) = 4 + 3 * Len(s.chans)
  BY ImageRecords DEF Typed
<1>2. \A p \in 1 .. Len(Image(s)) : Image(s)[p] \in Records
  BY ImageTyped, Zenon
<1>3. Erased \in Records
  BY DEF Records
<1> QED
  BY <1>1, <1>2, <1>3, BoundAssumption DEF Written

\* Writing one more record.
LEMMA WrittenNext ==
  ASSUME NEW s, NEW v \in Nat
  PROVE  Written(s, v + 1) =
           IF v + 1 <= Capacity
             THEN [Written(s, v) EXCEPT ![v + 1] = Image(s)[v + 1]]
             ELSE Written(s, v)
  BY BoundAssumption DEF Written

\* A load leaves settings of their types, and channels unless there were none.
LEMMA LoadTyped ==
  ASSUME NEW f \in [1..Capacity -> Records], NEW t, Typed(t)
  PROVE  /\ Typed(Load(f, t))
         /\ Len(Load(f, t).chans) = Len(Base(f, t))
         /\ Base(f, t) \in Seq(Channels)
         /\ Base(f, t) = t.chans \/ ValidCount(Len(Base(f, t)))
<1>1. ASSUME NEW p \in Nat, p > 0, IsText(p), NEW before \in AllTexts
      PROVE  TextAt(f, p, before) \in AllTexts
  <2>1. CASE p = 1
    BY <1>1, <2>1 DEF IsText
  <2>2. CASE p \in 2..p /\ Upto(f, p)
    <3>1. CanRead(f, p)
      BY <2>2 DEF Upto
    <3>2. p \in 1..Capacity /\ f[p].kind = "text"
      BY <3>1, <1>1 DEF CanRead
    <3>3. f[p].text \in AllTexts
      BY <3>2, RecordKinds
    <3> QED
      BY <3>3, <2>2, DecodeTyped DEF TextAt
  <2>3. CASE ~Upto(f, p)
    BY <2>3, <1>1 DEF TextAt
  <2> QED
    BY <1>1, <2>1, <2>2, <2>3
<1>2. ASSUME NEW p \in 1..Capacity
      PROVE  NumberAt(f, p) \in Int
  BY RecordKinds DEF NumberAt, ErasedInt
<1>3. /\ Base(f, t) \in Seq(Channels)
      /\ Base(f, t) = t.chans \/ ValidCount(Len(Base(f, t)))
  <2>1. CASE Upto(f, 4) /\ ValidCount(NumberAt(f, 4))
    <3>1. NumberAt(f, 4) \in Int
      BY <1>2, BoundAssumption
    <3>2. NumberAt(f, 4) \in Nat
      BY <3>1, <2>1 DEF ValidCount
    <3>3. Base(f, t) = Fresh(NumberAt(f, 4))
      BY <2>1 DEF Base
    <3> QED
      BY <3>2, <3>3, <2>1, FreshTyped
  <2>2. CASE ~(Upto(f, 4) /\ ValidCount(NumberAt(f, 4)))
    BY <2>2 DEF Base, Typed
  <2> QED
    BY <2>1, <2>2
<1>4. ASSUME NEW i \in 1 .. Len(Base(f, t))
      PROVE  ChanAt(f, t, i) \in Channels
  <2>1. Base(f, t)[i] \in Channels /\ i \in Nat /\ i > 0
    BY <1>3
  <2>2. /\ Base(f, t)[i].host \in AllTexts /\ Base(f, t)[i].path \in AllTexts
        /\ Base(f, t)[i].port \in Int
    BY <2>1 DEF Channels
  <2>3. IsText(3 * i + 2) /\ IsText(3 * i + 3)
    BY <2>1 DEF IsText
  <2>4. /\ TextAt(f, 3 * i + 2, Base(f, t)[i].host) \in AllTexts
        /\ TextAt(f, 3 * i + 3, Base(f, t)[i].path) \in AllTexts
    BY <1>1, <2>1, <2>2, <2>3
  <2>5. ASSUME Upto(f, 3 * i + 4) PROVE NumberAt(f, 3 * i + 4) \in Int
    <3>1. CanRead(f, 3 * i + 4)
      BY <2>1, <2>5 DEF Upto
    <3> QED
      BY <3>1, <2>1, <1>2 DEF CanRead
  <2> QED
    BY <2>2, <2>4, <2>5 DEF ChanAt, Channels
<1>5. IsText(2) /\ IsText(3)
  BY DEF IsText
<1>6. TextAt(f, 2, t.ssid) \in AllTexts /\ TextAt(f, 3, t.pass) \in AllTexts
  BY <1>1, <1>5 DEF Typed
<1> DEFINE row == [i \in 1 .. Len(Base(f, t)) |-> ChanAt(f, t, i)]
<1>7. row \in Seq(Channels) /\ Len(row) = Len(Base(f, t))
  BY <1>3, <1>4
<1>8. /\ Load(f, t).ssid = TextAt(f, 2, t.ssid) /\ Load(f, t).pass = TextAt(f, 3, t.pass)
      /\ Load(f, t).chans = row
  BY LoadParts
<1> HIDE DEF row
<1> QED
  BY <1>3, <1>6, <1>7, <1>8 DEF Typed

\* Whether a load changes the number of channels rests on record 4.
LEMMA LoadHeader ==
  ASSUME NEW s, Typed(s), ValidCount(Len(s.chans)), NEW v \in Nat, NEW t
  PROVE  /\ v < 4 => Base(Written(s, v), t) = t.chans
         /\ v >= 4 /\ Upto(Written(s, v), 4) =>
              Base(Written(s, v), t) = Fresh(Len(s.chans))
<1>1. 4 \in 1..Capacity
  BY BoundAssumption
<1>2. CASE v < 4
  <2>1. Written(s, v)[4] = Erased
    BY <1>1, <1>2 DEF Written
  <2>2. NumberAt(Written(s, v), 4) = ErasedInt
    BY <2>1 DEF NumberAt, Erased
  <2> QED
    BY <2>2, <1>2 DEF Base, ErasedInt, ValidCount
<1>3. CASE v >= 4
  <2>1. Image(s)[4] = Number(Len(s.chans))
    BY ImageRecords DEF Typed
  <2>2. Written(s, v)[4] = Number(Len(s.chans))
    BY <1>1, <1>3, <2>1 DEF Written
  <2>3. NumberAt(Written(s, v), 4) = Len(s.chans)
    BY <2>2 DEF NumberAt, Number
  <2> QED
    BY <2>3, <1>3 DEF Base
<1> QED
  BY <1>2, <1>3

\* What a load finds that reads to the end of the records of settings s, of
\* which v are there.
Found(s, v) ==
  [ssid |-> Decode(s.ssid), pass |-> Decode(s.pass),
   chans |-> [i \in 1 .. Len(s.chans) |->
                [host |-> Decode(s.chans[i].host), path |-> Decode(s.chans[i].path),
                 port |-> IF 3 * i + 4 <= v THEN s.chans[i].port ELSE ErasedInt]],
   ok |-> TRUE]

\* A load that reads to the end has everything but, perhaps, the last port.
LEMMA LoadWhole ==
  ASSUME NEW s, Typed(s), ValidCount(Len(s.chans)), NEW v \in Nat, v >= 4, NEW t,
         Upto(Written(s, v), 3 * Len(s.chans) + 4)
  PROVE  v >= 3 * Len(s.chans) + 3 /\ Load(Written(s, v), t) = Found(s, v)
<1> DEFINE f == Written(s, v)
           n == Len(s.chans)
<1>1. n \in Nat /\ n > 0 /\ s.chans \in Seq(Channels)
  BY DEF ValidCount, Typed
<1>2. /\ Image(s)[2] = Text(s.ssid) /\ Image(s)[3] = Text(s.pass)
      /\ \A i \in 1..n : /\ Image(s)[3 * i + 2] = Text(s.chans[i].host)
                         /\ Image(s)[3 * i + 3] = Text(s.chans[i].path)
                         /\ Image(s)[3 * i + 4] = Number(s.chans[i].port)
  BY <1>1, ImageRecords, Zenon
<1>3. \A p \in 1..Capacity : f[p] = IF p <= v THEN Image(s)[p] ELSE Erased
  BY DEF Written
<1> HIDE DEF f, n
<1>4. Upto(f, 3 * n + 4)
  BY DEF f, n
<1>5. \A q \in 2 .. 3 * n + 4 : CanRead(f, q) /\ Upto(f, q)
  BY <1>1, <1>4 DEF Upto
<1>6. Upto(f, 4)
  BY <1>1, <1>5
<1>7. Base(f, t) = Fresh(n)
  BY <1>6, LoadHeader DEF f, n
<1>8. Len(Fresh(n)) = n
  BY <1>1, FreshTyped
<1>9. ASSUME NEW p \in 2 .. 3 * n + 4
      PROVE  /\ p \in 1..Capacity
             /\ IsText(p) => p <= v /\ f[p] = Image(s)[p] /\ f[p].kind = "text"
  <2>1. CanRead(f, p) /\ p \in Int
    BY <1>1, <1>5
  <2>2. p \in 1..Capacity
    BY <2>1, BoundAssumption DEF CanRead
  <2>3. ASSUME IsText(p) PROVE p <= v /\ f[p] = Image(s)[p] /\ f[p].kind = "text"
    <3>1. f[p].kind = "text"
      BY <2>1, <2>3 DEF CanRead
    <3>2. f[p] # Erased
      BY <3>1 DEF Erased
    <3> QED
      BY <3>1, <3>2, <2>2, <1>3
  <2> QED
    BY <2>2, <2>3
<1>10. IsText(2) /\ IsText(3) /\ 2 \in 2 .. 3 * n + 4 /\ 3 \in 2 .. 3 * n + 4
  BY <1>1 DEF IsText
<1>11. f[2] = Text(s.ssid) /\ f[3] = Text(s.pass)
  BY <1>2, <1>9, <1>10
<1>12. TextAt(f, 2, t.ssid) = Decode(s.ssid) /\ TextAt(f, 3, t.pass) = Decode(s.pass)
  BY <1>5, <1>10, <1>11 DEF TextAt, Text
<1>13. ASSUME NEW i \in 1..n
       PROVE  /\ 3 * i + 3 <= v
              /\ ChanAt(f, t, i) = Found(s, v).chans[i]
  <2>1. /\ 3 * i + 2 \in 2 .. 3 * n + 4 /\ 3 * i + 3 \in 2 .. 3 * n + 4
        /\ 3 * i + 4 \in 2 .. 3 * n + 4 /\ IsText(3 * i + 2) /\ IsText(3 * i + 3)
    BY <1>1 DEF IsText
  <2>2. f[3 * i + 2] = Text(s.chans[i].host) /\ f[3 * i + 3] = Text(s.chans[i].path)
    BY <1>2, <1>9, <2>1
  <2>3. /\ TextAt(f, 3 * i + 2, Base(f, t)[i].host) = Decode(s.chans[i].host)
        /\ TextAt(f, 3 * i + 3, Base(f, t)[i].path) = Decode(s.chans[i].path)
    BY <1>5, <2>1, <2>2 DEF TextAt, Text
  <2>4. f[3 * i + 4] = IF 3 * i + 4 <= v THEN Number(s.chans[i].port) ELSE Erased
    BY <1>2, <1>3, <1>9, <2>1
  <2>5. NumberAt(f, 3 * i + 4) = IF 3 * i + 4 <= v THEN s.chans[i].port ELSE ErasedInt
    BY <2>4 DEF NumberAt, Number, Erased
  <2>6. ChanAt(f, t, i) =
          [host |-> Decode(s.chans[i].host), path |-> Decode(s.chans[i].path),
           port |-> IF 3 * i + 4 <= v THEN s.chans[i].port ELSE ErasedInt]
    BY <1>5, <2>1, <2>3, <2>5 DEF ChanAt
  <2>7. 3 * i + 3 <= v
    BY <1>9, <2>1
  <2> QED
    BY <2>6, <2>7 DEF Found, n
<1>14. [i \in 1 .. Len(Base(f, t)) |-> ChanAt(f, t, i)] = Found(s, v).chans
  BY <1>7, <1>8, <1>13 DEF Found, n
<1>15. Load(f, t) = Found(s, v)
  <2>1. Upto(f, 3 * Len(Base(f, t)) + 4) = TRUE
    BY <1>4, <1>7, <1>8 DEF Upto
  <2> QED
    BY <1>12, <1>14, <2>1, LoadParts DEF Found
<1> QED
  BY <1>1, <1>13, <1>15 DEF f, n
-----------------------------------------------------------------------------
Typing ==
  /\ Typed(Settings) /\ Typed(saving)
  /\ ValidCount(Len(saving.chans))
  /\ flash \in [1..Capacity -> Records]
  /\ spc \in {"off", "crash", "run", "save"}
  /\ w \in 0 .. Len(Image(saving)) /\ ret \in {0, -1} /\ cmds \in 0..MaxCmds
  /\ lastSave \in {"none", "begun", "ok", "nok", "cut"}

\* When there are channels, and when a save is under way.
Phases ==
  /\ spc \in {"off", "crash"} => chans = <<>>
  /\ spc \in {"run", "save"} => ValidCount(Len(chans))
  /\ spc = "save" <=> lastSave = "begun"
  /\ spc = "save" => Settings = saving
  /\ spc = "crash" => lastSave = "cut"

\* The flash after each way a save can go.
Row ==
  /\ lastSave = "none" => flash = [p \in 1..Capacity |-> Erased]
  /\ lastSave = "begun" => flash = Written(saving, w)
  /\ lastSave \in {"ok", "nok"} => flash = Written(saving, Len(Image(saving)))
  /\ lastSave = "ok" => Upto(flash, 3 * Len(saving.chans) + 4)
  /\ lastSave = "cut" => \E v \in 0 .. Len(Image(saving)) : flash = Written(saving, v)

Inv == Typing /\ Phases /\ Row

LEMMA InitInv == Init => Inv
<1> SUFFICES ASSUME Init PROVE Inv
  OBVIOUS
<1>1. <<>> \in Seq(Channels) /\ Defaults.chans \in Seq(Channels) /\ Len(Defaults.chans) = 1
  BY DEF Defaults, Channels, AllTexts
<1>2. Typed(Settings) /\ Typed(saving) /\ Len(saving.chans) = 1
  BY <1>1 DEF Init, Typed, Settings, Defaults, AllTexts
<1>3. ValidCount(Len(saving.chans))
  BY <1>2 DEF ValidCount, MaxCount
<1>4. Len(Image(saving)) \in Nat
  BY <1>2, <1>3, ImageSize, Zenon
<1>5. Erased \in Records
  BY DEF Records
<1>6. Typing
  <2>1. flash \in [1..Capacity -> Records]
    BY <1>5 DEF Init
  <2>2. w \in 0 .. Len(Image(saving)) /\ ret \in {0, -1} /\ cmds \in 0..MaxCmds
    <3>1. ret \in {0, -1}
      BY DEF Init
    <3>2. w = 0 /\ cmds = 0
      BY DEF Init
    <3>3. cmds \in 0..MaxCmds
      BY <3>2, BoundAssumption
    <3>4. w \in 0 .. Len(Image(saving))
      BY <1>4, <3>2
    <3> QED
      BY <3>1, <3>3, <3>4
  <2>3. /\ spc \in {"off", "crash", "run", "save"}
        /\ lastSave \in {"none", "begun", "ok", "nok", "cut"}
    BY DEF Init
  <2> QED
    BY <1>2, <1>3, <2>1, <2>2, <2>3 DEF Typing
<1> QED
  BY <1>6 DEF Init, Inv, Phases, Row

LEMMA BootInv == Inv /\ Boot => Inv'
<1> SUFFICES ASSUME Inv, Boot PROVE Inv'
  OBVIOUS
<1> USE DEF Inv
<1>1. UNCHANGED <<flash, w, ret, cmds, saving, lastSave>> /\ spc = "off"
  BY DEF Boot, history
<1> DEFINE loaded == Load(flash, Settings)
<1>2. /\ Typed(loaded)
      /\ Len(loaded.chans) = Len(Base(flash, Settings))
      /\ Base(flash, Settings) = chans \/ ValidCount(Len(Base(flash, Settings)))
  BY LoadTyped DEF Typing, Settings
<1>3. Typed(Defaults) /\ Len(Defaults.chans) = 1
  BY DEF Defaults, Typed, Channels, AllTexts
<1>4. Typed(Settings')
  BY <1>2, <1>3 DEF Boot, Become, Typed, Settings
<1>5. spc' \in {"run", "crash"} /\ (spc' = "crash" <=> chans' = <<>>)
  BY DEF Boot
<1>6. Typing'
  BY <1>1, <1>4, <1>5 DEF Typing
<1>7. Row'
  BY <1>1 DEF Row
<1>8. spc' = "run" => ValidCount(Len(chans'))
  <2> SUFFICES ASSUME chans' # <<>> PROVE ValidCount(Len(chans'))
    BY <1>5
  <2>1. CASE ~loaded.ok
    <3>1. chans' = Defaults.chans
      BY <2>1 DEF Boot, Become
    <3>2. Len(chans') = 1
      BY <1>3, <3>1, Zenon
    <3> QED
      BY <3>2 DEF ValidCount, MaxCount
  <2>2. CASE loaded.ok
    <3>1. chans' = loaded.chans
      BY <2>2 DEF Boot, Become
    <3>2. Len(loaded.chans) # 0
      BY <1>2, <3>1 DEF Typed
    <3>3. chans = <<>>
      BY <1>1 DEF Phases
    <3> QED
      BY <1>2, <3>1, <3>2, <3>3
  <2> QED
    BY <2>1, <2>2
<1>9. ASSUME spc' = "crash" PROVE lastSave = "cut"
  <2>1. loaded.ok /\ loaded.chans = <<>>
    BY <1>3, <1>5, <1>9 DEF Boot, Become
  <2>2. Len(Base(flash, Settings)) = 0
    BY <1>2, <2>1
  <2>3. Upto(flash, 3 * Len(Base(flash, Settings)) + 4)
    BY <2>1, LoadParts
  <2>4. Upto(flash, 4)
    BY <2>2, <2>3
  <2>5. lastSave # "none"
    BY <2>4, BoundAssumption DEF Row, Upto, Erased, Header
  <2>6. lastSave # "begun"
    BY <1>1 DEF Phases
  <2>7. lastSave \notin {"ok", "nok"}
    <3> SUFFICES ASSUME lastSave \in {"ok", "nok"} PROVE FALSE
      OBVIOUS
    <3>1. flash = Written(saving, Len(Image(saving)))
      BY DEF Row
    <3>2. Typed(saving) /\ ValidCount(Len(saving.chans))
      BY DEF Typing
    <3>3. /\ Len(saving.chans) \in Nat /\ Len(saving.chans) > 0
          /\ Len(Image(saving)) \in Nat /\ Len(Image(saving)) >= 7
      BY <3>2, ImageSize, Zenon
    <3>4. Len(Image(saving)) >= 4
      BY <3>3
    <3>5. Base(flash, Settings) = Fresh(Len(saving.chans))
      BY <2>4, <3>1, <3>2, <3>3, <3>4, LoadHeader
    <3>6. Len(Base(flash, Settings)) = Len(saving.chans)
      BY <3>3, <3>5, FreshTyped
    <3> QED
      BY <2>2, <3>3, <3>6
  <2> QED
    BY <2>5, <2>6, <2>7 DEF Typing
<1>10. Phases'
  BY <1>1, <1>5, <1>8, <1>9 DEF Phases
<1> QED
  BY <1>6, <1>7, <1>10

LEMMA DownInv == Inv /\ (Reset \/ PowerLoss) => Inv'
<1> SUFFICES ASSUME Inv, Reset \/ PowerLoss PROVE Inv'
  OBVIOUS
<1> USE DEF Inv
<1>1. /\ UNCHANGED <<flash, cmds, saving>> /\ Down
      /\ ssid' = "" /\ pass' = "" /\ chans' = <<>> /\ spc' = "off" /\ w' = 0 /\ ret' = 0
      /\ lastSave' = IF spc = "save" THEN "cut" ELSE lastSave
  BY DEF Reset, PowerLoss, Down
<1>2. <<>> \in Seq(Channels)
  OBVIOUS
<1>3. Typed(Settings')
  BY <1>1, <1>2 DEF Typed, Settings, AllTexts
<1>4. Len(Image(saving)) \in Nat
  BY ImageSize, Zenon DEF Typing
<1>5. Typing'
  <2>1. w' \in 0 .. Len(Image(saving')) /\ ret' \in {0, -1}
    <3>1. w' = 0 /\ ret' = 0 /\ saving' = saving
      BY <1>1
    <3>2. w' \in 0 .. Len(Image(saving))
      BY <1>4, <3>1
    <3> QED
      BY <3>1, <3>2
  <2>2. lastSave' \in {"none", "begun", "ok", "nok", "cut"}
    BY <1>1 DEF Typing
  <2> QED
    BY <1>1, <1>3, <2>1, <2>2 DEF Typing
<1>6. Phases'
  BY <1>1 DEF Phases, Typing
<1>7. Row'
  BY <1>1 DEF Row, Phases, Typing
<1> QED
  BY <1>5, <1>6, <1>7

LEMMA ChangeInv == Inv /\ ChangeRequest => Inv'
<1> SUFFICES ASSUME Inv, ChangeRequest PROVE Inv'
  OBVIOUS
<1> USE DEF Inv
<1>1. /\ spc = "run" /\ cmds' \in 0..MaxCmds
      /\ UNCHANGED <<flash, spc, w, ret, saving, lastSave>>
  <2>1. Request /\ UNCHANGED <<flash, spc, w, ret, saving, lastSave>>
    BY DEF ChangeRequest, SetSSID, SetPass, SetCount, SetLink, SetPort, history
  <2> QED
    BY <2>1, BoundAssumption DEF Request, Typing
<1>2. /\ ssid \in AllTexts /\ pass \in AllTexts /\ chans \in Seq(Channels)
      /\ ValidCount(Len(chans))
  BY <1>1 DEF Typing, Typed, Settings, Phases
<1>3. Texts \subseteq AllTexts /\ Ports \subseteq Int /\ Counts \subseteq Int
  <2>1. Texts \subseteq AllTexts
    BY InputAssumption, Zenon
  <2>2. Ports \subseteq Nat /\ Counts \subseteq Int
    BY InputAssumption, Zenon
  <2> QED
    BY <2>1, <2>2
<1>4. /\ ssid' \in AllTexts /\ pass' \in AllTexts /\ chans' \in Seq(Channels)
      /\ ValidCount(Len(chans'))
  <2>1. ASSUME NEW x \in Texts, SetSSID(x) \/ SetPass(x) PROVE <1>4!:
    <3>1. Decode(x) \in AllTexts
      BY <1>3, DecodeTyped
    <3> QED
      BY <1>2, <2>1, <3>1 DEF SetSSID, SetPass
  <2>2. ASSUME NEW count \in Counts, SetCount(count) PROVE <1>4!:
    <3>1. CASE ValidCount(count)
      <4>1. count \in Nat
        BY <1>3, <3>1 DEF ValidCount
      <4> QED
        BY <1>2, <2>2, <3>1, <4>1, FreshTyped DEF SetCount
    <3>2. CASE ~ValidCount(count)
      BY <1>2, <2>2, <3>2 DEF SetCount
    <3> QED
      BY <3>1, <3>2
  <2>3. ASSUME NEW id \in Ids, NEW host \in Texts, NEW path \in Texts,
               SetLink(id, host, path)
        PROVE <1>4!:
    <3>1. Decode(host) \in AllTexts /\ Decode(path) \in AllTexts
      BY <1>3, DecodeTyped
    <3>2. \A i \in 1 .. Len(chans) : chans[i] \in Channels
      BY <1>2
    <3>3. chans' \in Seq(Channels) /\ Len(chans') = Len(chans)
      <4>1. CASE ~(id <= Len(chans))
        BY <1>2, <2>3, <4>1 DEF SetLink
      <4>2. CASE id <= Len(chans)
        <5>1. id \in 1 .. Len(chans)
          BY <1>2, <4>2 DEF Ids
        <5> DEFINE c == [chans[id] EXCEPT !.host = Decode(host), !.path = Decode(path)]
        <5>2. c \in Channels
          BY <3>1, <3>2, <5>1 DEF Channels
        <5>3. chans' = [chans EXCEPT ![id] = c]
          BY <1>2, <2>3, <4>2, <5>1 DEF SetLink
        <5> HIDE DEF c
        <5> QED
          BY <1>2, <5>1, <5>2, <5>3
      <4> QED
        BY <4>1, <4>2
    <3> QED
      BY <1>2, <2>3, <3>3 DEF SetLink
  <2>4. ASSUME NEW id \in Ids, NEW port \in Ports, SetPort(id, port) PROVE <1>4!:
    <3>1. \A i \in 1 .. Len(chans) : chans[i] \in Channels
      BY <1>2
    <3>2. chans' \in Seq(Channels) /\ Len(chans') = Len(chans)
      <4>1. CASE ~(id <= Len(chans))
        BY <1>2, <2>4, <4>1 DEF SetPort
      <4>2. CASE id <= Len(chans)
        <5>1. id \in 1 .. Len(chans)
          BY <1>2, <4>2 DEF Ids
        <5> DEFINE c == [chans[id] EXCEPT !.port = port]
        <5>2. c \in Channels
          BY <1>3, <3>1, <5>1 DEF Channels
        <5>3. chans' = [chans EXCEPT ![id] = c]
          BY <1>2, <2>4, <4>2, <5>1 DEF SetPort
        <5> HIDE DEF c
        <5> QED
          BY <1>2, <5>1, <5>2, <5>3
      <4> QED
        BY <4>1, <4>2
    <3> QED
      BY <1>2, <2>4, <3>2 DEF SetPort
  <2> QED
    BY <2>1, <2>2, <2>3, <2>4 DEF ChangeRequest
<1>5. Typing'
  BY <1>1, <1>4 DEF Typing, Typed, Settings
<1>6. Phases'
  BY <1>1, <1>4 DEF Phases
<1>7. Row'
  BY <1>1 DEF Row
<1> QED
  BY <1>5, <1>6, <1>7

LEMMA SaveInv == Inv /\ Save => Inv'
<1> SUFFICES ASSUME Inv, Save PROVE Inv'
  OBVIOUS
<1> USE DEF Inv
<1>1. /\ spc = "run" /\ spc' = "save" /\ w' = 0 /\ ret' = 0
      /\ ssid' = ssid /\ pass' = pass /\ chans' = chans
      /\ flash' = [p \in 1..Capacity |-> Erased]
      /\ saving' = Settings /\ lastSave' = "begun"
  BY DEF Save, Request, ram
<1>2. cmds' \in 0..MaxCmds
  BY BoundAssumption DEF Save, Request, Typing
<1>3. Settings' = Settings
  BY <1>1 DEF Settings
<1>4. /\ Typed(Settings) /\ ValidCount(Len(chans)) /\ Settings.chans = chans
      /\ ValidCount(Len(Settings.chans))
  BY <1>1 DEF Typing, Phases, Settings
<1>5. Len(Image(Settings)) \in Nat
  BY <1>4, ImageSize, Zenon
<1>6. Typing'
  <2>1. Erased \in Records
    BY DEF Records
  <2>2. flash' \in [1..Capacity -> Records]
    BY <1>1, <2>1
  <2>3. w' \in 0 .. Len(Image(Settings))
    BY <1>1, <1>5
  <2>4. w' \in 0 .. Len(Image(saving')) /\ ret' \in {0, -1}
    BY <1>1, <2>3
  <2> QED
    BY <1>1, <1>2, <1>3, <1>4, <2>2, <2>4 DEF Typing
<1>7. Phases'
  BY <1>1, <1>3, <1>4 DEF Phases
<1>8. [p \in 1..Capacity |-> Erased] = Written(Settings, 0)
  BY BoundAssumption DEF Written
<1>9. Row'
  BY <1>1, <1>8 DEF Row
<1> QED
  BY <1>6, <1>7, <1>9

LEMMA WriteRecordInv == Inv /\ WriteRecord => Inv'
<1> SUFFICES ASSUME Inv, WriteRecord PROVE Inv'
  OBVIOUS
<1> USE DEF Inv
<1>1. /\ spc = "save" /\ w' = w + 1 /\ w < Len(Image(Settings))
      /\ UNCHANGED <<ssid, pass, chans, spc, cmds, saving, lastSave>>
      /\ w' <= Capacity => /\ flash' = [flash EXCEPT ![w'] = Image(Settings)[w']]
                           /\ ret' = ret
      /\ ~(w' <= Capacity) => ret' = -1 /\ flash' = flash
  BY DEF WriteRecord, ram, history
<1>2. Settings' = Settings /\ Settings = saving /\ lastSave = "begun"
  BY <1>1 DEF Settings, Phases
<1>3. flash = Written(saving, w)
  BY <1>2 DEF Row
<1>4. Typed(saving) /\ ValidCount(Len(saving.chans)) /\ w \in 0 .. Len(Image(saving))
  BY DEF Typing
<1>5. Len(Image(saving)) \in Nat
  BY <1>4, ImageSize, Zenon
<1>6. w \in Nat /\ w' \in 0 .. Len(Image(saving))
  BY <1>1, <1>2, <1>4, <1>5
<1>7. flash' = Written(saving, w + 1)
  BY <1>1, <1>2, <1>3, <1>6, WrittenNext
<1>8. flash' \in [1..Capacity -> Records]
  BY <1>1, <1>4, <1>6, <1>7, WrittenTyped
<1>9. Typing'
  <2>1. ret' \in {0, -1}
    BY <1>1 DEF Typing
  <2> QED
    BY <1>1, <1>2, <1>6, <1>8, <2>1 DEF Typing
<1>10. Phases'
  BY <1>1, <1>2 DEF Phases
<1>11. Row'
  BY <1>1, <1>2, <1>7 DEF Row
<1> QED
  BY <1>9, <1>10, <1>11

LEMMA SaveDoneInv == Inv /\ SaveDone => Inv'
<1> SUFFICES ASSUME Inv, SaveDone PROVE Inv'
  OBVIOUS
<1> USE DEF Inv
<1> DEFINE loaded == Load(flash, Settings)
<1>1. /\ spc = "save" /\ spc' = "run" /\ w = Len(Image(Settings)) /\ w' = 0 /\ ret' = 0
      /\ UNCHANGED <<flash, cmds, saving>>
      /\ \/ Become(loaded) /\ lastSave' = IF loaded.ok THEN "ok" ELSE "nok"
         \/ UNCHANGED ram /\ lastSave' = "nok"
  BY DEF SaveDone
<1>2. Settings = saving /\ lastSave = "begun"
  BY <1>1 DEF Phases
<1>3. Typed(saving) /\ ValidCount(Len(saving.chans)) /\ Settings.chans = chans
  BY DEF Typing, Settings
<1>4. /\ Len(Image(saving)) \in Nat /\ Len(Image(saving)) >= 7
      /\ Len(saving.chans) \in Nat
  BY <1>3, ImageSize, Zenon
<1>5. flash = Written(saving, Len(Image(saving)))
  BY <1>1, <1>2 DEF Row
<1>6. Typed(loaded) /\ ValidCount(Len(loaded.chans))
  <2>1. /\ Typed(loaded) /\ Len(loaded.chans) = Len(Base(flash, Settings))
        /\ Base(flash, Settings) = Settings.chans \/ ValidCount(Len(Base(flash, Settings)))
    BY LoadTyped DEF Typing
  <2> QED
    BY <1>2, <1>3, <2>1
<1>7. ASSUME loaded.ok PROVE Upto(flash, 3 * Len(saving.chans) + 4)
  <2>1. Upto(flash, 3 * Len(Base(flash, Settings)) + 4)
    BY <1>7, LoadParts
  <2>2. Base(flash, Settings) = saving.chans
        \/ Base(flash, Settings) = Fresh(Len(saving.chans))
    <3>1. CASE ~(Upto(flash, 4) /\ ValidCount(NumberAt(flash, 4)))
      BY <1>2, <3>1 DEF Base
    <3>2. CASE Upto(flash, 4)
      <4>1. Len(Image(saving)) >= 4
        BY <1>4
      <4> QED
        BY <1>3, <1>4, <1>5, <3>2, <4>1, LoadHeader
    <3> QED
      BY <3>1, <3>2
  <2>3. Len(Base(flash, Settings)) = Len(saving.chans)
    BY <1>4, <2>2, FreshTyped
  <2> QED
    BY <2>1, <2>3
<1> HIDE DEF loaded
<1>8. Typed(Settings') /\ ValidCount(Len(chans'))
  <2>1. CASE Become(loaded)
    <3>1. ssid' = loaded.ssid /\ pass' = loaded.pass /\ chans' = loaded.chans
      BY <2>1 DEF Become
    <3> QED
      BY <1>6, <3>1 DEF Settings, Typed
  <2>2. CASE UNCHANGED ram
    <3>1. ssid' = ssid /\ pass' = pass /\ chans' = chans
      BY <2>2 DEF ram
    <3>2. Settings' = Settings
      BY <3>1 DEF Settings
    <3> QED
      BY <1>2, <1>3, <3>1, <3>2
  <2> QED
    BY <1>1, <2>1, <2>2
<1>9. lastSave' \in {"ok", "nok"} /\ (lastSave' = "ok" => loaded.ok)
  BY <1>1
<1>10. Typing'
  <2>1. w' \in 0 .. Len(Image(saving))
    BY <1>1, <1>4
  <2> QED
    BY <1>1, <1>8, <1>9, <2>1 DEF Typing
<1>11. Phases'
  BY <1>1, <1>8, <1>9 DEF Phases
<1>12. Row'
  BY <1>1, <1>5, <1>7, <1>9 DEF Row
<1> QED
  BY <1>10, <1>11, <1>12

LEMMA InvKept == Inv /\ [Next]_vars => Inv'
<1> SUFFICES ASSUME Inv, [Next]_vars PROVE Inv'
  OBVIOUS
<1>1. ASSUME UNCHANGED vars PROVE Inv'
  BY <1>1 DEF vars, ram, history, Inv, Typing, Phases, Row, Settings
<1> QED
  BY <1>1, BootInv, DownInv, ChangeInv, SaveInv, WriteRecordInv, SaveDoneInv DEF Next

LEMMA InvAlways == Spec => []Inv
  BY InitInv, InvKept, PTL DEF Spec
-----------------------------------------------------------------------------
(* Whatever the flash holds, and however requests, saves and power losses  *)
(* follow each other, memory and flash hold values of their types, at most *)
(* MAX_STREAM_COUNT channels among them (Settings, TypeOK).                *)
THEOREM SettingsTypeCorrect == Spec => []TypeOK
<1>1. Inv => TypeOK
  <2> SUFFICES ASSUME Inv PROVE TypeOK
    OBVIOUS
  <2>1. ASSUME NEW s, Typed(s), s.chans = <<>> \/ ValidCount(Len(s.chans))
        PROVE  IsSettings(s)
    <3>1. s.chans \in Seq(Channels)
      BY <2>1 DEF Typed
    <3>2. Len(s.chans) <= MaxCount
      BY <2>1 DEF ValidCount, MaxCount
    <3>3. \A i \in 1 .. Len(s.chans) : s.chans[i] \in Channels
      BY <3>1
    <3> QED
      BY <2>1, <3>2, <3>3 DEF IsSettings, Typed, Channels
  <2>2. Typed(Settings) /\ Typed(saving) /\ ValidCount(Len(saving.chans))
    BY DEF Inv, Typing
  <2>3. Settings.chans = chans /\ (chans = <<>> \/ ValidCount(Len(chans)))
    BY DEF Inv, Typing, Phases, Settings
  <2>4. IsSettings(Settings) /\ IsSettings(saving)
    BY <2>1, <2>2, <2>3
  <2>5. w \in 0 .. 4 + 3 * MaxCount
    <3>1. Len(Image(saving)) = 4 + 3 * Len(saving.chans) /\ Len(saving.chans) \in Nat
      BY <2>2, ImageSize, Zenon
    <3>2. Len(saving.chans) <= MaxCount /\ w \in 0 .. Len(Image(saving))
      BY <2>2 DEF ValidCount, Inv, Typing
    <3> QED
      BY <3>1, <3>2 DEF MaxCount
  <2>6. DOMAIN flash = 1..Capacity /\ \A p \in 1..Capacity : flash[p] \in Records
    BY DEF Inv, Typing
  <2> QED
    BY <2>4, <2>5, <2>6, RecordKinds DEF TypeOK, Inv, Typing
<1> QED
  BY <1>1, InvAlways, PTL

(* No sequence of requests makes the radio start without a channel: only a *)
(* save that was cut off can (flash.c, lines 148-155; CrashNeedsCut).      *)
THEOREM NoCrashWithoutCut == Spec => []CrashNeedsCut
<1>1. Inv => CrashNeedsCut
  BY DEF Inv, Phases, CrashNeedsCut
<1> QED
  BY <1>1, InvAlways, PTL

\* A load of settings written to the end, if it can be read to the end.
LEMMA FullFound ==
  ASSUME NEW s, Typed(s), ValidCount(Len(s.chans)), NEW t,
         Upto(Written(s, Len(Image(s))), 3 * Len(s.chans) + 4)
  PROVE  LET loaded == Load(Written(s, Len(Image(s))), t)
         IN  /\ loaded.ok /\ loaded.ssid = Decoded(s).ssid
             /\ loaded.pass = Decoded(s).pass /\ loaded.chans = Decoded(s).chans
<1> DEFINE v == Len(Image(s))
<1>1. /\ Len(s.chans) \in Nat /\ v = 4 + 3 * Len(s.chans) /\ v \in Nat /\ v >= 7
  BY ImageSize, Zenon
<1> HIDE DEF v
<1>2. v \in Nat /\ v >= 4
  BY <1>1
<1>3. Load(Written(s, v), t) = Found(s, v)
  BY <1>2, LoadWhole DEF v
<1>4. \A i \in 1 .. Len(s.chans) : 3 * i + 4 <= v
  BY <1>1
<1>5. Found(s, v).chans = Decoded(s).chans
  BY <1>4 DEF Found, Decoded
<1> QED
  BY <1>3, <1>5 DEF Found, Decoded, v

LEMMA KeptIsLoaded == Inv => SavedIsLoaded
<1> SUFFICES ASSUME Inv, lastSave = "ok" PROVE AtBoot = Decoded(saving)
  BY DEF SavedIsLoaded
<1>1. /\ Typed(saving) /\ ValidCount(Len(saving.chans))
      /\ flash = Written(saving, Len(Image(saving)))
      /\ Upto(flash, 3 * Len(saving.chans) + 4)
  BY DEF Inv, Typing, Row
<1> DEFINE loaded == Load(flash, NoSettings)
<1>2. /\ loaded.ok /\ loaded.ssid = Decoded(saving).ssid
      /\ loaded.pass = Decoded(saving).pass /\ loaded.chans = Decoded(saving).chans
  BY <1>1, FullFound
<1> HIDE DEF loaded
<1>3. AtBoot = [ssid |-> loaded.ssid, pass |-> loaded.pass, chans |-> loaded.chans]
  BY <1>2 DEF AtBoot, loaded
<1> QED
  BY <1>2, <1>3 DEF Decoded

(* What was saved with the answer OK is what every later start loads, read *)
(* as text once more (flash.c, lines 44-182; SavedIsLoaded).               *)
THEOREM SavedIsKept == Spec => []SavedIsLoaded
  BY KeptIsLoaded, InvAlways, PTL

LEMMA NoMixture == Inv => AllOrNothing
<1> SUFFICES ASSUME Inv, lastSave \in {"begun", "nok", "cut"},
                    AtBoot # Defaults, AtBoot.chans # <<>>
    PROVE /\ Len(AtBoot.chans) = Len(saving.chans)
          /\ \E port \in {ErasedInt, saving.chans[Len(saving.chans)].port} :
               AtBoot = [Decoded(saving) EXCEPT !.chans[Len(saving.chans)].port = port]
  BY DEF AllOrNothing
<1> DEFINE loaded == Load(flash, NoSettings)
           n == Len(saving.chans)
<1>1. Typed(saving) /\ ValidCount(n) /\ flash \in [1..Capacity -> Records]
  BY DEF Inv, Typing
<1>2. n \in Nat /\ n > 0 /\ Len(Image(saving)) \in Nat
  BY <1>1, ImageSize, Zenon
<1>3. PICK v \in 0 .. Len(Image(saving)) : flash = Written(saving, v)
  <2>1. Len(Image(saving)) \in 0 .. Len(Image(saving))
    BY <1>2
  <2> QED
    BY <2>1 DEF Inv, Typing, Row
<1>4. v \in Nat
  BY <1>2
<1>5. /\ loaded.ok
      /\ AtBoot = [ssid |-> loaded.ssid, pass |-> loaded.pass, chans |-> loaded.chans]
  BY DEF AtBoot
<1>6. /\ Len(loaded.chans) = Len(Base(flash, NoSettings)) /\ loaded.chans \in Seq(Channels)
      /\ Upto(flash, 3 * Len(Base(flash, NoSettings)) + 4)
      /\ Base(flash, NoSettings) \in Seq(Channels)
  <2>1. Typed(NoSettings)
    BY DEF Typed, NoSettings, AllTexts
  <2>2. /\ Typed(loaded) /\ Len(loaded.chans) = Len(Base(flash, NoSettings))
        /\ Base(flash, NoSettings) \in Seq(Channels)
    BY <1>1, <2>1, LoadTyped
  <2>3. Upto(flash, 3 * Len(Base(flash, NoSettings)) + 4)
    BY <1>5, LoadParts
  <2> QED
    BY <2>2, <2>3 DEF Typed
<1>7. v >= 4
  <2> SUFFICES ASSUME v < 4 PROVE FALSE
    BY <1>4
  <2>1. Base(flash, NoSettings) = <<>>
    <3>1. Base(Written(saving, v), NoSettings) = NoSettings.chans
      BY <1>1, <1>4, LoadHeader
    <3> QED
      BY <1>3, <3>1 DEF NoSettings
  <2>2. loaded.chans = <<>>
    BY <1>6, <2>1
  <2> QED
    BY <1>5, <2>2
<1>8. Upto(flash, 4)
  BY <1>6 DEF Upto
<1>9. Base(flash, NoSettings) = Fresh(n) /\ Len(Fresh(n)) = n
  BY <1>1, <1>2, <1>3, <1>4, <1>7, <1>8, LoadHeader, FreshTyped
<1>10. v >= 3 * n + 3 /\ loaded = Found(saving, v)
  BY <1>1, <1>3, <1>4, <1>6, <1>7, <1>9, LoadWhole
<1> DEFINE port == IF 3 * n + 4 <= v THEN saving.chans[n].port ELSE ErasedInt
           last == [Decoded(saving) EXCEPT !.chans[n].port = port]
<1>11. Found(saving, v).chans = last.chans
  <2>1. \A i \in 1..n : i # n => 3 * i + 4 <= v
    BY <1>2, <1>4, <1>10
  <2>2. last.chans = [Decoded(saving).chans EXCEPT ![n].port = port]
    BY DEF Decoded
  <2>3. \A i \in 1..n : Found(saving, v).chans[i] = last.chans[i]
    BY <1>2, <2>1, <2>2 DEF Found, Decoded
  <2>4. /\ DOMAIN last.chans = 1..n /\ DOMAIN Found(saving, v).chans = 1..n
        /\ last.chans = [i \in 1..n |-> last.chans[i]]
        /\ Found(saving, v).chans = [i \in 1..n |-> Found(saving, v).chans[i]]
    BY <2>2 DEF Found, Decoded
  <2> QED
    BY <2>3, <2>4, Zenon
<1>12. AtBoot = last
  <2>1. /\ loaded.ssid = Decode(saving.ssid) /\ loaded.pass = Decode(saving.pass)
        /\ loaded.chans = last.chans
    BY <1>10, <1>11 DEF Found
  <2>2. last = [ssid |-> Decode(saving.ssid), pass |-> Decode(saving.pass),
                chans |-> last.chans]
    <3> DEFINE row == [i \in 1..n |-> [host |-> Decode(saving.chans[i].host),
                                      path |-> Decode(saving.chans[i].path),
                                      port |-> saving.chans[i].port]]
               newRow == [row EXCEPT ![n].port = port]
    <3>1. Decoded(saving) = [ssid |-> Decode(saving.ssid), pass |-> Decode(saving.pass),
                             chans |-> row]
      BY DEF Decoded
    <3>2. last = [Decoded(saving) EXCEPT !.chans = [Decoded(saving).chans EXCEPT ![n].port = port]]
      OBVIOUS
    <3>3. last = [Decoded(saving) EXCEPT !.chans = newRow]
      BY <3>1, <3>2
    <3> HIDE DEF row, newRow, last
    <3> QED
      BY <3>1, <3>3
  <2> HIDE DEF loaded, last
  <2> QED
    BY <1>5, <2>1, <2>2
<1>13. Len(AtBoot.chans) = n
  BY <1>5, <1>6, <1>9
<1> QED
  BY <1>12, <1>13

(* A save that fails or is cut off anywhere never leaves a mixture of two  *)
(* settings for the next start (flash.c, lines 44-182; AllOrNothing).      *)
THEOREM SaveIsWhole == Spec => []AllOrNothing
  BY NoMixture, InvAlways, PTL

(* What the settings page shows after a save with the answer OK is what    *)
(* the next start loads (flash.c, line 108; ShownIsStored).                *)
THEOREM ShownIsKept == Spec => ShownIsStored
<1>1. Inv /\ [Next]_vars => [spc = "save" /\ lastSave' = "ok" => Settings' = AtBoot']_vars
  <2> SUFFICES ASSUME Inv, Next, spc = "save", lastSave' = "ok"
               PROVE  Settings' = AtBoot'
    BY DEF vars, ram, history
  <2>1. SaveDone
    <3>1. lastSave = "begun"
      BY DEF Inv, Phases
    <3> QED
      BY <3>1 DEF Next, Boot, Reset, PowerLoss, ChangeRequest, SetSSID, SetPass, SetCount,
                  SetLink, SetPort, Save, Request, WriteRecord, history
  <2> DEFINE loaded == Load(flash, Settings)
  <2>2. flash' = flash /\ saving' = saving /\ Become(loaded)
    BY <2>1 DEF SaveDone
  <2>3. Inv'
    BY <2>1, SaveDoneInv
  <2>4. /\ Typed(saving) /\ ValidCount(Len(saving.chans))
        /\ flash = Written(saving, Len(Image(saving)))
        /\ Upto(flash, 3 * Len(saving.chans) + 4)
    BY <2>2, <2>3 DEF Inv, Typing, Row
  <2>5. loaded.ssid = Decoded(saving).ssid /\ loaded.pass = Decoded(saving).pass
        /\ loaded.chans = Decoded(saving).chans
    BY <2>4, FullFound
  <2> HIDE DEF loaded
  <2>6. Settings' = Decoded(saving)
    BY <2>2, <2>5 DEF Settings, Become, Decoded
  <2>7. (Inv => SavedIsLoaded)'
    BY KeptIsLoaded, PTL
  <2>8. AtBoot' = Decoded(saving)
    BY <2>2, <2>3, <2>7 DEF SavedIsLoaded
  <2> QED
    BY <2>6, <2>8
<1> QED
  BY <1>1, InvAlways, PTL DEF Spec, ShownIsStored
-----------------------------------------------------------------------------
\* The flash makes a radio that is switched on now start without a channel.
NoChannel == AtBoot.chans = <<>>

\* What a start without a channel needs of the flash, from whatever settings.
LEMMA NoChannelFound ==
  ASSUME NEW t, t.chans = <<>>
  PROVE  NoChannel <=> LET loaded == Load(flash, t)
                       IN  loaded.ok /\ loaded.chans = <<>>
<1> DEFINE loaded == Load(flash, t)
           first == Load(flash, NoSettings)
<1>1. NoSettings.chans = <<>>
  BY DEF NoSettings
<1>2. Base(flash, t) = Base(flash, NoSettings)
  BY <1>1 DEF Base
<1>3. /\ loaded.ok = first.ok
      /\ loaded.chans = [i \in 1 .. Len(Base(flash, t)) |-> ChanAt(flash, t, i)]
      /\ first.chans = [i \in 1 .. Len(Base(flash, t)) |-> ChanAt(flash, NoSettings, i)]
  BY <1>2, LoadParts
<1>4. loaded.chans = first.chans
  BY <1>2, <1>3 DEF ChanAt
<1>5. AtBoot = IF first.ok
                 THEN [ssid |-> first.ssid, pass |-> first.pass, chans |-> first.chans]
                 ELSE Defaults
  BY DEF AtBoot
<1> HIDE DEF loaded, first
<1>6. Defaults.chans # <<>>
  BY DEF Defaults
<1>7. NoChannel <=> first.ok /\ first.chans = <<>>
  BY <1>5, <1>6 DEF NoChannel
<1>8. first.ok \in BOOLEAN /\ loaded.ok \in BOOLEAN
  BY LoadParts DEF first, loaded, Upto
<1>9. NoChannel <=> loaded.ok /\ loaded.chans = <<>>
  BY <1>3, <1>4, <1>7, <1>8
<1> QED
  BY <1>9 DEF loaded

(* The flash is left without a channel at exactly one place of a save:     *)
(* after the password is written and before the number of channels is, if  *)
(* the loader can read the name and the password of the network at all     *)
(* (flash.c, lines 70-81; what is read back of it, lines 145-153).         *)
THEOREM CrashWindow ==
  Spec => [](NoChannel <=> /\ flash = Written(saving, 3)
                           /\ saving.ssid # "long" /\ saving.pass # "long")
<1> SUFFICES ASSUME Inv
             PROVE  NoChannel <=> /\ flash = Written(saving, 3)
                                  /\ saving.ssid # "long" /\ saving.pass # "long"
  BY InvAlways, PTL
<1> DEFINE n == Len(saving.chans)
<1>1. Typed(saving) /\ ValidCount(n) /\ n \in Nat /\ n > 0 /\ Len(Image(saving)) \in Nat
  BY ImageSize, Zenon DEF Inv, Typing
<1>2. PICK v \in 0 .. Len(Image(saving)) : flash = Written(saving, v)
  <2>1. Len(Image(saving)) \in 0 .. Len(Image(saving)) /\ 0 \in 0 .. Len(Image(saving))
    BY <1>1
  <2>2. [p \in 1..Capacity |-> Erased] = Written(saving, 0)
    BY BoundAssumption DEF Written
  <2> QED
    BY <2>1, <2>2 DEF Inv, Typing, Row
<1>3. v \in Nat
  BY <1>1
<1>4. /\ Image(saving)[1] = Header
      /\ Image(saving)[2] = Text(saving.ssid) /\ Image(saving)[3] = Text(saving.pass)
  BY <1>1, ImageRecords, Zenon DEF Typed
<1>5. \A k \in Nat : \A p \in 1..4 :
        Written(saving, k)[p] = IF p <= k THEN Image(saving)[p] ELSE Erased
  BY BoundAssumption DEF Written
<1>6. NoChannel <=> /\ Upto(flash, 3 * Len(Base(flash, NoSettings)) + 4)
                    /\ Len(Base(flash, NoSettings)) = 0
  <2> DEFINE base == Base(flash, NoSettings)
             chan == [i \in 1 .. Len(base) |-> ChanAt(flash, NoSettings, i)]
  <2>1. base \in Seq(Channels)
    <3>1. Typed(NoSettings)
      BY DEF Typed, NoSettings, AllTexts
    <3> QED
      BY <3>1, LoadTyped DEF Inv, Typing
  <2>2. NoChannel <=> Upto(flash, 3 * Len(base) + 4) /\ chan = <<>>
    <3>1. NoSettings.chans = <<>>
      BY DEF NoSettings
    <3> QED
      BY <3>1, LoadParts, NoChannelFound
  <2>3. Len(base) \in Nat
    BY <2>1
  <2> HIDE DEF base
  <2>4. chan = <<>> <=> Len(base) = 0
    BY <2>3
  <2> QED
    BY <2>2, <2>4 DEF base
<1>7. ASSUME NoChannel PROVE v = 3 /\ saving.ssid # "long" /\ saving.pass # "long"
  <2>1. Len(Base(flash, NoSettings)) = 0 /\ Upto(flash, 4)
    BY <1>6, <1>7
  <2>2. CanRead(flash, 2) /\ CanRead(flash, 3)
    BY <2>1 DEF Upto
  <2>3. /\ flash[2].kind = "text" /\ flash[2].text # "long"
        /\ flash[3].kind = "text" /\ flash[3].text # "long"
    BY <2>2 DEF CanRead, IsText
  <2>4. v >= 3
    <3> SUFFICES ASSUME v < 3 PROVE FALSE
      BY <1>3
    <3>1. flash[3] = Erased
      BY <1>2, <1>3, <1>5
    <3> QED
      BY <2>3, <3>1 DEF Erased
  <2>5. ~(v >= 4)
    <3> SUFFICES ASSUME v >= 4 PROVE FALSE
      OBVIOUS
    <3>1. Base(flash, NoSettings) = Fresh(n)
      BY <1>1, <1>2, <1>3, <2>1, LoadHeader
    <3>2. Len(Fresh(n)) = n
      BY <1>1, FreshTyped
    <3> HIDE DEF n
    <3> QED
      BY <1>1, <2>1, <3>1, <3>2
  <2>6. flash[2] = Text(saving.ssid) /\ flash[3] = Text(saving.pass)
    BY <1>2, <1>3, <1>4, <1>5, <2>4
  <2> QED
    BY <1>3, <2>3, <2>4, <2>5, <2>6 DEF Text
<1>8. ASSUME flash = Written(saving, 3), saving.ssid # "long", saving.pass # "long"
      PROVE  NoChannel
  <2>1. /\ flash[1] = Header /\ flash[2] = Text(saving.ssid)
        /\ flash[3] = Text(saving.pass) /\ flash[4] = Erased
    BY <1>4, <1>5, <1>8
  <2>2. CanRead(flash, 2) /\ CanRead(flash, 3) /\ CanRead(flash, 4)
    BY <1>8, <2>1, BoundAssumption DEF CanRead, IsText, Text
  <2>3. Upto(flash, 4)
    <3>1. 2..4 = {2, 3, 4}
      OBVIOUS
    <3> QED
      BY <2>1, <2>2, <3>1 DEF Upto
  <2>4. NumberAt(flash, 4) = ErasedInt
    BY <2>1 DEF NumberAt, Erased
  <2>5. Base(flash, NoSettings) = <<>>
    BY <2>4 DEF Base, ValidCount, ErasedInt, NoSettings
  <2> QED
    BY <1>6, <2>3, <2>5
<1> QED
  BY <1>2, <1>7, <1>8

\* The radio can do nothing but start and crash.
Trapped == NoChannel /\ chans = <<>> /\ spc \in {"off", "crash"}

(* AlwaysStarts cannot be saved by switching off and on: a radio that came *)
(* up without a channel once never runs again, whatever the constants are, *)
(* since neither the start nor the reset writes to the flash (user_main.c, *)
(* lines 259-275).                                                         *)
THEOREM CrashIsForever == Spec => [](spc = "crash" => [](spc # "run"))
<1>1. ASSUME spc = "off", chans = <<>>, Boot
      PROVE  NoChannel <=> chans' = <<>>
  <2> DEFINE loaded == Load(flash, Settings)
  <2>1. Settings.chans = <<>>
    BY <1>1 DEF Settings
  <2>2. NoChannel <=> loaded.ok /\ loaded.chans = <<>>
    BY <2>1, NoChannelFound
  <2>3. chans' = IF loaded.ok THEN loaded.chans ELSE Defaults.chans
    BY <1>1 DEF Boot, Become
  <2> HIDE DEF loaded
  <2>4. Defaults.chans # <<>>
    BY DEF Defaults
  <2> QED
    BY <2>2, <2>3, <2>4
<1>2. ASSUME flash' = flash PROVE NoChannel' <=> NoChannel
  BY <1>2 DEF NoChannel, AtBoot
<1>3. Inv /\ [Next]_vars /\ ~(spc = "crash") /\ (spc = "crash")' => Trapped'
  <2> SUFFICES ASSUME Inv, [Next]_vars, spc # "crash", spc' = "crash" PROVE Trapped'
    OBVIOUS
  <2>1. Boot
    BY DEF Next, vars, Reset, PowerLoss, Down, ChangeRequest, SetSSID, SetPass, SetCount,
                SetLink, SetPort, Save, Request, WriteRecord, SaveDone
  <2>2. spc = "off" /\ chans' = <<>> /\ flash' = flash
    BY <2>1 DEF Boot
  <2>3. chans = <<>>
    BY <2>2 DEF Inv, Phases
  <2> QED
    BY <1>1, <1>2, <2>1, <2>2, <2>3 DEF Trapped
<1>4. Trapped /\ [Next]_vars => Trapped'
  <2> SUFFICES ASSUME Trapped, [Next]_vars PROVE Trapped'
    OBVIOUS
  <2>1. CASE Boot
    <3>1. spc = "off" /\ flash' = flash
      BY <2>1 DEF Boot
    <3>2. chans' = <<>>
      BY <1>1, <2>1, <3>1 DEF Trapped
    <3>3. spc' = "crash"
      BY <2>1, <3>2 DEF Boot
    <3> QED
      BY <1>2, <3>1, <3>2, <3>3 DEF Trapped
  <2>2. CASE Reset
    BY <1>2, <2>2 DEF Reset, Down, Trapped
  <2>3. CASE UNCHANGED vars
    BY <1>2, <2>3 DEF vars, ram, Trapped
  <2> QED
    BY <2>1, <2>2, <2>3 DEF Trapped, Next, PowerLoss, ChangeRequest, SetSSID, SetPass,
       SetCount, SetLink, SetPort, Save, Request, WriteRecord, SaveDone
<1>5. Init => ~(spc = "crash")
  BY DEF Init
<1>6. Trapped => spc # "run"
  BY DEF Trapped
<1> QED
  BY <1>3, <1>4, <1>5, <1>6, InvAlways, PTL DEF Spec
=============================================================================
