-------------------------- MODULE FrameStreamProofs --------------------------
(***************************************************************************)
(* Framing survives any chunking, for bytes and length fields of any size. *)
(* Recursive definitions are unfolded with the well-ordering of Nat: a     *)
(* closed form shows that the function exists, and a smallest index where  *)
(* it would differ from the closed form is absurd.                         *)
(***************************************************************************)
EXTENDS FrameStream, SequenceTheorems, NaturalsInduction, WellFoundedInduction, TLAPS

(***************************************************************************)
(* Numbers.                                                                *)
(***************************************************************************)
LEMMA Smallest ==
  ASSUME NEW S \in SUBSET Nat, S # {}
  PROVE  \E n \in S : \A m \in S : n <= m
<1>1. PICK n \in S : \A m \in S : <<m, n>> \notin OpToRel(<, Nat)
  BY NatLessThanWellFounded, WFMin
<1>2. \A m \in S : ~(m < n) BY <1>1 DEF OpToRel
<1> QED BY <1>2

LEMMA Division ==
  ASSUME NEW b \in Nat \ {0}, NEW x \in Nat
  PROVE  /\ x \div b \in Nat /\ x % b \in 0..(b - 1)
         /\ (x \div b) * b + (x % b) = x
  OBVIOUS

(* Shifting by one more byte is shifting twice. *)
LEMMA TwoDivisions ==
  ASSUME NEW b \in Nat \ {0}, NEW p \in Nat \ {0}, NEW x \in Nat
  PROVE  (x \div p) \div b = x \div (b * p)
  OBVIOUS

LEMMA SmallDivision ==
  ASSUME NEW p \in Nat \ {0}, NEW x \in Nat, x < p
  PROVE  x \div p = 0
  OBVIOUS

(***************************************************************************)
(* The codec.                                                              *)
(***************************************************************************)
(* The equation that defines ByteShift, up to k. *)
IsShift(g, k) ==
    g \in [0..k -> Nat \ {0}] /\ g[0] = 1 /\ \A i \in 1..k : g[i] = Base * g[i - 1]

LEMMA ShiftsExist == \A k \in Nat : \E g : IsShift(g, k)
<1> DEFINE bad == {k \in Nat : ~ \E g : IsShift(g, k)}
<1> SUFFICES ASSUME bad # {} PROVE FALSE OBVIOUS
<1>1. PICK k \in bad : \A m \in bad : k <= m BY Smallest
<1>2. CASE k = 0
  <2>1. IsShift([i \in 0..0 |-> 1], 0) BY DEF IsShift
  <2> QED BY <1>2, <2>1
<1>3. CASE k # 0
  <2>1. k - 1 \in Nat /\ k - 1 \notin bad BY <1>1, <1>3
  <2>2. PICK g : IsShift(g, k - 1) BY <2>1
  <2> DEFINE h == [i \in 0..k |-> IF i = k THEN Base * g[k - 1] ELSE g[i]]
  <2>3. g[k - 1] \in Nat \ {0} /\ Base * g[k - 1] \in Nat \ {0}
    BY <2>1, <2>2, FrameAssumption DEF IsShift
  <2>4. \A i \in 0..(k - 1) : g[i] \in Nat \ {0} BY <2>2 DEF IsShift
  <2>5. h \in [0..k -> Nat \ {0}] /\ h[0] = 1 BY <1>3, <2>1, <2>2, <2>3, <2>4 DEF IsShift
  <2>6. ASSUME NEW i \in 1..k PROVE h[i] = Base * h[i - 1]
    <3>1. CASE i = k BY <2>1, <3>1
    <3>2. CASE i # k
      <4>1. i \in 1..(k - 1) /\ i - 1 \in 0..k /\ i - 1 # k BY <2>1, <3>2
      <4> QED BY <2>2, <3>2, <4>1 DEF IsShift
    <3> QED BY <3>1, <3>2
  <2> QED BY <2>5, <2>6 DEF IsShift
<1> QED BY <1>2, <1>3

LEMMA ShiftFacts ==
  /\ \A k \in 0..HeaderLen : ByteShift[k] \in Nat \ {0}
  /\ ByteShift[0] = 1
  /\ \A k \in 1..HeaderLen : ByteShift[k] = Base * ByteShift[k - 1]
<1> DEFINE Is(f) == f = [k \in 0..HeaderLen |-> IF k = 0 THEN 1 ELSE Base * f[k - 1]]
<1>1. PICK g : IsShift(g, HeaderLen) BY ShiftsExist, FrameAssumption
<1>2. Is(g)
  <2>1. \A k \in 0..HeaderLen : g[k] = IF k = 0 THEN 1 ELSE Base * g[k - 1]
    BY <1>1, FrameAssumption DEF IsShift
  <2> QED BY <1>1, <2>1 DEF IsShift
<1>3. ByteShift = CHOOSE f : Is(f) BY DEF ByteShift
<1>4. Is(ByteShift) BY <1>2, <1>3
<1>5. /\ ByteShift[0] = 1
      /\ \A k \in 1..HeaderLen : ByteShift[k] = Base * ByteShift[k - 1]
  BY <1>4, FrameAssumption
<1> HIDE DEF Is
<1>6. \A k \in 0..HeaderLen : ByteShift[k] = g[k]
  <2> DEFINE bad == {k \in 0..HeaderLen : ByteShift[k] # g[k]}
  <2> SUFFICES ASSUME bad # {} PROVE FALSE OBVIOUS
  <2>1. PICK k \in bad : \A m \in bad : k <= m
    <3>1. bad \in SUBSET Nat BY FrameAssumption
    <3> QED BY <3>1, Smallest
  <2>2. k # 0 BY <1>1, <1>5, <2>1 DEF IsShift
  <2>3. k - 1 \in 0..HeaderLen /\ k - 1 \notin bad BY <2>1, <2>2, FrameAssumption
  <2>4. k \in 1..HeaderLen BY <2>1, <2>2, FrameAssumption
  <2> QED BY <1>1, <1>5, <2>1, <2>3, <2>4 DEF IsShift
<1> QED BY <1>1, <1>5, <1>6 DEF IsShift

(* The field holds HeaderLen bytes. *)
LEMMA PushBeType ==
  ASSUME NEW n \in Nat
  PROVE  PushBe(n) \in Seq(Bytes) /\ Len(PushBe(n)) = HeaderLen
<1>1. \A i \in 1..HeaderLen : (n \div ByteShift[HeaderLen - i]) % Base \in Bytes
  <2> SUFFICES ASSUME NEW i \in 1..HeaderLen
               PROVE  (n \div ByteShift[HeaderLen - i]) % Base \in Bytes
    OBVIOUS
  <2>1. HeaderLen - i \in 0..HeaderLen BY FrameAssumption
  <2>2. PICK p \in Nat \ {0} : p = ByteShift[HeaderLen - i] BY <2>1, ShiftFacts
  <2>3. n \div p \in Nat BY Division
  <2>4. (n \div p) % Base \in 0..(Base - 1) BY <2>3, Division, FrameAssumption
  <2> QED BY <2>2, <2>4 DEF Bytes
<1>2. PushBe(n) \in [1..HeaderLen -> Bytes] BY <1>1 DEF PushBe
<1> QED BY <1>2, FrameAssumption

(* What was encoded is what is read, for every length the field can carry. *)
LEMMA ReadWhatWasPushed ==
  ASSUME NEW n \in Nat, n <= LengthLimit,
         NEW buffer, \A i \in 1..HeaderLen : buffer[i] = PushBe(n)[i]
  PROVE  ReadBe(buffer) = n
<1> DEFINE Is(f) == f = [i \in 0..HeaderLen |-> IF i = 0 THEN 0 ELSE f[i - 1] * Base + buffer[i]]
           high == [i \in 0..HeaderLen |-> n \div ByteShift[HeaderLen - i]]
           value[i \in 0..HeaderLen] == IF i = 0 THEN 0 ELSE value[i - 1] * Base + buffer[i]
<1>1. \A i \in 0..HeaderLen : high[i] \in Nat
  <2> SUFFICES ASSUME NEW i \in 0..HeaderLen PROVE high[i] \in Nat OBVIOUS
  <2>1. HeaderLen - i \in 0..HeaderLen BY FrameAssumption
  <2>2. PICK p \in Nat \ {0} : p = ByteShift[HeaderLen - i] BY <2>1, ShiftFacts
  <2> QED BY <2>2, Division
<1>2. high[0] = 0
  <2>1. 0 \in 0..HeaderLen /\ HeaderLen - 0 = HeaderLen /\ HeaderLen \in 0..HeaderLen
    BY FrameAssumption
  <2>2. PICK p \in Nat \ {0} : p = ByteShift[HeaderLen] BY <2>1, ShiftFacts
  <2>3. n < p BY <2>2 DEF LengthLimit
  <2> QED BY <2>1, <2>2, <2>3, SmallDivision
<1>3. high[HeaderLen] = n
  <2>1. HeaderLen \in 0..HeaderLen /\ HeaderLen - HeaderLen = 0 BY FrameAssumption
  <2>2. n \div 1 = n OBVIOUS
  <2> QED BY <2>1, <2>2, ShiftFacts
<1>4. \A i \in 1..HeaderLen : high[i] = high[i - 1] * Base + buffer[i]
  <2> SUFFICES ASSUME NEW i \in 1..HeaderLen PROVE high[i] = high[i - 1] * Base + buffer[i]
    OBVIOUS
  <2>1. /\ HeaderLen - i \in 0..HeaderLen /\ HeaderLen - (i - 1) \in 1..HeaderLen
        /\ (HeaderLen - (i - 1)) - 1 = HeaderLen - i /\ i \in 0..HeaderLen /\ i - 1 \in 0..HeaderLen
    BY FrameAssumption
  <2>2. PICK p \in Nat \ {0} : p = ByteShift[HeaderLen - i] BY <2>1, ShiftFacts
  <2>3. ByteShift[HeaderLen - (i - 1)] = Base * p BY <2>1, <2>2, ShiftFacts
  <2>4. high[i] = n \div p /\ high[i - 1] = n \div (Base * p) BY <2>1, <2>2, <2>3
  <2>5. buffer[i] = (n \div p) % Base BY <2>2 DEF PushBe
  <2>6. Base \in Nat \ {0} /\ n \div p \in Nat BY Division, FrameAssumption
  <2>7. (n \div p) \div Base = n \div (Base * p) BY <2>6, TwoDivisions
  <2>8. ((n \div p) \div Base) * Base + ((n \div p) % Base) = n \div p BY <2>6, Division
  <2> HIDE DEF high
  <2> QED BY <2>4, <2>5, <2>7, <2>8
<1>5. Is(high)
  <2>1. high = [i \in 0..HeaderLen |-> high[i]] OBVIOUS
  <2> HIDE DEF high
  <2>2. \A i \in 0..HeaderLen : high[i] = IF i = 0 THEN 0 ELSE high[i - 1] * Base + buffer[i]
    BY <1>2, <1>4, FrameAssumption
  <2> QED BY <2>1, <2>2
<1>6. value = CHOOSE f : Is(f) OBVIOUS
<1>7. ReadBe(buffer) = value[HeaderLen] BY DEF ReadBe
<1> HIDE DEF value, high
<1>8. Is(value) BY <1>5, <1>6
<1>9. value[0] = 0 /\ \A i \in 1..HeaderLen : value[i] = value[i - 1] * Base + buffer[i]
  BY <1>8, FrameAssumption
<1> HIDE DEF Is
<1>10. \A i \in 0..HeaderLen : value[i] = high[i]
  <2> DEFINE bad == {i \in 0..HeaderLen : value[i] # high[i]}
  <2> SUFFICES ASSUME bad # {} PROVE FALSE OBVIOUS
  <2>1. PICK i \in bad : \A m \in bad : i <= m
    <3>1. bad \in SUBSET Nat BY FrameAssumption
    <3> QED BY <3>1, Smallest
  <2>2. i # 0 BY <1>2, <1>9, <2>1
  <2>3. i - 1 \in 0..HeaderLen /\ i - 1 \notin bad BY <2>1, <2>2, FrameAssumption
  <2>4. i \in 1..HeaderLen BY <2>1, <2>2, FrameAssumption
  <2> QED BY <1>4, <1>9, <2>1, <2>3, <2>4
<1> QED BY <1>3, <1>7, <1>10, FrameAssumption

(***************************************************************************)
(* Streams of frames.                                                      *)
(***************************************************************************)
(* The bytes after position pos are the frame of payload. *)
IsFrame(stream, pos, payload) ==
    /\ \A i \in 1..HeaderLen : stream[pos + i] = PushBe(Len(payload))[i]
    /\ \A i \in 1..Len(payload) : stream[pos + HeaderLen + i] = payload[i]

(* The stream is made of the frames of the messages after the first ones;  *)
(* the frame of message k ends at at[k].                                   *)
Framed(stream, first, messages, at) ==
    /\ at \in [first..Len(messages) -> Nat]
    /\ at[first] = 0 /\ at[Len(messages)] = Len(stream)
    /\ \A j, k \in first..Len(messages) : j <= k => at[j] <= at[k]
    /\ \A k \in (first + 1)..Len(messages) :
          /\ at[k] = at[k - 1] + HeaderLen + Len(messages[k])
          /\ IsFrame(stream, at[k - 1], messages[k])

LEMMA ConcatElements ==
  ASSUME NEW S, NEW q \in Seq(S), NEW r \in Seq(S)
  PROVE  /\ q \o r \in Seq(S) /\ Len(q \o r) = Len(q) + Len(r)
         /\ Len(q) \in Nat /\ Len(r) \in Nat
         /\ \A i \in 1..Len(q) : (q \o r)[i] = q[i]
         /\ \A i \in 1..Len(r) : (q \o r)[Len(q) + i] = r[i]
<1>1. /\ q \o r \in Seq(S) /\ Len(q \o r) = Len(q) + Len(r)
      /\ \A i \in 1..(Len(q) + Len(r)) :
            (q \o r)[i] = IF i <= Len(q) THEN q[i] ELSE r[i - Len(q)]
  BY ConcatProperties
<1>2. Len(q) \in Nat /\ Len(r) \in Nat BY LenProperties
<1>3. ASSUME NEW i \in 1..Len(r) PROVE (q \o r)[Len(q) + i] = r[i]
  <2>1. /\ Len(q) + i \in 1..(Len(q) + Len(r)) /\ ~(Len(q) + i <= Len(q))
        /\ (Len(q) + i) - Len(q) = i
    BY <1>2
  <2> QED BY <1>1, <2>1
<1> QED BY <1>1, <1>2, <1>3

LEMMA WithinFrame ==
  ASSUME NEW pos \in Nat, NEW head \in Nat, NEW body \in Nat, NEW end \in Nat,
         pos + head + body <= end
  PROVE  /\ \A i \in 1..head : pos + i \in 1..end
         /\ \A i \in 1..body : pos + head + i \in 1..end
  OBVIOUS

(* A frame appended to a stream of frames. *)
LEMMA FramedAppend ==
  ASSUME NEW stream \in Seq(Bytes), NEW messages \in Seq(Seq(Bytes)),
         NEW first \in 0..Len(messages), NEW at, Framed(stream, first, messages, at),
         NEW payload \in Seq(Bytes)
  PROVE  \E ends : Framed(stream \o (PushBe(Len(payload)) \o payload), first,
                          Append(messages, payload), ends)
<1> DEFINE frame == PushBe(Len(payload)) \o payload
           longer == stream \o frame
           more == Append(messages, payload)
           n == Len(messages)
           ends == [k \in first..(n + 1) |-> IF k = n + 1 THEN Len(longer) ELSE at[k]]
<1>1. /\ n \in Nat /\ Len(payload) \in Nat /\ Len(stream) \in Nat /\ HeaderLen \in Nat
      /\ first \in Nat /\ first <= n
  BY LenProperties, FrameAssumption
<1>2. Len(more) = n + 1 /\ more[n + 1] = payload /\ \A k \in 1..n : more[k] = messages[k]
  BY AppendProperties
<1>3. /\ frame \in Seq(Bytes) /\ Len(frame) = HeaderLen + Len(payload)
      /\ \A i \in 1..HeaderLen : frame[i] = PushBe(Len(payload))[i]
      /\ \A i \in 1..Len(payload) : frame[HeaderLen + i] = payload[i]
  <2>1. PICK header \in Seq(Bytes) : header = PushBe(Len(payload)) /\ Len(header) = HeaderLen
    BY <1>1, PushBeType
  <2>2. /\ header \o payload \in Seq(Bytes) /\ Len(header \o payload) = Len(header) + Len(payload)
        /\ \A i \in 1..Len(header) : (header \o payload)[i] = header[i]
        /\ \A i \in 1..Len(payload) : (header \o payload)[Len(header) + i] = payload[i]
    BY ONLY header \in Seq(Bytes), payload \in Seq(Bytes), ConcatElements
  <2>3. frame = header \o payload BY <2>1
  <2> HIDE DEF frame
  <2> QED BY ONLY <2>1, <2>2, <2>3
<1> HIDE DEF frame
<1>4. /\ longer \in Seq(Bytes) /\ Len(longer) = Len(stream) + HeaderLen + Len(payload)
      /\ \A i \in 1..Len(stream) : longer[i] = stream[i]
      /\ \A i \in 1..(HeaderLen + Len(payload)) : longer[Len(stream) + i] = frame[i]
  <2>1. /\ longer \in Seq(Bytes) /\ Len(longer) = Len(stream) + Len(frame)
        /\ \A i \in 1..Len(stream) : longer[i] = stream[i]
        /\ \A i \in 1..Len(frame) : longer[Len(stream) + i] = frame[i]
    <3>1. frame \in Seq(Bytes) BY <1>3
    <3> QED BY <3>1, ConcatElements
  <2> HIDE DEF longer
  <2> QED BY <1>1, <1>3, <2>1
<1> HIDE DEF longer, more, n
<1>5. /\ at \in [first..n -> Nat] /\ at[first] = 0 /\ at[n] = Len(stream)
      /\ \A j, k \in first..n : j <= k => at[j] <= at[k]
      /\ \A k \in (first + 1)..n : /\ at[k] = at[k - 1] + HeaderLen + Len(messages[k])
                                   /\ IsFrame(stream, at[k - 1], messages[k])
  BY DEF Framed, n
<1>6. ends \in [first..(n + 1) -> Nat] /\ ends[first] = 0 /\ ends[n + 1] = Len(longer)
  BY <1>1, <1>4, <1>5
<1>7. \A j, k \in first..(n + 1) : j <= k => ends[j] <= ends[k]
  <2>1. \A j \in first..n : at[j] \in Nat /\ at[j] <= Len(stream) BY <1>1, <1>5
  <2> QED BY <1>1, <1>4, <1>5, <2>1
<1>8. ASSUME NEW k \in (first + 1)..(n + 1)
      PROVE  /\ ends[k] = ends[k - 1] + HeaderLen + Len(more[k])
             /\ IsFrame(longer, ends[k - 1], more[k])
  <2>1. k - 1 \in first..n /\ ends[k - 1] = at[k - 1] BY <1>1
  <2>2. CASE k = n + 1
    <3>1. more[k] = payload /\ ends[k - 1] = Len(stream) /\ ends[k] = Len(longer)
      BY <1>1, <1>2, <1>5, <2>1, <2>2
    <3>2. \A i \in 1..HeaderLen : longer[Len(stream) + i] = PushBe(Len(payload))[i]
      BY <1>1, <1>3, <1>4
    <3>3. \A i \in 1..Len(payload) : longer[Len(stream) + HeaderLen + i] = payload[i]
      <4> SUFFICES ASSUME NEW i \in 1..Len(payload)
                   PROVE  longer[Len(stream) + HeaderLen + i] = payload[i]
        OBVIOUS
      <4>1. /\ HeaderLen + i \in 1..(HeaderLen + Len(payload))
            /\ Len(stream) + HeaderLen + i = Len(stream) + (HeaderLen + i)
        BY <1>1
      <4> QED BY <1>3, <1>4, <4>1
    <3> QED BY <1>4, <3>1, <3>2, <3>3 DEF IsFrame
  <2>3. CASE k # n + 1
    <3>1. k \in (first + 1)..n /\ k \in 1..n /\ k \in first..n BY <1>1, <2>3
    <3>2. /\ at[k] = at[k - 1] + HeaderLen + Len(messages[k]) /\ ends[k] = at[k]
          /\ IsFrame(stream, at[k - 1], messages[k]) /\ more[k] = messages[k]
      <4>1. ends[k] = at[k] BY ONLY <2>3, <3>1, k \in (first + 1)..(n + 1), <1>1
      <4> HIDE DEF ends
      <4> QED BY <1>2, <1>5, <3>1, <4>1
    <3>3. at[k - 1] \in Nat /\ at[k] \in Nat /\ at[k] <= Len(stream) BY <1>1, <1>5, <2>1, <3>1
    <3>4. Len(messages[k]) \in Nat
      <4>1. messages[k] \in Seq(Bytes) BY <3>1, ElementOfSeq DEF n
      <4> QED BY <4>1, LenProperties
    <3>5. IsFrame(longer, at[k - 1], messages[k])
      <4>1. /\ \A i \in 1..HeaderLen : at[k - 1] + i \in 1..Len(stream)
            /\ \A i \in 1..Len(messages[k]) : at[k - 1] + HeaderLen + i \in 1..Len(stream)
        BY <1>1, <3>2, <3>3, <3>4, WithinFrame
      <4> QED BY <1>4, <3>2, <4>1 DEF IsFrame
    <3> QED BY <2>1, <3>2, <3>5
  <2> QED BY <2>2, <2>3
<1> HIDE DEF ends
<1>9. Framed(longer, first, more, ends) BY <1>2, <1>6, <1>7, <1>8 DEF Framed
<1> QED BY <1>9 DEF longer, frame, more

LEMMA BytesAssociate == \A q, r, s \in Seq(Bytes) : (q \o r) \o s = q \o (r \o s)
  BY ConcatAssociative

LEMMA SliceElements ==
  ASSUME NEW S, NEW q \in Seq(S), NEW c \in Nat, NEW m \in Nat, c + m <= Len(q)
  PROVE  /\ SubSeq(q, c + 1, c + m) \in Seq(S) /\ Len(SubSeq(q, c + 1, c + m)) = m
         /\ \A i \in 1..m : SubSeq(q, c + 1, c + m)[i] = q[c + i]
<1>1. Len(q) \in Nat BY LenProperties
<1>2. PICK from \in Int, to \in Int : from = c + 1 /\ to = c + m OBVIOUS
<1>3. \A i \in from..to : q[i] \in S BY <1>1, <1>2, ElementOfSeq
<1>4. /\ SubSeq(q, from, to) \in Seq(S)
      /\ Len(SubSeq(q, from, to)) = IF from <= to THEN to - from + 1 ELSE 0
      /\ \A i \in 1..(to - from + 1) : SubSeq(q, from, to)[i] = q[from + i - 1]
  BY <1>3, SubSeqProperties
<1>5. Len(SubSeq(q, from, to)) = m /\ to - from + 1 = m BY <1>2, <1>4
<1>6. \A i \in 1..m : from + i - 1 = c + i BY <1>2
<1> QED BY <1>2, <1>4, <1>5, <1>6

LEMMA SuffixElements ==
  ASSUME NEW S, NEW q \in Seq(S), NEW c \in 0..Len(q)
  PROVE  /\ SubSeq(q, c + 1, Len(q)) \in Seq(S) /\ Len(SubSeq(q, c + 1, Len(q))) = Len(q) - c
         /\ \A i \in 1..(Len(q) - c) : SubSeq(q, c + 1, Len(q))[i] = q[c + i]
<1>1. Len(q) \in Nat /\ c \in Nat BY LenProperties
<1>2. PICK m \in Nat : m = Len(q) - c /\ c + m = Len(q) BY <1>1
<1>3. /\ SubSeq(q, c + 1, c + m) \in Seq(S) /\ Len(SubSeq(q, c + 1, c + m)) = m
      /\ \A i \in 1..m : SubSeq(q, c + 1, c + m)[i] = q[c + i]
  BY <1>1, <1>2, SliceElements
<1> QED BY <1>2, <1>3

(* Bytes dropped from the buffer are dropped from the stream. *)
LEMMA DropFromBuffer ==
  ASSUME NEW S, NEW q \in Seq(S), NEW r \in Seq(S), NEW c \in 0..Len(q)
  PROVE  SubSeq(q, c + 1, Len(q)) \o r = SubSeq(q \o r, c + 1, Len(q \o r))
<1> DEFINE rest == SubSeq(q, c + 1, Len(q))
           stream == q \o r
           tail == SubSeq(stream, c + 1, Len(stream))
<1>1. /\ stream \in Seq(S) /\ Len(stream) = Len(q) + Len(r) /\ Len(q) \in Nat /\ Len(r) \in Nat
      /\ \A i \in 1..Len(q) : stream[i] = q[i]
      /\ \A i \in 1..Len(r) : stream[Len(q) + i] = r[i]
  BY ConcatElements
<1> HIDE DEF stream
<1>2. c \in Nat /\ c \in 0..Len(stream) BY <1>1
<1>3. /\ rest \in Seq(S) /\ Len(rest) = Len(q) - c
      /\ \A i \in 1..(Len(q) - c) : rest[i] = q[c + i]
  BY SuffixElements
<1>4. /\ tail \in Seq(S) /\ Len(tail) = Len(stream) - c
      /\ \A i \in 1..(Len(stream) - c) : tail[i] = stream[c + i]
  BY <1>1, <1>2, SuffixElements
<1> HIDE DEF rest, tail
<1>5. /\ rest \o r \in Seq(S) /\ Len(rest \o r) = Len(rest) + Len(r)
      /\ \A i \in 1..(Len(rest) + Len(r)) :
            (rest \o r)[i] = IF i <= Len(rest) THEN rest[i] ELSE r[i - Len(rest)]
  BY <1>3, ConcatProperties
<1>6. Len(rest \o r) = Len(tail) BY <1>1, <1>2, <1>3, <1>4, <1>5
<1>7. ASSUME NEW i \in 1..Len(rest \o r) PROVE (rest \o r)[i] = tail[i]
  <2>1. tail[i] = stream[c + i] BY <1>4, <1>6
  <2>2. CASE i <= Len(rest)
    <3>1. i \in 1..(Len(q) - c) /\ c + i \in 1..Len(q) BY <1>1, <1>2, <1>3, <1>5, <2>2
    <3> QED BY <1>1, <1>3, <1>5, <2>1, <2>2, <3>1
  <2>3. CASE ~(i <= Len(rest))
    <3>1. i - Len(rest) \in 1..Len(r) /\ c + i = Len(q) + (i - Len(rest))
      BY <1>1, <1>2, <1>3, <1>5, <2>3
    <3> QED BY <1>1, <1>5, <2>1, <2>3, <3>1
  <2> QED BY <2>2, <2>3
<1>8. rest \o r = tail BY <1>4, <1>5, <1>6, <1>7, SeqEqual
<1> QED BY <1>8 DEF rest, tail, stream

LEMMA ShiftedFrame ==
  ASSUME NEW pos \in Nat, NEW end \in Nat, NEW head \in Nat, NEW body \in Nat,
         NEW c \in Nat, NEW all \in Nat, end = pos + head + body, c <= pos, end <= all
  PROVE  /\ pos - c \in Nat /\ all - c \in Nat /\ (pos - c) + head + body <= all - c
         /\ \A i \in 1..head : c + ((pos - c) + i) = pos + i
         /\ \A i \in 1..body : c + ((pos - c) + head + i) = pos + head + i
         /\ end - c = (pos - c) + head + body
  OBVIOUS

(* A stream of frames without its first frame. *)
LEMMA FramedDrop ==
  ASSUME NEW stream \in Seq(Bytes), NEW messages \in Seq(Seq(Bytes)), NEW first \in Nat,
         first < Len(messages), NEW at, Framed(stream, first, messages, at)
  PROVE  \E ends : Framed(SubSeq(stream, at[first + 1] + 1, Len(stream)), first + 1, messages, ends)
<1> DEFINE n == Len(messages)
           c == at[first + 1]
           shorter == SubSeq(stream, c + 1, Len(stream))
           ends == [k \in (first + 1)..n |-> at[k] - c]
<1>1. n \in Nat /\ HeaderLen \in Nat /\ Len(stream) \in Nat /\ first + 1 \in first..n
  BY LenProperties, FrameAssumption
<1> HIDE DEF n
<1>2. /\ at \in [first..n -> Nat] /\ at[first] = 0 /\ at[n] = Len(stream)
      /\ \A j, k \in first..n : j <= k => at[j] <= at[k]
      /\ \A k \in (first + 1)..n : /\ at[k] = at[k - 1] + HeaderLen + Len(messages[k])
                                   /\ IsFrame(stream, at[k - 1], messages[k])
  BY DEF Framed, n
<1>3. c \in 0..Len(stream)
  <2>1. c \in Nat /\ c <= at[n] BY <1>1, <1>2
  <2> QED BY <1>1, <1>2, <2>1
<1>4. \A k \in (first + 1)..n : at[k] \in Nat /\ c <= at[k] /\ at[k] <= Len(stream)
  BY <1>1, <1>2
<1> HIDE DEF c
<1>5. /\ Len(shorter) = Len(stream) - c
      /\ \A i \in 1..(Len(stream) - c) : shorter[i] = stream[c + i]
  BY <1>3, SuffixElements
<1> HIDE DEF shorter
<1>6. ends \in [(first + 1)..n -> Nat] /\ ends[first + 1] = 0 /\ ends[n] = Len(shorter)
  <2>1. \A k \in (first + 1)..n : at[k] - c \in Nat BY <1>3, <1>4
  <2>2. at[first + 1] - c = 0 BY <1>3 DEF c
  <2>3. first + 1 \in (first + 1)..n /\ n \in (first + 1)..n BY <1>1
  <2> QED BY <1>2, <1>5, <2>1, <2>2, <2>3
<1>7. \A j, k \in (first + 1)..n : j <= k => ends[j] <= ends[k]
  <2>1. \A j, k \in (first + 1)..n : j <= k => at[j] <= at[k] BY <1>1, <1>2
  <2> QED BY <1>3, <1>4, <2>1
<1>8. ASSUME NEW k \in (first + 1 + 1)..n
      PROVE  /\ ends[k] = ends[k - 1] + HeaderLen + Len(messages[k])
             /\ IsFrame(shorter, ends[k - 1], messages[k])
  <2>1. k \in (first + 1)..n /\ k - 1 \in (first + 1)..n /\ k \in 1..Len(messages)
    BY <1>1 DEF n
  <2>2. Len(messages[k]) \in Nat
    <3>1. messages[k] \in Seq(Bytes) BY <2>1, ElementOfSeq
    <3> QED BY <3>1, LenProperties
  <2>3. PICK a \in Nat : a = at[k - 1] /\ c <= a BY <1>4, <2>1
  <2>4. /\ at[k] = a + HeaderLen + Len(messages[k]) /\ at[k] \in Nat /\ at[k] <= Len(stream)
        /\ IsFrame(stream, a, messages[k]) /\ ends[k] = at[k] - c /\ ends[k - 1] = a - c
    BY <1>2, <1>4, <2>1, <2>3
  <2> HIDE DEF ends
  <2>5. /\ a - c \in Nat /\ Len(stream) - c \in Nat
        /\ (a - c) + HeaderLen + Len(messages[k]) <= Len(stream) - c
        /\ \A i \in 1..HeaderLen : c + ((a - c) + i) = a + i
        /\ \A i \in 1..Len(messages[k]) : c + ((a - c) + HeaderLen + i) = a + HeaderLen + i
        /\ at[k] - c = (a - c) + HeaderLen + Len(messages[k])
    <3>1. PICK e \in Nat, b \in Nat : e = at[k] /\ b = Len(messages[k]) BY <2>2, <2>4
    <3>2. c \in Nat /\ c <= a BY <1>3, <2>3
    <3>3. e = a + HeaderLen + b BY <2>4, <3>1
    <3>4. e <= Len(stream) BY <2>4, <3>1
    <3>5. /\ a - c \in Nat /\ Len(stream) - c \in Nat
          /\ (a - c) + HeaderLen + b <= Len(stream) - c
          /\ \A i \in 1..HeaderLen : c + ((a - c) + i) = a + i
          /\ \A i \in 1..b : c + ((a - c) + HeaderLen + i) = a + HeaderLen + i
          /\ e - c = (a - c) + HeaderLen + b
      BY <1>1, <3>2, <3>3, <3>4, ShiftedFrame
    <3> QED BY <3>1, <3>5
  <2>6. /\ \A i \in 1..HeaderLen : (a - c) + i \in 1..(Len(stream) - c)
        /\ \A i \in 1..Len(messages[k]) : (a - c) + HeaderLen + i \in 1..(Len(stream) - c)
    BY <1>1, <2>2, <2>5, WithinFrame
  <2>7. IsFrame(shorter, a - c, messages[k])
    <3>1. \A i \in 1..HeaderLen : shorter[(a - c) + i] = PushBe(Len(messages[k]))[i]
      <4> SUFFICES ASSUME NEW i \in 1..HeaderLen
                   PROVE  shorter[(a - c) + i] = PushBe(Len(messages[k]))[i]
        OBVIOUS
      <4>1. shorter[(a - c) + i] = stream[c + ((a - c) + i)] BY <1>5, <2>6
      <4> QED BY <2>4, <2>5, <4>1 DEF IsFrame
    <3>2. \A i \in 1..Len(messages[k]) : shorter[(a - c) + HeaderLen + i] = messages[k][i]
      <4> SUFFICES ASSUME NEW i \in 1..Len(messages[k])
                   PROVE  shorter[(a - c) + HeaderLen + i] = messages[k][i]
        OBVIOUS
      <4>1. shorter[(a - c) + HeaderLen + i] = stream[c + ((a - c) + HeaderLen + i)]
        BY <1>5, <2>6
      <4> QED BY <2>4, <2>5, <4>1 DEF IsFrame
    <3> QED BY ONLY <3>1, <3>2 DEF IsFrame
  <2> QED BY <2>4, <2>5, <2>7
<1> HIDE DEF ends
<1>9. Framed(shorter, first + 1, messages, ends) BY <1>6, <1>7, <1>8 DEF Framed, n
<1> QED BY <1>9 DEF shorter, c

(* What the decoder makes of the beginning of a stream of frames. *)
LEMMA FirstFrame ==
  ASSUME NEW buffer \in Seq(Bytes), NEW rest \in Seq(Bytes), NEW messages \in Seq(Seq(Bytes)),
         NEW first \in 0..Len(messages), NEW at, Framed(buffer \o rest, first, messages, at),
         \A k \in 1..Len(messages) : Len(messages[k]) <= LengthLimit
  PROVE  /\ first = Len(messages) => buffer = <<>> /\ rest = <<>>
         /\ first < Len(messages) =>
              LET next == messages[first + 1] IN
              /\ next \in Seq(Bytes) /\ Len(next) \in Nat
              /\ at[first + 1] = HeaderLen + Len(next)
              /\ HeaderLen + Len(next) <= Len(buffer) + Len(rest)
              /\ Len(buffer) >= HeaderLen => ReadBe(buffer) = Len(next)
              /\ Len(buffer) >= HeaderLen + Len(next) =>
                    SubSeq(buffer, HeaderLen + 1, HeaderLen + Len(next)) = next
<1> DEFINE n == Len(messages)
           stream == buffer \o rest
<1>1. /\ n \in Nat /\ HeaderLen \in Nat \ {0} /\ Len(buffer) \in Nat /\ Len(rest) \in Nat
      /\ first \in Nat /\ first <= n
  BY LenProperties, FrameAssumption
<1>2. /\ Len(stream) = Len(buffer) + Len(rest)
      /\ \A i \in 1..Len(buffer) : stream[i] = buffer[i]
  BY ConcatElements
<1> HIDE DEF stream
<1>3. /\ at \in [first..n -> Nat] /\ at[first] = 0 /\ at[n] = Len(stream)
      /\ \A j, k \in first..n : j <= k => at[j] <= at[k]
      /\ \A k \in (first + 1)..n : /\ at[k] = at[k - 1] + HeaderLen + Len(messages[k])
                                   /\ IsFrame(stream, at[k - 1], messages[k])
  BY DEF Framed, stream
<1>4. ASSUME first = n PROVE buffer = <<>> /\ rest = <<>>
  <2>1. Len(buffer) = 0 /\ Len(rest) = 0 BY <1>1, <1>2, <1>3, <1>4
  <2> QED BY <2>1, EmptySeq
<1>5. ASSUME first < n, NEW next, next = messages[first + 1]
      PROVE  /\ next \in Seq(Bytes) /\ Len(next) \in Nat
             /\ at[first + 1] = HeaderLen + Len(next)
             /\ HeaderLen + Len(next) <= Len(buffer) + Len(rest)
             /\ Len(buffer) >= HeaderLen => ReadBe(buffer) = Len(next)
             /\ Len(buffer) >= HeaderLen + Len(next) =>
                   SubSeq(buffer, HeaderLen + 1, HeaderLen + Len(next)) = next
  <2>1. /\ first + 1 \in (first + 1)..n /\ first + 1 \in first..n /\ n \in first..n
        /\ first + 1 \in 1..n /\ (first + 1) - 1 = first
    BY <1>1, <1>5
  <2>2. next \in Seq(Bytes) BY <1>5, <2>1, ElementOfSeq
  <2>3. Len(next) \in Nat /\ Len(next) <= LengthLimit BY <1>5, <2>1, <2>2, LenProperties
  <2>4. at[first + 1] = 0 + HeaderLen + Len(next) /\ IsFrame(stream, 0, next)
    BY <1>3, <1>5, <2>1
  <2>5. at[first + 1] = HeaderLen + Len(next) BY <1>1, <2>3, <2>4
  <2>6. HeaderLen + Len(next) <= Len(buffer) + Len(rest)
    <3>1. at[first + 1] <= at[n] BY <1>1, <1>3, <1>5, <2>1
    <3> QED BY <1>2, <1>3, <2>5, <3>1
  <2>7. /\ \A i \in 1..HeaderLen : stream[i] = PushBe(Len(next))[i]
        /\ \A i \in 1..Len(next) : stream[HeaderLen + i] = next[i]
    <3>1. /\ \A i \in 1..HeaderLen : 0 + i = i
          /\ \A i \in 1..Len(next) : 0 + HeaderLen + i = HeaderLen + i
      BY <1>1, <2>3
    <3> QED BY <2>4, <3>1 DEF IsFrame
  <2>8. ASSUME Len(buffer) >= HeaderLen PROVE ReadBe(buffer) = Len(next)
    <3>1. \A i \in 1..HeaderLen : buffer[i] = PushBe(Len(next))[i]
      BY <1>1, <1>2, <2>7, <2>8
    <3> QED BY <2>3, <3>1, ReadWhatWasPushed
  <2>9. ASSUME Len(buffer) >= HeaderLen + Len(next)
        PROVE  SubSeq(buffer, HeaderLen + 1, HeaderLen + Len(next)) = next
    <3> DEFINE body == SubSeq(buffer, HeaderLen + 1, HeaderLen + Len(next))
    <3>1. /\ body \in Seq(Bytes) /\ Len(body) = Len(next)
          /\ \A i \in 1..Len(next) : body[i] = buffer[HeaderLen + i]
      <4>1. HeaderLen \in Nat /\ HeaderLen + Len(next) <= Len(buffer) BY <1>1, <2>3, <2>9
      <4> QED BY <2>3, <4>1, SliceElements
    <3> HIDE DEF body
    <3>2. \A i \in 1..Len(next) : HeaderLen + i \in 1..Len(buffer) BY <1>1, <2>3, <2>9
    <3>3. \A i \in 1..Len(next) : body[i] = next[i] BY <1>2, <2>7, <3>1, <3>2
    <3>4. body = next BY <2>2, <3>1, <3>3, SeqEqual
    <3> QED BY <3>4 DEF body
  <2> QED BY <2>2, <2>3, <2>5, <2>6, <2>8, <2>9
<1> QED BY <1>4, <1>5

(***************************************************************************)
(* The inductive invariant: what is buffered and on the wire is made of    *)
(* the frames of the messages not decoded yet, and these are decoded as    *)
(* they were sent.                                                         *)
(***************************************************************************)
DecodedWereSent ==
    Len(decoded) <= Len(sent) /\ \A k \in 1..Len(decoded) : decoded[k] = sent[k]

LengthsFit == \A k \in 1..Len(sent) : Len(sent[k]) <= LengthLimit

StreamIsFramed == ~failed => \E at : Framed(read_buf \o wire, Len(decoded), sent, at)

FrameInv ==
    TypeOK /\ DecodedWereSent /\ LengthsFit /\ StreamIsFramed /\ LimitIsExact

LEMMA LimitFacts ==
  /\ LengthLimit \in Nat
  /\ \A max \in Nat : EffectiveMaxPayload(max) \in Nat /\ EffectiveMaxPayload(max) <= LengthLimit
  /\ \A max, n \in Nat : n <= LengthLimit => (n > EffectiveMaxPayload(max) <=> n > max)
<1>1. PICK p \in Nat \ {0} : p = ByteShift[HeaderLen] BY ShiftFacts, FrameAssumption
<1>2. LengthLimit \in Nat BY <1>1 DEF LengthLimit
<1> QED BY <1>2 DEF EffectiveMaxPayload

LEMMA StreamTypes ==
  ASSUME TypeOK
  PROVE  /\ sent \in Seq(Seq(Bytes)) /\ Len(sent) \in Nat /\ Len(decoded) \in Nat
         /\ Len(read_buf) \in Nat /\ Len(wire) \in Nat /\ read_buf \o wire \in Seq(Bytes)
         /\ send_max \in Nat /\ recv_max \in Nat /\ HeaderLen \in Nat
<1>1. Payloads \subseteq Seq(Bytes) BY FrameAssumption DEF Bytes
<1>2. sent \in Seq(Seq(Bytes)) BY <1>1, SeqMonotonic DEF TypeOK
<1>3. Len(decoded) \in Nat BY LenProperties DEF TypeOK
<1>4. Len(read_buf) \in Nat /\ Len(wire) \in Nat /\ read_buf \o wire \in Seq(Bytes)
  BY LenProperties, ConcatElements DEF TypeOK
<1>5. Len(sent) \in Nat BY <1>2, LenProperties
<1> QED BY <1>2, <1>3, <1>4, <1>5, FrameAssumption DEF TypeOK

(* What try_decode_frame answers says which message comes next. *)
LEMMA DecodingIs ==
  ASSUME FrameInv, ~failed
  PROVE  LET next == sent[Len(decoded) + 1] IN
         /\ Decoding.status = "Complete" =>
              /\ Len(decoded) < Len(sent) /\ Decoding.payload = next
              /\ Decoding.consumed_bytes = HeaderLen + Len(next)
              /\ HeaderLen + Len(next) <= Len(read_buf) /\ Len(next) <= recv_max
         /\ Decoding.status = "OversizedLength" =>
              Len(decoded) < Len(sent) /\ Len(next) > recv_max
         /\ Decoding.status = "Incomplete" /\ Len(decoded) < Len(sent) =>
              Len(read_buf) < HeaderLen + Len(next)
<1>1. /\ sent \in Seq(Seq(Bytes)) /\ read_buf \in Seq(Bytes) /\ wire \in Seq(Bytes)
      /\ Len(decoded) \in 0..Len(sent) /\ Len(sent) \in Nat /\ Len(decoded) \in Nat
      /\ Len(read_buf) \in Nat /\ HeaderLen \in Nat \ {0}
  BY StreamTypes, FrameAssumption DEF FrameInv, TypeOK, DecodedWereSent
<1>2. PICK at : Framed(read_buf \o wire, Len(decoded), sent, at)
  BY DEF FrameInv, StreamIsFramed
<1>3. \A k \in 1..Len(sent) : Len(sent[k]) <= LengthLimit BY DEF FrameInv, LengthsFit
<1>4. CASE Len(decoded) = Len(sent)
  <2>1. read_buf = <<>> BY <1>1, <1>2, <1>3, <1>4, FirstFrame
  <2>2. Len(read_buf) < HeaderLen BY <1>1, <2>1
  <2>3. Decoding.status = "Incomplete" BY <2>2 DEF Decoding, TryDecodeFrame, Incomplete
  <2> QED BY <1>1, <1>4, <2>3
<1>5. CASE Len(decoded) < Len(sent)
  <2>1. PICK next : next = sent[Len(decoded) + 1] OBVIOUS
  <2>2. /\ Len(next) \in Nat
        /\ Len(read_buf) >= HeaderLen => ReadBe(read_buf) = Len(next)
        /\ Len(read_buf) >= HeaderLen + Len(next) =>
              SubSeq(read_buf, HeaderLen + 1, HeaderLen + Len(next)) = next
    BY <1>1, <1>2, <1>3, <1>5, <2>1, FirstFrame
  <2>3. /\ Len(next) > EffectiveMaxPayload(recv_max) <=> Len(next) > recv_max
        /\ recv_max \in Nat
    <3>1. Len(next) <= LengthLimit /\ recv_max \in Nat
      BY <1>1, <1>3, <1>5, <2>1, StreamTypes DEF FrameInv
    <3> QED BY <2>2, <3>1, LimitFacts
  <2>4. CASE Len(read_buf) < HeaderLen
    <3>1. Decoding.status = "Incomplete" BY <2>4 DEF Decoding, TryDecodeFrame, Incomplete
    <3>2. Len(read_buf) < HeaderLen + Len(next) BY <1>1, <2>2, <2>4
    <3> QED BY <2>1, <3>1, <3>2
  <2>5. CASE ~(Len(read_buf) < HeaderLen)
    <3>1. ReadBe(read_buf) = Len(next) BY <1>1, <2>2, <2>5
    <3>2. CASE Len(next) > EffectiveMaxPayload(recv_max)
      <4>1. Decoding.status = "OversizedLength"
        BY <2>5, <3>1, <3>2 DEF Decoding, TryDecodeFrame, OversizedLength
      <4> QED BY <1>5, <2>1, <2>3, <3>2, <4>1
    <3>3. CASE ~(Len(next) > EffectiveMaxPayload(recv_max)) /\ Len(read_buf) < HeaderLen + Len(next)
      <4>1. Decoding.status = "Incomplete"
        BY <2>5, <3>1, <3>3 DEF Decoding, TryDecodeFrame, Incomplete
      <4> QED BY <2>1, <3>3, <4>1
    <3>4. CASE /\ ~(Len(next) > EffectiveMaxPayload(recv_max))
               /\ ~(Len(read_buf) < HeaderLen + Len(next))
      <4>1. Decoding = [status |-> "Complete", consumed_bytes |-> HeaderLen + Len(next),
                        payload |-> SubSeq(read_buf, HeaderLen + 1, HeaderLen + Len(next))]
        BY <2>5, <3>1, <3>4 DEF Decoding, TryDecodeFrame
      <4>2. HeaderLen + Len(next) <= Len(read_buf) BY <1>1, <2>2, <3>4
      <4>3. SubSeq(read_buf, HeaderLen + 1, HeaderLen + Len(next)) = next
        BY <1>1, <2>2, <4>2
      <4>4. Len(next) <= recv_max BY <2>2, <2>3, <3>4
      <4> QED BY <1>5, <2>1, <4>1, <4>2, <4>3, <4>4
    <3> QED BY <3>2, <3>3, <3>4
  <2> QED BY <2>4, <2>5
<1> QED BY <1>1, <1>4, <1>5

(* Framed speaks of its arguments only. *)
LEMMA FramedNext ==
  \A at : Framed(read_buf \o wire, Len(decoded), sent, at)'
            <=> Framed(read_buf' \o wire', Len(decoded'), sent', at)
  BY DEF Framed, IsFrame, PushBe, ByteShift

(***************************************************************************)
(* Every step preserves it.                                                *)
(***************************************************************************)
LEMMA InitFrames == Init => FrameInv
<1> SUFFICES ASSUME Init PROVE FrameInv OBVIOUS
<1>1. TypeOK BY EmptySeq DEF Init, TypeOK
<1>2. /\ Len(sent) = 0 /\ Len(decoded) = 0 /\ read_buf \o wire = <<>> /\ Len(<<>>) = 0
  BY EmptySeq, ConcatEmptySeq DEF Init
<1>3. DecodedWereSent /\ LengthsFit BY <1>2 DEF DecodedWereSent, LengthsFit
<1>4. Framed(read_buf \o wire, Len(decoded), sent, [k \in 0..0 |-> 0])
  BY <1>2 DEF Framed
<1>5. LimitIsExact BY <1>2 DEF Init, LimitIsExact
<1> QED BY <1>1, <1>3, <1>4, <1>5 DEF FrameInv, StreamIsFramed

LEMMA SendKeepsFrames ==
  ASSUME FrameInv, NEW payload \in Payloads, SendMessage(payload)
  PROVE  FrameInv'
<1> USE DEF FrameInv
<1>1. /\ sent' = Append(sent, payload) /\ wire' = wire \o PushBe(Len(payload)) \o payload
      /\ read_buf' = read_buf /\ decoded' = decoded /\ failed' = failed
      /\ send_max' = send_max /\ recv_max' = recv_max
      /\ Len(payload) <= EffectiveMaxPayload(send_max)
  BY DEF SendMessage, CanEncode, AppendEncodedFrame
<1>2. payload \in Seq(Bytes) /\ Len(payload) \in Nat
  <2>1. payload \in Seq(Bytes) BY FrameAssumption DEF Bytes
  <2> QED BY <2>1, LenProperties
<1>3. PushBe(Len(payload)) \in Seq(Bytes) BY <1>2, PushBeType
<1>4. /\ wire \in Seq(Bytes) /\ read_buf \in Seq(Bytes) /\ sent \in Seq(Seq(Bytes))
      /\ Len(sent) \in Nat /\ Len(decoded) \in 0..Len(sent)
  BY StreamTypes DEF TypeOK, DecodedWereSent
<1>5. TypeOK'
  <2>1. wire' \in Seq(Bytes)
    <3>1. wire \o PushBe(Len(payload)) \in Seq(Bytes) BY <1>3, <1>4, ConcatElements
    <3> QED BY <1>1, <1>2, <3>1, ConcatElements
  <2>2. sent' \in Seq(Payloads) BY <1>1, AppendProperties DEF TypeOK
  <2> QED BY <1>1, <2>1, <2>2 DEF TypeOK
<1>6. /\ Len(sent') = Len(sent) + 1 /\ sent'[Len(sent) + 1] = payload
      /\ \A k \in 1..Len(sent) : sent'[k] = sent[k]
  BY <1>1, <1>2, <1>4, AppendProperties
<1>7. DecodedWereSent'
  BY <1>1, <1>4, <1>6 DEF DecodedWereSent
<1>8. LengthsFit'
  <2>1. Len(payload) <= LengthLimit
    <3>1. send_max \in Nat BY StreamTypes
    <3> QED BY <1>1, <1>2, <3>1, LimitFacts
  <2>2. \A k \in 1..Len(sent') : k \in 1..Len(sent) \/ k = Len(sent) + 1 BY <1>4, <1>6
  <2>3. \A k \in 1..Len(sent') : Len(sent'[k]) <= LengthLimit
    BY <1>6, <2>1, <2>2 DEF LengthsFit
  <2> QED BY <2>3 DEF LengthsFit
<1>9. StreamIsFramed'
  <2> SUFFICES ASSUME ~failed PROVE \E at : Framed(read_buf \o wire, Len(decoded), sent, at)'
    BY <1>1 DEF StreamIsFramed
  <2>1. PICK at : Framed(read_buf \o wire, Len(decoded), sent, at) BY DEF StreamIsFramed
  <2>2. PICK frame \in Seq(Bytes) : frame = PushBe(Len(payload)) \o payload
    BY <1>2, <1>3, ConcatElements
  <2>3. (read_buf \o wire)' = (read_buf \o wire) \o frame
    <3>1. wire' = wire \o frame
      <4>1. PICK header \in Seq(Bytes) : header = PushBe(Len(payload)) BY <1>3
      <4>2. (wire \o header) \o payload = wire \o (header \o payload)
        <5>1. wire \in Seq(Bytes) /\ payload \in Seq(Bytes) BY <1>2, <1>4
        <5> QED BY ONLY <5>1, header \in Seq(Bytes), BytesAssociate, ZenonT(60)
      <4> QED BY <1>1, <2>2, <4>1, <4>2
    <3>2. read_buf \o (wire \o frame) = (read_buf \o wire) \o frame
      BY <1>4, <2>2, BytesAssociate
    <3> QED BY <1>1, <3>1, <3>2
  <2>4. read_buf \o wire \in Seq(Bytes) BY StreamTypes
  <2>5. \E ends : Framed((read_buf \o wire) \o frame, Len(decoded), Append(sent, payload), ends)
    BY <1>2, <1>4, <2>1, <2>2, <2>4, FramedAppend
  <2> QED BY <1>1, <2>3, <2>5, FramedNext
<1>10. LimitIsExact'
  <2>1. \A k \in 1..Len(decoded) : Len(decoded[k]) <= recv_max BY DEF LimitIsExact
  <2>2. ASSUME failed
        PROVE  /\ Len(decoded) < Len(sent')
               /\ Len(sent'[Len(decoded) + 1]) > recv_max
    <3>1. Len(decoded) < Len(sent) /\ Len(sent[Len(decoded) + 1]) > recv_max
      BY <2>2 DEF LimitIsExact
    <3>2. Len(decoded) + 1 \in 1..Len(sent) /\ Len(decoded) < Len(sent) + 1
      BY <1>4, <3>1
    <3> QED BY <1>6, <3>1, <3>2
  <2> QED BY ONLY <1>1, <2>1, <2>2 DEF LimitIsExact
<1> QED BY <1>5, <1>7, <1>8, <1>9, <1>10

(* A chunk moves from the wire to the buffer. *)
LEMMA ReceiveKeepsFrames ==
  ASSUME FrameInv, NEW n \in 1..Len(wire), Receive(n)
  PROVE  FrameInv'
<1> USE DEF FrameInv
<1>1. /\ read_buf' = read_buf \o SubSeq(wire, 1, n) /\ wire' = SubSeq(wire, n + 1, Len(wire))
      /\ sent' = sent /\ decoded' = decoded /\ failed' = failed
      /\ send_max' = send_max /\ recv_max' = recv_max
  BY DEF Receive
<1>2. wire \in Seq(Bytes) /\ read_buf \in Seq(Bytes) /\ Len(wire) \in Nat
  BY StreamTypes DEF TypeOK
<1>3. SubSeq(wire, 1, n) \in Seq(Bytes) /\ SubSeq(wire, n + 1, Len(wire)) \in Seq(Bytes)
  <2>1. SubSeq(wire, 0 + 1, 0 + n) \in Seq(Bytes) BY <1>2, SliceElements
  <2>2. 0 + 1 = 1 /\ 0 + n = n BY <1>2
  <2>3. SubSeq(wire, n + 1, Len(wire)) \in Seq(Bytes) BY <1>2, SuffixElements
  <2> QED BY <2>1, <2>2, <2>3
<1>4. SubSeq(wire, 1, n) \o SubSeq(wire, n + 1, Len(wire)) = wire
  <2>1. /\ 1 \in 1..(Len(wire) + 1) /\ n \in (1 - 1)..Len(wire) /\ Len(wire) \in n..Len(wire)
    BY <1>2
  <2>2. SubSeq(wire, 1, n) \o SubSeq(wire, n + 1, Len(wire)) = SubSeq(wire, 1, Len(wire))
    BY <1>2, <2>1, ConcatAdjacentSubSeq
  <2> QED BY <1>2, <2>2, SubSeqFull
<1>5. read_buf' \o wire' = read_buf \o wire
  <2>1. PICK q \in Seq(Bytes), r \in Seq(Bytes) :
          q = SubSeq(wire, 1, n) /\ r = SubSeq(wire, n + 1, Len(wire))
    BY <1>3
  <2>2. (read_buf \o q) \o r = read_buf \o (q \o r)
    BY ONLY <1>2, q \in Seq(Bytes), r \in Seq(Bytes), BytesAssociate, ZenonT(60)
  <2> QED BY <1>1, <1>4, <2>1, <2>2
<1>6. TypeOK' BY <1>1, <1>2, <1>3, ConcatElements DEF TypeOK
<1>7. DecodedWereSent' /\ LengthsFit' /\ LimitIsExact'
  BY <1>1 DEF DecodedWereSent, LengthsFit, LimitIsExact
<1>8. StreamIsFramed' BY <1>1, <1>5, FramedNext DEF StreamIsFramed
<1> QED BY <1>6, <1>7, <1>8

LEMMA CompleteKeepsFrames == ASSUME FrameInv, DecodeComplete PROVE FrameInv'
<1> USE DEF FrameInv
<1>1. PICK next, c : next = sent[Len(decoded) + 1] /\ c = HeaderLen + Len(next) OBVIOUS
<1>2. /\ ~failed /\ failed' = failed /\ sent' = sent /\ wire' = wire
      /\ send_max' = send_max /\ recv_max' = recv_max
      /\ decoded' = Append(decoded, next) /\ read_buf' = SubSeq(read_buf, c + 1, Len(read_buf))
      /\ Len(decoded) < Len(sent) /\ c <= Len(read_buf)
  BY <1>1, DecodingIs DEF DecodeComplete
<1>3. /\ sent \in Seq(Seq(Bytes)) /\ read_buf \in Seq(Bytes) /\ wire \in Seq(Bytes)
      /\ decoded \in Seq(Seq(Bytes)) /\ Len(decoded) \in Nat /\ Len(sent) \in Nat
      /\ Len(read_buf) \in Nat /\ Len(wire) \in Nat
      /\ Len(decoded) \in 0..Len(sent) /\ Len(decoded) + 1 \in 1..Len(sent)
  BY <1>2, StreamTypes DEF TypeOK
<1>4. PICK at : Framed(read_buf \o wire, Len(decoded), sent, at)
  BY <1>2 DEF StreamIsFramed
<1>5. \A k \in 1..Len(sent) : Len(sent[k]) <= LengthLimit BY DEF LengthsFit
<1>6. next \in Seq(Bytes) /\ Len(next) \in Nat /\ at[Len(decoded) + 1] = c
  <2>1. Len(decoded) < Len(sent) BY <1>2
  <2>2. /\ next \in Seq(Bytes) /\ Len(next) \in Nat
        /\ at[Len(decoded) + 1] = HeaderLen + Len(next)
    BY <1>1, <1>3, <1>4, <1>5, <2>1, FirstFrame
  <2> QED BY <1>1, <2>2
<1>7. c \in 0..Len(read_buf)
  <2>1. c \in Nat /\ c <= Len(read_buf) BY <1>1, <1>2, <1>6, FrameAssumption
  <2> QED BY <1>3, <2>1
<1>8. /\ Len(decoded') = Len(decoded) + 1 /\ decoded'[Len(decoded) + 1] = next
      /\ \A k \in 1..Len(decoded) : decoded'[k] = decoded[k]
      /\ decoded' \in Seq(Seq(Bytes))
  BY <1>2, <1>3, <1>6, AppendProperties
<1>9. TypeOK' BY <1>2, <1>3, <1>7, <1>8, SuffixElements DEF TypeOK
<1>10. DecodedWereSent'
  <2>1. \A k \in 1..(Len(decoded) + 1) : k \in 1..Len(decoded) \/ k = Len(decoded) + 1
    BY <1>3
  <2>2. \A k \in 1..Len(decoded) : decoded[k] = sent[k] BY DEF DecodedWereSent
  <2>3. Len(decoded) + 1 <= Len(sent) BY <1>3
  <2> QED BY ONLY <1>1, <1>2, <1>8, <2>1, <2>2, <2>3 DEF DecodedWereSent
<1>11. LengthsFit' /\ LimitIsExact'
  <2>1. \A k \in 1..(Len(decoded) + 1) : k \in 1..Len(decoded) \/ k = Len(decoded) + 1
    BY <1>3
  <2>2. Len(next) <= recv_max BY <1>1, <1>2, DecodingIs DEF DecodeComplete
  <2>3. \A k \in 1..Len(decoded') : Len(decoded'[k]) <= recv_max'
    BY <1>2, <1>8, <2>1, <2>2 DEF LimitIsExact
  <2> QED BY <1>2, <2>3 DEF LengthsFit, LimitIsExact
<1>12. StreamIsFramed'
  <2>1. read_buf' \o wire' = SubSeq(read_buf \o wire, c + 1, Len(read_buf \o wire))
    BY <1>2, <1>3, <1>7, DropFromBuffer
  <2>2. read_buf \o wire \in Seq(Bytes) BY StreamTypes
  <2>3. \E ends : Framed(SubSeq(read_buf \o wire, c + 1, Len(read_buf \o wire)),
                         Len(decoded) + 1, sent, ends)
    BY <1>2, <1>3, <1>4, <1>6, <2>2, FramedDrop
  <2> QED BY <1>2, <1>8, <2>1, <2>3, FramedNext DEF StreamIsFramed
<1> QED BY <1>9, <1>10, <1>11, <1>12

LEMMA OversizedKeepsFrames == ASSUME FrameInv, DecodeOversized PROVE FrameInv'
<1> USE DEF FrameInv
<1>1. /\ failed' = TRUE /\ sent' = sent /\ wire' = wire /\ decoded' = decoded
      /\ send_max' = send_max /\ recv_max' = recv_max /\ read_buf' = <<>>
  BY DEF DecodeOversized
<1>2. Len(decoded) < Len(sent) /\ Len(sent[Len(decoded) + 1]) > recv_max
  BY DecodingIs DEF DecodeOversized
<1>3. TypeOK' BY <1>1, EmptySeq DEF TypeOK
<1>4. DecodedWereSent' /\ LengthsFit' /\ StreamIsFramed'
  BY <1>1 DEF DecodedWereSent, LengthsFit, StreamIsFramed
<1>5. LimitIsExact' BY <1>1, <1>2 DEF LimitIsExact
<1> QED BY <1>3, <1>4, <1>5

LEMMA NextFrames == FrameInv /\ [Next]_vars => FrameInv'
<1> SUFFICES ASSUME FrameInv, [Next]_vars PROVE FrameInv' OBVIOUS
<1>1. CASE UNCHANGED vars
  <2>1. StreamIsFramed' BY <1>1, FramedNext DEF vars, FrameInv, StreamIsFramed
  <2>2. TypeOK' /\ DecodedWereSent' /\ LengthsFit' /\ LimitIsExact'
    BY <1>1 DEF vars, FrameInv, TypeOK, DecodedWereSent, LengthsFit, LimitIsExact
  <2> QED BY <2>1, <2>2 DEF FrameInv
<1> QED BY <1>1, SendKeepsFrames, ReceiveKeepsFrames, CompleteKeepsFrames, OversizedKeepsFrames
        DEF Next

(* Framing in every reachable state. *)
THEOREM FrameInvariant == Spec => []FrameInv
  BY InitFrames, NextFrames, PTL DEF Spec

(***************************************************************************)
(* A stream of frames is the encoding of its messages.                     *)
(***************************************************************************)
LEMMA PrefixElements ==
  ASSUME NEW S, NEW q \in Seq(S), NEW m \in Nat, m <= Len(q)
  PROVE  /\ SubSeq(q, 1, m) \in Seq(S) /\ Len(SubSeq(q, 1, m)) = m
         /\ \A i \in 1..m : SubSeq(q, 1, m)[i] = q[i]
<1>1. /\ SubSeq(q, 0 + 1, 0 + m) \in Seq(S) /\ Len(SubSeq(q, 0 + 1, 0 + m)) = m
      /\ \A i \in 1..m : SubSeq(q, 0 + 1, 0 + m)[i] = q[0 + i]
  BY SliceElements
<1>2. 0 + 1 = 1 /\ 0 + m = m /\ \A i \in 1..m : 0 + i = i OBVIOUS
<1> QED BY <1>1, <1>2

(* A prefix that ends with a frame is the encoding of one more message. *)
LEMMA OneFrameMore ==
  ASSUME NEW stream \in Seq(Bytes), NEW pos \in Nat, NEW payload \in Seq(Bytes),
         pos + HeaderLen + Len(payload) <= Len(stream), IsFrame(stream, pos, payload)
  PROVE  SubSeq(stream, 1, pos + HeaderLen + Len(payload))
           = AppendEncodedFrame(SubSeq(stream, 1, pos), payload)
<1> DEFINE before == SubSeq(stream, 1, pos)
           all == SubSeq(stream, 1, pos + HeaderLen + Len(payload))
<1>1. Len(stream) \in Nat /\ Len(payload) \in Nat /\ HeaderLen \in Nat
  BY LenProperties, FrameAssumption
<1>2. pos <= Len(stream) BY <1>1
<1>3. /\ before \in Seq(Bytes) /\ Len(before) = pos
      /\ \A i \in 1..pos : before[i] = stream[i]
  BY <1>2, PrefixElements
<1>4. PICK e \in Nat : e = pos + HeaderLen + Len(payload) BY <1>1
<1>5. /\ all \in Seq(Bytes) /\ Len(all) = e
      /\ \A i \in 1..e : all[i] = stream[i]
  BY <1>4, PrefixElements
<1> HIDE DEF before, all
<1>6. PICK header \in Seq(Bytes) : header = PushBe(Len(payload)) /\ Len(header) = HeaderLen
  BY <1>1, PushBeType
<1>7. PICK front \in Seq(Bytes) : /\ front = before \o header /\ Len(front) = pos + HeaderLen
                                  /\ \A i \in 1..pos : front[i] = before[i]
                                  /\ \A i \in 1..HeaderLen : front[pos + i] = header[i]
  <2>1. before \in Seq(Bytes) BY <1>3
  <2>2. /\ before \o header \in Seq(Bytes)
        /\ Len(before \o header) = Len(before) + Len(header)
        /\ \A i \in 1..Len(before) : (before \o header)[i] = before[i]
        /\ \A i \in 1..Len(header) : (before \o header)[Len(before) + i] = header[i]
    BY <2>1, ConcatElements
  <2> QED BY <1>3, <1>6, <2>2
<1>8. PICK whole \in Seq(Bytes) :
        /\ whole = front \o payload /\ Len(whole) = pos + HeaderLen + Len(payload)
        /\ \A i \in 1..(pos + HeaderLen) : whole[i] = front[i]
        /\ \A i \in 1..Len(payload) : whole[pos + HeaderLen + i] = payload[i]
  <2>1. /\ front \o payload \in Seq(Bytes)
        /\ Len(front \o payload) = Len(front) + Len(payload)
        /\ \A i \in 1..Len(front) : (front \o payload)[i] = front[i]
        /\ \A i \in 1..Len(payload) : (front \o payload)[Len(front) + i] = payload[i]
    BY ConcatElements
  <2>2. Len(front) = pos + HeaderLen BY <1>7
  <2> QED BY <2>1, <2>2
<1>9. ASSUME NEW i \in 1..e PROVE all[i] = whole[i]
  <2>1. CASE i \in 1..pos
    <3>1. i \in 1..(pos + HeaderLen) BY <1>1, <2>1
    <3>2. whole[i] = front[i] BY ONLY <1>8, <3>1
    <3>3. front[i] = before[i] BY ONLY <1>7, <2>1
    <3>4. before[i] = stream[i] BY ONLY <1>3, <2>1
    <3>5. all[i] = stream[i] BY <1>5
    <3> QED BY ONLY <3>2, <3>3, <3>4, <3>5
  <2>2. CASE i > pos /\ i <= pos + HeaderLen
    <3>1. PICK j \in 1..HeaderLen : i = pos + j
      <4>1. i - pos \in 1..HeaderLen /\ i = pos + (i - pos) BY <1>1, <2>2
      <4> QED BY <4>1
    <3>2. i \in 1..(pos + HeaderLen) BY <1>1, <2>2
    <3>3. all[i] = stream[pos + j] BY <1>5, <3>1
    <3>4. whole[i] = header[j] BY <1>7, <1>8, <3>1, <3>2
    <3>5. stream[pos + j] = header[j] BY <1>6, <3>1 DEF IsFrame
    <3> QED BY <3>3, <3>4, <3>5
  <2>3. CASE i > pos + HeaderLen
    <3>1. PICK j \in 1..Len(payload) : i = pos + HeaderLen + j
      <4>1. /\ i - (pos + HeaderLen) \in 1..Len(payload)
            /\ i = pos + HeaderLen + (i - (pos + HeaderLen))
        BY <1>1, <1>4, <2>3
      <4> QED BY <4>1
    <3> QED BY <1>5, <1>8, <3>1 DEF IsFrame
  <2> QED BY <1>1, <1>4, <2>1, <2>2, <2>3
<1>10. all = whole BY <1>4, <1>5, <1>8, <1>9, SeqEqual
<1> QED BY <1>6, <1>7, <1>8, <1>10 DEF AppendEncodedFrame, before, all

LEMMA FramedIsEncoding ==
  ASSUME NEW stream \in Seq(Bytes), NEW messages \in Seq(Seq(Bytes)),
         NEW first \in 0..Len(messages), NEW at, Framed(stream, first, messages, at)
  PROVE  stream = Encoding(SubSeq(messages, first + 1, Len(messages)))
<1>1. Len(messages) \in Nat /\ first \in Nat /\ Len(stream) \in Nat /\ HeaderLen \in Nat
  BY LenProperties, FrameAssumption
<1>2. PICK m \in Nat : m = Len(messages) - first /\ first + m = Len(messages) BY <1>1
<1>3. PICK rest \in Seq(Seq(Bytes)) :
        /\ rest = SubSeq(messages, first + 1, Len(messages)) /\ Len(rest) = m
        /\ \A k \in 1..m : rest[k] = messages[first + k]
  <2>1. /\ SubSeq(messages, first + 1, Len(messages)) \in Seq(Seq(Bytes))
        /\ Len(SubSeq(messages, first + 1, Len(messages))) = Len(messages) - first
        /\ \A k \in 1..(Len(messages) - first) :
              SubSeq(messages, first + 1, Len(messages))[k] = messages[first + k]
    BY SuffixElements
  <2> QED BY <1>2, <2>1
<1> DEFINE prefix == [k \in 0..m |-> SubSeq(stream, 1, at[first + k])]
           Is(f) == f = [k \in 0..Len(rest) |->
                           IF k = 0 THEN <<>> ELSE AppendEncodedFrame(f[k - 1], rest[k])]
           encoded[k \in 0..Len(rest)] ==
               IF k = 0 THEN <<>> ELSE AppendEncodedFrame(encoded[k - 1], rest[k])
<1>4. /\ \A k \in 0..m : at[first + k] \in Nat /\ at[first + k] <= Len(stream)
      /\ at[first] = 0 /\ at[first + m] = Len(stream)
  <2>1. \A k \in 0..m : first + k \in first..Len(messages) BY <1>1, <1>2
  <2>2. Len(messages) \in first..Len(messages) BY <1>1
  <2>3. \A j \in first..Len(messages) : at[j] \in Nat /\ at[j] <= Len(stream)
    <3>1. /\ at \in [first..Len(messages) -> Nat] /\ at[Len(messages)] = Len(stream)
          /\ \A j, k \in first..Len(messages) : j <= k => at[j] <= at[k]
      BY DEF Framed
    <3>2. \A j \in first..Len(messages) : j <= Len(messages) BY <1>1
    <3> QED BY <2>2, <3>1, <3>2
  <2>4. at[first] = 0 /\ at[first + m] = Len(stream) BY <1>2 DEF Framed
  <2> QED BY <2>1, <2>3, <2>4
<1>5. prefix[0] = <<>>
  <2>1. prefix[0] = SubSeq(stream, 1, 0) BY <1>1, <1>4
  <2>2. 1 \in Int /\ 0 \in Int /\ 0 < 1 OBVIOUS
  <2> QED BY <2>1, <2>2, SubSeqEmpty
<1>6. prefix[m] = stream BY <1>4, SubSeqFull
<1>7. ASSUME NEW k \in 1..m PROVE prefix[k] = AppendEncodedFrame(prefix[k - 1], rest[k])
  <2>1. /\ first + k \in (first + 1)..Len(messages) /\ (first + k) - 1 = first + (k - 1)
        /\ k - 1 \in 0..m /\ k \in 0..m /\ k \in 1..Len(rest)
    BY <1>1, <1>2, <1>3
  <2>2. PICK pos \in Nat : pos = at[first + (k - 1)] BY <1>4, <2>1
  <2>3. rest[k] = messages[first + k] /\ rest[k] \in Seq(Bytes)
    BY <1>3, <2>1, ElementOfSeq
  <2>4. at[first + k] = pos + HeaderLen + Len(rest[k]) /\ IsFrame(stream, pos, rest[k])
    BY <2>1, <2>2, <2>3 DEF Framed
  <2>5. prefix[k] = SubSeq(stream, 1, at[first + k]) /\ prefix[k - 1] = SubSeq(stream, 1, pos)
    BY <2>1, <2>2
  <2>6. at[first + k] <= Len(stream) BY <1>4, <2>1
  <2> HIDE DEF prefix
  <2> QED BY <2>3, <2>4, <2>5, <2>6, OneFrameMore
<1>8. Is(prefix)
  <2>1. prefix = [k \in 0..Len(rest) |-> prefix[k]] BY <1>3
  <2> HIDE DEF prefix
  <2>2. \A k \in 0..m : k # 0 => k \in 1..m BY <1>2
  <2>3. \A k \in 0..m : prefix[k] = IF k = 0 THEN <<>> ELSE AppendEncodedFrame(prefix[k - 1], rest[k])
    BY <1>5, <1>7, <2>2
  <2> QED BY <1>3, <2>1, <2>3
<1>9. encoded = CHOOSE f : Is(f) OBVIOUS
<1>10. Encoding(rest) = encoded[Len(rest)] BY DEF Encoding
<1> HIDE DEF encoded, prefix
<1>11. Is(encoded) BY <1>8, <1>9
<1>12. /\ encoded[0] = <<>>
       /\ \A k \in 1..m : encoded[k] = AppendEncodedFrame(encoded[k - 1], rest[k])
  <2>1. \A k \in 0..m :
          encoded[k] = IF k = 0 THEN <<>> ELSE AppendEncodedFrame(encoded[k - 1], rest[k])
    BY <1>3, <1>11
  <2>2. 0 \in 0..m /\ \A k \in 1..m : k \in 0..m /\ k # 0 BY <1>2
  <2> QED BY <2>1, <2>2
<1> HIDE DEF Is
<1>13. \A k \in 0..m : encoded[k] = prefix[k]
  <2> DEFINE bad == {k \in 0..m : encoded[k] # prefix[k]}
  <2> SUFFICES ASSUME bad # {} PROVE FALSE OBVIOUS
  <2>1. PICK k \in bad : \A j \in bad : k <= j
    <3>1. bad \in SUBSET Nat OBVIOUS
    <3> QED BY <3>1, Smallest
  <2>2. k # 0 BY <1>5, <1>12, <2>1
  <2>3. k - 1 \in 0..m /\ k - 1 \notin bad BY <2>1, <2>2
  <2>4. k \in 1..m BY <2>1, <2>2
  <2> QED BY <1>7, <1>12, <2>1, <2>3, <2>4
<1>14. m \in 0..m /\ Len(rest) = m BY <1>2, <1>3
<1>15. Encoding(rest) = stream BY <1>6, <1>10, <1>13, <1>14
<1> QED BY <1>3, <1>15

(***************************************************************************)
(* The theorems.                                                           *)
(***************************************************************************)
(* The variables of the stream keep their types; every byte of the length  *)
(* that push_be32 writes is a byte.                                        *)
THEOREM FrameTypes == Spec => []TypeOK
  BY FrameInvariant, PTL DEF FrameInv

(* The dispatcher sees the messages that were sent, complete, unchanged    *)
(* and in order, whatever the chunks receive_nonblocking gets.             *)
THEOREM MessagesAreIntact == Spec => []IntactInOrder
<1>1. FrameInv => IntactInOrder
  <2> SUFFICES ASSUME FrameInv PROVE IntactInOrder OBVIOUS
  <2>1. /\ sent \in Seq(Seq(Bytes)) /\ decoded \in Seq(Seq(Bytes))
        /\ Len(decoded) \in Nat /\ Len(decoded) <= Len(sent)
        /\ \A k \in 1..Len(decoded) : decoded[k] = sent[k]
    BY StreamTypes DEF FrameInv, TypeOK, DecodedWereSent
  <2>2. /\ SubSeq(sent, 1, Len(decoded)) \in Seq(Seq(Bytes))
        /\ Len(SubSeq(sent, 1, Len(decoded))) = Len(decoded)
        /\ \A k \in 1..Len(decoded) : SubSeq(sent, 1, Len(decoded))[k] = sent[k]
    BY <2>1, PrefixElements
  <2>3. decoded = SubSeq(sent, 1, Len(decoded)) BY <2>1, <2>2, SeqEqual
  <2>4. decoded = SubSeq(decoded, 1, Len(decoded)) BY <2>1, SubSeqFull
  <2> QED BY <2>1, <2>3, <2>4 DEF IntactInOrder, IsPrefix
<1> QED BY <1>1, FrameInvariant, PTL

(* What is buffered and on the wire is the encoding of the messages not    *)
(* decoded yet: consume_read never loses a frame boundary.                 *)
THEOREM BoundariesAreKept == Spec => []StreamIsTheRest
<1>1. FrameInv => StreamIsTheRest
  <2> SUFFICES ASSUME FrameInv, ~failed
               PROVE  read_buf \o wire = Encoding(SubSeq(sent, Len(decoded) + 1, Len(sent)))
    BY DEF StreamIsTheRest
  <2>1. /\ read_buf \o wire \in Seq(Bytes) /\ sent \in Seq(Seq(Bytes))
        /\ Len(decoded) \in 0..Len(sent)
    BY StreamTypes DEF FrameInv, DecodedWereSent
  <2>2. PICK at : Framed(read_buf \o wire, Len(decoded), sent, at)
    BY DEF FrameInv, StreamIsFramed
  <2> QED BY <2>1, <2>2, FramedIsEncoding
<1> QED BY <1>1, FrameInvariant, PTL

(* When everything sent has arrived and try_decode_frame reports           *)
(* Incomplete, everything was decoded.                                     *)
THEOREM FramesDoNotWait == Spec => []NoFrameWaits
<1>1. FrameInv => NoFrameWaits
  <2> SUFFICES ASSUME FrameInv, ~failed, wire = <<>>, Decoding.status = "Incomplete"
               PROVE  decoded = sent
    BY DEF NoFrameWaits
  <2>1. /\ sent \in Seq(Seq(Bytes)) /\ read_buf \in Seq(Bytes) /\ wire \in Seq(Bytes)
        /\ decoded \in Seq(Seq(Bytes)) /\ Len(decoded) \in Nat /\ Len(sent) \in Nat
        /\ Len(decoded) \in 0..Len(sent) /\ Len(read_buf) \in Nat /\ HeaderLen \in Nat
        /\ \A k \in 1..Len(decoded) : decoded[k] = sent[k]
    BY StreamTypes DEF FrameInv, TypeOK, DecodedWereSent
  <2>2. PICK at : Framed(read_buf \o wire, Len(decoded), sent, at)
    BY DEF FrameInv, StreamIsFramed
  <2>3. ASSUME Len(decoded) < Len(sent) PROVE FALSE
    <3>1. PICK next : next = sent[Len(decoded) + 1] OBVIOUS
    <3>2. Len(read_buf) < HeaderLen + Len(next) BY <2>3, <3>1, DecodingIs
    <3>3. \A k \in 1..Len(sent) : Len(sent[k]) <= LengthLimit BY DEF FrameInv, LengthsFit
    <3>4. Len(next) \in Nat /\ HeaderLen + Len(next) <= Len(read_buf) + Len(wire)
      BY <2>1, <2>2, <2>3, <3>1, <3>3, FirstFrame
    <3>5. Len(wire) = 0 BY EmptySeq
    <3> QED BY <2>1, <3>2, <3>4, <3>5
  <2>4. Len(decoded) = Len(sent) BY <2>1, <2>3
  <2> QED BY <2>1, <2>4, SeqEqual
<1> QED BY <1>1, FrameInvariant, PTL

(* The receiver's limit is exact: no payload beyond it reaches the         *)
(* dispatcher, and a connection is given up only for a message beyond it,  *)
(* after everything before it was decoded.                                 *)
THEOREM LimitIsKept == Spec => []LimitIsExact
  BY FrameInvariant, PTL DEF FrameInv

=============================================================================
