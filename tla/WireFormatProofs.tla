--------------------------- MODULE WireFormatProofs ---------------------------
(***************************************************************************)
(* The encoding of a message is injective, and so are the seeds of the     *)
(* addresses, for every width of the numbers and every limit on the        *)
(* fields.  Neither has a separator: both rest on parts of a known length  *)
(* in front, so an equality of concatenations can be taken apart from the  *)
(* left.  That the bytes of a number determine it is proved by induction   *)
(* over its width, from the highest byte down.                             *)
(***************************************************************************)
EXTENDS WireFormat, SequenceTheorems, WellFoundedInduction, TLAPS

Encodings == Seq(Byte)

\* Concatenation under a name, so that the provers do not expand it.
Join(u, v) == u \o v

-----------------------------------------------------------------------------
(* Concatenation *)

\* Concatenations with first parts of one length are equal only part by part.
LEMMA PartsEqual ==
  ASSUME NEW S, NEW u \in Seq(S), NEW v \in Seq(S), NEW r \in Seq(S), NEW s \in Seq(S),
         Len(u) = Len(v), u \o r = v \o s
  PROVE  u = v /\ r = s
<1>1. /\ Len(u \o r) = Len(u) + Len(r)
      /\ \A i \in 1 .. Len(u) + Len(r) :
           (u \o r)[i] = IF i <= Len(u) THEN u[i] ELSE r[i - Len(u)]
  BY ConcatProperties
<1>2. /\ Len(v \o s) = Len(v) + Len(s)
      /\ \A i \in 1 .. Len(v) + Len(s) :
           (v \o s)[i] = IF i <= Len(v) THEN v[i] ELSE s[i - Len(v)]
  BY ConcatProperties
<1>3. Len(u) \in Nat /\ Len(r) \in Nat /\ Len(s) \in Nat /\ Len(r) = Len(s)
  BY <1>1, <1>2
<1>4. \A i \in 1 .. Len(u) : u[i] = v[i]
  BY <1>1, <1>2, <1>3
<1>5. u = v
  BY <1>4, SeqEqual
<1> QED
  BY <1>3, <1>5, ConcatSimplifications

\* The same for the parts of an encoding.
LEMMA JoinInjective ==
  \A u, v, r, s \in Encodings :
    Len(u) = Len(v) /\ Join(u, r) = Join(v, s) => u = v /\ r = s
BY PartsEqual DEF Encodings, Join

\* Parts of an encoding can be put together,
LEMMA JoinTyped == \A u, d \in Encodings : Join(u, d) \in Encodings
BY ConcatProperties DEF Encodings, Join

\* and in any order.
LEMMA JoinAssociative ==
  \A u, d, r \in Encodings : Join(Join(u, d), r) = Join(u, Join(d, r))
BY ConcatAssociative DEF Encodings, Join

\* Nothing is an encoding too.
LEMMA JoinNothing == <<>> \in Encodings /\ \A u \in Encodings : Join(u, <<>>) = u
BY ConcatEmptySeq DEF Encodings, Join

-----------------------------------------------------------------------------
(* Numbers *)

\* Induction over the numbers up to a limit, for the members of a set.
LEMMA UpTo ==
  ASSUME NEW limit \in Nat, NEW T, 0 \in T, \A i \in 1 .. limit : i - 1 \in T => i \in T
  PROVE  0 .. limit \subseteq T
<1> DEFINE Less    == {pair \in Nat \X Nat : pair[1] < pair[2]}
           Missing == (0 .. limit) \ T
<1>1. IsWellFoundedOn(Less, Nat)
  BY NatLessThanWellFounded DEF OpToRel
<1>2. SUFFICES ASSUME Missing # {} PROVE FALSE
  OBVIOUS
<1>3. PICK i \in Missing : \A j \in Missing : ~ (<<j, i>> \in Less)
  <2>1. Missing \subseteq Nat
    OBVIOUS
  <2> HIDE DEF Less, Missing
  <2> QED
    BY <1>1, <1>2, <2>1, WFMin
<1>4. i \in 1 .. limit /\ i - 1 \in 0 .. limit
  OBVIOUS
<1>5. i - 1 \in T
  <2>1. <<i - 1, i>> \in Less
    BY <1>4
  <2>2. i - 1 \notin Missing
    BY <1>3, <2>1
  <2> QED
    BY <1>4, <2>2
<1> QED
  BY <1>4, <1>5

\* The recursion that shifts a number is well founded.
LEMMA ShiftedExists ==
  ASSUME NEW n \in Nat, NEW width \in Nat
  PROVE  Shifted(n, width) =
           [i \in 0 .. width |-> IF i = 0 THEN n ELSE Shifted(n, width)[i - 1] \div 256]
<1> DEFINE Unfolds(rest, D) == rest = [i \in D |-> IF i = 0 THEN n ELSE rest[i - 1] \div 256]
           T == {limit \in Nat : \E rest : Unfolds(rest, 0 .. limit)}
<1>1. 0 \in T
  <2>1. Unfolds([i \in 0 .. 0 |-> n], 0 .. 0)
    OBVIOUS
  <2> QED
    BY <2>1
<1>2. ASSUME NEW limit \in 1 .. width, limit - 1 \in T
      PROVE  limit \in T
  <2>1. PICK rest : Unfolds(rest, 0 .. limit - 1)
    BY <1>2
  <2> DEFINE longer == [i \in 0 .. limit |-> IF i = 0 THEN n ELSE rest[i - 1] \div 256]
  <2>2. \A i \in 0 .. limit - 1 : longer[i] = rest[i]
    BY <2>1
  <2>3. \A i \in 0 .. limit : i # 0 => longer[i] = longer[i - 1] \div 256
    <3>1. \A i \in 0 .. limit : i # 0 => i - 1 \in 0 .. limit - 1
      OBVIOUS
    <3>2. \A i \in 0 .. limit : i # 0 => longer[i] = rest[i - 1] \div 256
      OBVIOUS
    <3> HIDE DEF longer
    <3> QED
      BY <2>2, <3>1, <3>2
  <2>4. Unfolds(longer, 0 .. limit)
    <3>1. longer[0] = n
      OBVIOUS
    <3>2. longer = [i \in 0 .. limit |-> longer[i]]
      OBVIOUS
    <3> HIDE DEF longer
    <3>3. \A i \in 0 .. limit : longer[i] = IF i = 0 THEN n ELSE longer[i - 1] \div 256
      BY <2>3, <3>1
    <3> QED
      BY <3>2, <3>3
  <2> HIDE DEF longer, Unfolds
  <2> QED
    BY <2>4
<1>3. width \in T
  <2> HIDE DEF T
  <2>1. 0 .. width \subseteq T
    BY <1>1, <1>2, UpTo
  <2> QED
    BY <2>1
<1>4. \E rest : Unfolds(rest, 0 .. width)
  BY <1>3
<1>5. Unfolds(Shifted(n, width), 0 .. width)
  BY <1>4 DEF Shifted
<1> QED
  BY <1>5

\* What shifting leaves, byte by byte.
LEMMA ShiftedSteps ==
  ASSUME NEW n \in Nat, NEW width \in Nat
  PROVE  /\ Shifted(n, width)[0] = n
         /\ \A i \in 0 .. width : Shifted(n, width)[i] \in Nat
         /\ \A i \in 1 .. width : Shifted(n, width)[i] = Shifted(n, width)[i - 1] \div 256
<1> DEFINE rest == Shifted(n, width)
           T == {i \in Nat : rest[i] \in Nat}
<1>1. rest = [i \in 0 .. width |-> IF i = 0 THEN n ELSE rest[i - 1] \div 256]
  BY ShiftedExists
<1> HIDE DEF rest
<1>2. rest[0] = n /\ \A i \in 1 .. width : rest[i] = rest[i - 1] \div 256
  BY <1>1
<1>3. 0 \in T /\ \A i \in 1 .. width : i - 1 \in T => i \in T
  BY <1>2
<1>4. 0 .. width \subseteq T
  <2> HIDE DEF T
  <2> QED
    BY <1>3, UpTo
<1> QED
  BY <1>2, <1>4 DEF rest

\* A number is written with as many bytes as its width says.
LEMMA DigitsTyped ==
  ASSUME NEW n \in Nat, NEW width \in Nat
  PROVE  /\ LittleEndian(n, width) \in Encodings
         /\ Len(LittleEndian(n, width)) = width
<1>1. \A i \in 1 .. width : Shifted(n, width)[i - 1] % 256 \in Byte
  <2>1. \A i \in 1 .. width : Shifted(n, width)[i - 1] \in Nat
    BY ShiftedSteps
  <2>2. \A x \in Nat : x % 256 \in Byte
    BY DEF Byte
  <2> QED
    BY <2>1, <2>2
<1>2. LittleEndian(n, width) \in [1 .. width -> Byte]
  BY <1>1 DEF LittleEndian
<1> QED
  BY <1>2 DEF Encodings

\* Two numbers that fit are written alike only when they are equal: nothing is
\* left of either after the last byte, and before each byte they agreed if they
\* agree after it.
LEMMA DigitsDetermine ==
  ASSUME NEW width \in Nat, NEW a \in Unsigned(width), NEW b \in Unsigned(width),
         LittleEndian(a, width) = LittleEndian(b, width)
  PROVE  a = b
<1> DEFINE A == Shifted(a, width)
           B == Shifted(b, width)
           T == {j \in Nat : A[width - j] = B[width - j]}
<1>1. a \in Nat /\ b \in Nat /\ A[width] = 0 /\ B[width] = 0
  BY DEF Unsigned
<1>2. /\ A[0] = a /\ B[0] = b
      /\ \A i \in 0 .. width : A[i] \in Nat /\ B[i] \in Nat
      /\ \A i \in 1 .. width : A[i] = A[i - 1] \div 256 /\ B[i] = B[i - 1] \div 256
  BY <1>1, ShiftedSteps
<1>3. \A i \in 1 .. width : A[i - 1] % 256 = B[i - 1] % 256
  <2>1. ASSUME NEW i \in 1 .. width
        PROVE  A[i - 1] % 256 = B[i - 1] % 256
    <3>1. LittleEndian(a, width)[i] = A[i - 1] % 256 /\ LittleEndian(b, width)[i] = B[i - 1] % 256
      BY DEF LittleEndian
    <3> QED
      BY <3>1
  <2> QED
    BY <2>1
<1> HIDE DEF A, B
<1>4. 0 \in T
  BY <1>1
<1>5. ASSUME NEW j \in 1 .. width, j - 1 \in T
      PROVE  j \in T
  <2>1. PICK i \in 1 .. width : i = width - (j - 1)
    OBVIOUS
  <2>2. A[i] = B[i] /\ i - 1 = width - j /\ i - 1 \in 0 .. width
    BY <1>5, <2>1
  <2>3. A[i - 1] \div 256 = B[i - 1] \div 256 /\ A[i - 1] % 256 = B[i - 1] % 256
    BY <1>2, <1>3, <2>2
  <2>4. \A x, y \in Nat : x \div 256 = y \div 256 /\ x % 256 = y % 256 => x = y
    OBVIOUS
  <2>5. A[i - 1] = B[i - 1]
    BY <1>2, <2>2, <2>3, <2>4
  <2> QED
    BY <2>2, <2>5
<1>6. width \in T
  <2> HIDE DEF T
  <2>1. 0 .. width \subseteq T
    BY <1>4, <1>5, UpTo
  <2> QED
    BY <2>1
<1>7. A[0] = B[0]
  BY <1>6
<1> QED
  BY <1>2, <1>7

\* This is so at each of the widths in use.
LEMMA NumbersDiffer ==
  ASSUME NEW width \in {TxIdBytes, ChainIdBytes, LengthBytes},
         NEW a \in Unsigned(width), NEW b \in Unsigned(width),
         LittleEndian(a, width) = LittleEndian(b, width)
  PROVE  a = b
<1>1. width \in Nat
  BY WidthsAssumption
<1> QED
  BY <1>1, DigitsDetermine

\* A number below one that fits, fits too.
LEMMA SmallerFits ==
  ASSUME NEW width \in Nat, NEW limit \in Unsigned(width), NEW n \in Nat, n <= limit
  PROVE  n \in Unsigned(width)
<1> DEFINE A == Shifted(n, width)
           B == Shifted(limit, width)
           T == {i \in Nat : A[i] <= B[i]}
<1>1. limit \in Nat /\ B[width] = 0
  BY DEF Unsigned
<1>2. /\ A[0] = n /\ B[0] = limit
      /\ \A i \in 0 .. width : A[i] \in Nat /\ B[i] \in Nat
      /\ \A i \in 1 .. width : A[i] = A[i - 1] \div 256 /\ B[i] = B[i - 1] \div 256
  BY <1>1, ShiftedSteps
<1> HIDE DEF A, B
<1>3. 0 \in T
  BY <1>2
<1>4. ASSUME NEW i \in 1 .. width, i - 1 \in T
      PROVE  i \in T
  <2>1. \A x, y \in Nat : x <= y => x \div 256 <= y \div 256
    OBVIOUS
  <2>2. i - 1 \in 0 .. width
    OBVIOUS
  <2> QED
    BY <1>2, <1>4, <2>1, <2>2
<1>5. width \in T
  <2> HIDE DEF T
  <2>1. 0 .. width \subseteq T
    BY <1>3, <1>4, UpTo
  <2> QED
    BY <2>1
<1>6. A[width] = 0
  <2>1. A[width] \in Nat /\ A[width] <= 0
    BY <1>1, <1>2, <1>5
  <2> QED
    BY <2>1
<1> QED
  BY <1>6 DEF Unsigned, A

-----------------------------------------------------------------------------
(* Numbers and fields *)

\* A number can be taken off the front of an encoding.
LEMMA NumbersEqual ==
  ASSUME NEW width \in {TxIdBytes, ChainIdBytes, LengthBytes},
         NEW a \in Unsigned(width), NEW b \in Unsigned(width),
         NEW r \in Encodings, NEW s \in Encodings,
         Join(LittleEndian(a, width), r) = Join(LittleEndian(b, width), s)
  PROVE  a = b /\ r = s
<1>1. a \in Nat /\ b \in Nat /\ width \in Nat
  BY WidthsAssumption DEF Unsigned
<1>2. LittleEndian(a, width) = LittleEndian(b, width) /\ r = s
  BY <1>1, DigitsTyped, JoinInjective
<1> QED
  BY <1>2, NumbersDiffer

\* The type of a field with its length in front.
LEMMA PrefixedTyped ==
  ASSUME NEW data \in Seq(Byte)
  PROVE  /\ data \in Encodings
         /\ Len(data) \in Nat
         /\ LittleEndian(Len(data), LengthBytes) \in Encodings
         /\ LengthPrefixed(data) \in Encodings
<1>1. data \in Encodings /\ Len(data) \in Nat
  BY SeqMonotonic DEF Encodings
<1>2. LittleEndian(Len(data), LengthBytes) \in Encodings
  BY <1>1, DigitsTyped, WidthsAssumption
<1> QED
  BY <1>1, <1>2, JoinTyped DEF LengthPrefixed, Join

\* A field can be taken off the front of an encoding: its length says where it ends.
LEMMA FieldsEqual ==
  ASSUME NEW d \in Seq(Byte), NEW e \in Seq(Byte),
         Len(d) \in Unsigned(LengthBytes), Len(e) \in Unsigned(LengthBytes),
         NEW r \in Encodings, NEW s \in Encodings,
         Join(LengthPrefixed(d), r) = Join(LengthPrefixed(e), s)
  PROVE  d = e /\ r = s
<1> DEFINE u == LittleEndian(Len(d), LengthBytes)
           v == LittleEndian(Len(e), LengthBytes)
<1>1. d \in Encodings /\ e \in Encodings /\ u \in Encodings /\ v \in Encodings
  BY PrefixedTyped
<1>2. LengthPrefixed(d) = Join(u, d) /\ LengthPrefixed(e) = Join(v, e)
  BY DEF LengthPrefixed, Join
<1>3. Join(u, Join(d, r)) = Join(v, Join(e, s))
  <2> HIDE DEF u, v
  <2> QED
    BY <1>1, <1>2, JoinAssociative
<1>4. Len(d) = Len(e) /\ Join(d, r) = Join(e, s)
  BY <1>1, <1>3, JoinTyped, NumbersEqual
<1> QED
  BY <1>1, <1>4, JoinInjective

\* A field that ends an encoding.
LEMMA LastFieldsEqual ==
  ASSUME NEW d \in Seq(Byte), NEW e \in Seq(Byte),
         Len(d) \in Unsigned(LengthBytes), Len(e) \in Unsigned(LengthBytes),
         LengthPrefixed(d) = LengthPrefixed(e)
  PROVE  d = e
<1>1. Join(LengthPrefixed(d), <<>>) = Join(LengthPrefixed(e), <<>>)
  OBVIOUS
<1> QED
  BY <1>1, JoinNothing, FieldsEqual

-----------------------------------------------------------------------------
(* Messages *)

\* The parts of a message that the SDK can encode are numbers that fit and
\* fields whose lengths fit.
LEMMA PartsTyped ==
  ASSUME NEW m \in CrossChainMessages, SdkEncodes(m)
  PROVE  /\ m.txId \in Unsigned(TxIdBytes)
         /\ m.source \in Unsigned(ChainIdBytes)
         /\ m.dest \in Unsigned(ChainIdBytes)
         /\ \A data \in {m.sender, m.recipient, m.onChainData, m.offChainData} :
              data \in Seq(Byte) /\ Len(data) \in Unsigned(LengthBytes)
BY DEF CrossChainMessages, SdkEncodes, IsTyped

\* An encoding, joined from the right.
LEMMA EncodedFromTheRight ==
  ASSUME NEW m \in CrossChainMessages, SdkEncodes(m)
  PROVE  /\ Encoded(m) =
              Join(LittleEndian(m.txId, TxIdBytes),
                Join(LittleEndian(m.source, ChainIdBytes),
                  Join(LittleEndian(m.dest, ChainIdBytes),
                    Join(LengthPrefixed(m.sender),
                      Join(LengthPrefixed(m.recipient),
                        Join(LengthPrefixed(m.onChainData), LengthPrefixed(m.offChainData)))))))
         /\ LittleEndian(m.txId, TxIdBytes) \in Encodings
         /\ LittleEndian(m.source, ChainIdBytes) \in Encodings
         /\ LittleEndian(m.dest, ChainIdBytes) \in Encodings
         /\ LengthPrefixed(m.sender) \in Encodings
         /\ LengthPrefixed(m.recipient) \in Encodings
         /\ LengthPrefixed(m.onChainData) \in Encodings
         /\ LengthPrefixed(m.offChainData) \in Encodings
<1>1. /\ m.txId \in Nat /\ m.source \in Nat /\ m.dest \in Nat
      /\ TxIdBytes \in Nat /\ ChainIdBytes \in Nat
  BY WidthsAssumption DEF CrossChainMessages
<1>2. PICK a \in Encodings : a = LittleEndian(m.txId, TxIdBytes)
  BY <1>1, DigitsTyped
<1>3. PICK b \in Encodings : b = LittleEndian(m.source, ChainIdBytes)
  BY <1>1, DigitsTyped
<1>4. PICK c \in Encodings : c = LittleEndian(m.dest, ChainIdBytes)
  BY <1>1, DigitsTyped
<1>5. PICK d \in Encodings : d = LengthPrefixed(m.sender)
  BY PrefixedTyped DEF CrossChainMessages
<1>6. PICK e \in Encodings : e = LengthPrefixed(m.recipient)
  BY PrefixedTyped DEF CrossChainMessages
<1>7. PICK f \in Encodings : f = LengthPrefixed(m.onChainData)
  BY PrefixedTyped DEF CrossChainMessages
<1>8. PICK g \in Encodings : g = LengthPrefixed(m.offChainData)
  BY PrefixedTyped DEF CrossChainMessages
<1>9. Encoded(m) = Join(Join(Join(Join(Join(Join(a, b), c), d), e), f), g)
  BY <1>2, <1>3, <1>4, <1>5, <1>6, <1>7, <1>8 DEF Encoded, Join
<1>10. Encoded(m) = Join(a, Join(b, Join(c, Join(d, Join(e, Join(f, g))))))
  <2> DEFINE fg    == Join(f, g)
             efg   == Join(e, fg)
             defg  == Join(d, efg)
             cdefg == Join(c, defg)
  <2>1. fg \in Encodings /\ efg \in Encodings /\ defg \in Encodings /\ cdefg \in Encodings
    BY JoinTyped
  <2>2. PICK ab \in Encodings : ab = Join(a, b)
    BY JoinTyped
  <2>3. PICK abc \in Encodings : abc = Join(ab, c)
    BY JoinTyped
  <2>4. PICK abcd \in Encodings : abcd = Join(abc, d)
    BY JoinTyped
  <2>5. PICK abcde \in Encodings : abcde = Join(abcd, e)
    BY JoinTyped
  <2>6. Encoded(m) = Join(abcde, fg)
    BY <1>9, <2>2, <2>3, <2>4, <2>5, JoinAssociative
  <2>7. Join(abcde, fg) = Join(abcd, efg)
    BY <2>1, <2>5, JoinAssociative
  <2>8. Join(abcd, efg) = Join(abc, defg)
    BY <2>1, <2>4, JoinAssociative
  <2>9. Join(abc, defg) = Join(ab, cdefg)
    BY <2>1, <2>3, JoinAssociative
  <2>10. Join(ab, cdefg) = Join(a, Join(b, cdefg))
    BY <2>1, <2>2, JoinAssociative
  <2> QED
    BY <2>6, <2>7, <2>8, <2>9, <2>10
<1> QED
  BY <1>2, <1>3, <1>4, <1>5, <1>6, <1>7, <1>8, <1>10

\* A message is its seven parts.
LEMMA MessagesEqual ==
  ASSUME NEW m \in CrossChainMessages, NEW n \in CrossChainMessages,
         m.txId = n.txId, m.source = n.source, m.dest = n.dest,
         m.sender = n.sender, m.recipient = n.recipient,
         m.onChainData = n.onChainData, m.offChainData = n.offChainData
  PROVE  m = n
<1> DEFINE Copy(x) ==
  [txId |-> x.txId, source |-> x.source, dest |-> x.dest, sender |-> x.sender,
   recipient |-> x.recipient, onChainData |-> x.onChainData, offChainData |-> x.offChainData]
<1>1. m = Copy(m)
  BY DEF CrossChainMessages
<1>2. n = Copy(n)
  BY DEF CrossChainMessages
<1> QED
  BY <1>1, <1>2

\* Two different messages never have one hash: where a field ends is told by
\* its length in front, and the numbers have their widths (hash.rs:45).
THEOREM EncodingInjective ==
  ASSUME NEW m \in CrossChainMessages, SdkEncodes(m),
         NEW n \in CrossChainMessages, SdkEncodes(n),
         Encoded(m) = Encoded(n)
  PROVE  m = n
<1> DEFINE tail6(x) == Join(LengthPrefixed(x.onChainData), LengthPrefixed(x.offChainData))
           tail5(x) == Join(LengthPrefixed(x.recipient), tail6(x))
           tail4(x) == Join(LengthPrefixed(x.sender), tail5(x))
           tail3(x) == Join(LittleEndian(x.dest, ChainIdBytes), tail4(x))
           tail2(x) == Join(LittleEndian(x.source, ChainIdBytes), tail3(x))
           tail1(x) == Join(LittleEndian(x.txId, TxIdBytes), tail2(x))
<1>1. ASSUME NEW x \in CrossChainMessages, SdkEncodes(x)
      PROVE  /\ tail6(x) \in Encodings /\ tail5(x) \in Encodings /\ tail4(x) \in Encodings
             /\ tail3(x) \in Encodings /\ tail2(x) \in Encodings
             /\ tail1(x) = Encoded(x)
  BY <1>1, EncodedFromTheRight, JoinTyped
<1>2. tail1(m) = tail1(n)
  BY <1>1
<1>3. m.txId = n.txId /\ tail2(m) = tail2(n)
  <2> HIDE DEF tail2
  <2> QED
    BY <1>1, <1>2, PartsTyped, NumbersEqual
<1>4. m.source = n.source /\ tail3(m) = tail3(n)
  <2> HIDE DEF tail3
  <2> QED
    BY <1>1, <1>3, PartsTyped, NumbersEqual
<1>5. m.dest = n.dest /\ tail4(m) = tail4(n)
  <2> HIDE DEF tail4
  <2> QED
    BY <1>1, <1>4, PartsTyped, NumbersEqual
<1>6. m.sender = n.sender /\ tail5(m) = tail5(n)
  <2> HIDE DEF tail5
  <2> QED
    BY <1>1, <1>5, PartsTyped, FieldsEqual
<1>7. m.recipient = n.recipient /\ tail6(m) = tail6(n)
  <2> HIDE DEF tail6
  <2> QED
    BY <1>1, <1>6, PartsTyped, FieldsEqual
<1>8. m.onChainData = n.onChainData /\ LengthPrefixed(m.offChainData) = LengthPrefixed(n.offChainData)
  BY <1>7, PartsTyped, EncodedFromTheRight, FieldsEqual
<1>9. m.offChainData = n.offChainData
  BY <1>8, PartsTyped, LastFieldsEqual
<1>10. /\ m.txId = n.txId /\ m.source = n.source /\ m.dest = n.dest
       /\ m.sender = n.sender /\ m.recipient = n.recipient
       /\ m.onChainData = n.onChainData /\ m.offChainData = n.offChainData
  BY <1>3, <1>4, <1>5, <1>6, <1>7, <1>8, <1>9
<1> QED
  BY <1>10, MessagesEqual

\* The SDK and the program hash the same bytes.
THEOREM HashesAgree == \A m : SdkEncoded(m) = Encoded(m)
BY DEF SdkEncoded, Encoded

\* What the program accepts, the SDK can encode.
LEMMA HashableEncodes ==
  ASSUME NEW m \in CrossChainMessages, IsTyped(m), WithinLimits(m)
  PROVE  SdkEncodes(m)
<1>1. LengthBytes \in Nat
  BY WidthsAssumption
<1>2. \A limit \in Unsigned(LengthBytes), n \in Nat : n <= limit => n \in Unsigned(LengthBytes)
  BY <1>1, SmallerFits
<1>3. /\ Len(m.sender) \in Nat /\ Len(m.recipient) \in Nat
      /\ Len(m.onChainData) \in Nat /\ Len(m.offChainData) \in Nat
  BY DEF CrossChainMessages
<1> QED
  BY <1>2, <1>3, WidthsAssumption DEF SdkEncodes, WithinLimits

-----------------------------------------------------------------------------
(* Addresses *)

\* The seed strings are encodings, each with a first letter of its own.
LEMMA SeedsTyped ==
  /\ GatewaySeed \in Encodings /\ Len(GatewaySeed) = 7 /\ GatewaySeed[1] = 103
  /\ CounterSeed \in Encodings /\ Len(CounterSeed) = 7 /\ CounterSeed[1] = 99
  /\ SignerRegistrySeed \in Encodings /\ Len(SignerRegistrySeed) = 15 /\ SignerRegistrySeed[1] = 115
  /\ TxSeed \in Encodings /\ Len(TxSeed) = 2 /\ TxSeed[1] = 116
<1> USE DEF Encodings, Byte
<1>1. GatewaySeed \in Encodings /\ Len(GatewaySeed) = 7 /\ GatewaySeed[1] = 103
  BY DEF GatewaySeed
<1>2. CounterSeed \in Encodings /\ Len(CounterSeed) = 7 /\ CounterSeed[1] = 99
  BY DEF CounterSeed
<1>3. /\ SignerRegistrySeed \in Encodings
      /\ Len(SignerRegistrySeed) = 15
      /\ SignerRegistrySeed[1] = 115
  BY DEF SignerRegistrySeed
<1>4. TxSeed \in Encodings /\ Len(TxSeed) = 2 /\ TxSeed[1] = 116
  BY DEF TxSeed
<1> QED
  BY <1>1, <1>2, <1>3, <1>4

\* A concatenation begins with what its first part begins with.
LEMMA JoinFirst ==
  ASSUME NEW u \in Encodings, NEW r \in Encodings, NEW letter, u[1] = letter,
         Len(u) \in Nat \ {0}
  PROVE  /\ Join(u, r) \in Encodings
         /\ Join(u, r)[1] = letter
         /\ Len(Join(u, r)) \in Nat \ {0}
<1>1. u \in Seq(Byte) /\ r \in Seq(Byte)
  BY DEF Encodings
<1>2. /\ Len(u \o r) = Len(u) + Len(r)
      /\ \A i \in 1 .. Len(u) + Len(r) :
           (u \o r)[i] = IF i <= Len(u) THEN u[i] ELSE r[i - Len(u)]
  BY <1>1, ConcatProperties
<1>3. Len(r) \in Nat
  BY <1>1
<1>4. (u \o r)[1] = letter /\ Len(u \o r) \in Nat \ {0}
  BY <1>2, <1>3
<1> QED
  BY <1>4, JoinTyped DEF Join

\* A discriminant is one byte and tells the types apart.
LEMMA DiscriminantsDiffer ==
  /\ \A type \in RegistryKinds :
       <<Discriminant(type)>> \in Encodings /\ Len(<<Discriminant(type)>>) = 1
  /\ \A t, u \in RegistryKinds : <<Discriminant(t)>> = <<Discriminant(u)>> => t = u
<1>1. Discriminant("via") = 0 /\ Discriminant("chain") = 1 /\ Discriminant("project") = 2
  BY DEF Discriminant
<1>2. ASSUME NEW n \in {0, 1, 2}
      PROVE  <<n>> \in Encodings /\ Len(<<n>>) = 1
  BY DEF Encodings, Byte
<1> QED
  BY <1>1, <1>2 DEF RegistryKinds

\* The bytes of a chain id.
LEMMA ChainsTyped ==
  ASSUME NEW c \in Unsigned(ChainIdBytes)
  PROVE  /\ LittleEndian(c, ChainIdBytes) \in Encodings
         /\ Len(LittleEndian(c, ChainIdBytes)) = ChainIdBytes
<1>1. c \in Nat /\ ChainIdBytes \in Nat
  BY WidthsAssumption DEF Unsigned
<1> QED
  BY <1>1, DigitsTyped

\* The bytes of a tx_id.
LEMMA TxIdsTyped ==
  ASSUME NEW t \in Unsigned(TxIdBytes)
  PROVE  LittleEndian(t, TxIdBytes) \in Encodings
<1>1. t \in Nat /\ TxIdBytes \in Nat
  BY WidthsAssumption DEF Unsigned
<1> QED
  BY <1>1, DigitsTyped

\* The first letter of seeds that begin with a seed string.
LEMMA FirstLetters ==
  ASSUME NEW u \in Encodings, NEW v \in Encodings
  PROVE  /\ Join(GatewaySeed, u)[1] = 103
         /\ Join(CounterSeed, u)[1] = 99
         /\ Join(Join(SignerRegistrySeed, u), v)[1] = 115
         /\ Join(Join(TxSeed, u), v)[1] = 116
<1>1. /\ Join(SignerRegistrySeed, u) \in Encodings
      /\ Join(SignerRegistrySeed, u)[1] = 115
      /\ Len(Join(SignerRegistrySeed, u)) \in Nat \ {0}
  BY SeedsTyped, JoinFirst
<1>2. /\ Join(TxSeed, u) \in Encodings
      /\ Join(TxSeed, u)[1] = 116
      /\ Len(Join(TxSeed, u)) \in Nat \ {0}
  BY SeedsTyped, JoinFirst
<1>3. Join(GatewaySeed, u)[1] = 103
  BY SeedsTyped, JoinFirst
<1>4. Join(CounterSeed, u)[1] = 99
  BY SeedsTyped, JoinFirst
<1>5. Join(Join(SignerRegistrySeed, u), v)[1] = 115
  BY <1>1, JoinFirst
<1>6. Join(Join(TxSeed, u), v)[1] = 116
  BY <1>2, JoinFirst
<1> QED
  BY <1>3, <1>4, <1>5, <1>6

\* Gateways, and counters, of two chains.
LEMMA ChainsDiffer ==
  ASSUME NEW seed \in Encodings,
         NEW c \in Unsigned(ChainIdBytes), NEW d \in Unsigned(ChainIdBytes),
         Join(seed, LittleEndian(c, ChainIdBytes)) = Join(seed, LittleEndian(d, ChainIdBytes))
  PROVE  c = d
<1>1. LittleEndian(c, ChainIdBytes) = LittleEndian(d, ChainIdBytes)
  BY ChainsTyped, JoinInjective
<1> QED
  BY <1>1, NumbersDiffer

\* Registries of two types or chains.
LEMMA RegistriesDiffer ==
  ASSUME NEW t \in RegistryKinds, NEW u \in RegistryKinds,
         NEW c \in Unsigned(ChainIdBytes), NEW d \in Unsigned(ChainIdBytes),
         Join(Join(SignerRegistrySeed, <<Discriminant(t)>>), LittleEndian(c, ChainIdBytes))
           = Join(Join(SignerRegistrySeed, <<Discriminant(u)>>), LittleEndian(d, ChainIdBytes))
  PROVE  t = u /\ c = d
<1>1. PICK x \in Encodings : x = <<Discriminant(t)>> /\ Len(x) = 1
  BY DiscriminantsDiffer
<1>2. PICK y \in Encodings : y = <<Discriminant(u)>> /\ Len(y) = 1
  BY DiscriminantsDiffer
<1>3. PICK r \in Encodings : r = LittleEndian(c, ChainIdBytes)
  BY ChainsTyped
<1>4. PICK s \in Encodings : s = LittleEndian(d, ChainIdBytes)
  BY ChainsTyped
<1>5. PICK seed \in Encodings : seed = SignerRegistrySeed
  BY SeedsTyped
<1>6. Join(Join(seed, x), r) = Join(Join(seed, y), s)
  BY <1>1, <1>2, <1>3, <1>4, <1>5
<1>7. Join(seed, Join(x, r)) = Join(seed, Join(y, s))
  BY <1>6, JoinAssociative
<1>8. Join(x, r) = Join(y, s)
  BY <1>7, JoinTyped, JoinInjective
<1>9. x = y /\ r = s
  BY <1>1, <1>2, <1>8, JoinInjective
<1> QED
  BY <1>1, <1>2, <1>3, <1>4, <1>9, DiscriminantsDiffer, NumbersDiffer

\* TxIdPdas of two chains or ids.
LEMMA TxIdPdasDiffer ==
  ASSUME NEW c \in Unsigned(ChainIdBytes), NEW d \in Unsigned(ChainIdBytes),
         NEW t \in Unsigned(TxIdBytes), NEW u \in Unsigned(TxIdBytes),
         Join(Join(TxSeed, LittleEndian(c, ChainIdBytes)), LittleEndian(t, TxIdBytes))
           = Join(Join(TxSeed, LittleEndian(d, ChainIdBytes)), LittleEndian(u, TxIdBytes))
  PROVE  c = d /\ t = u
<1>1. PICK x \in Encodings : x = LittleEndian(t, TxIdBytes)
  BY TxIdsTyped
<1>2. PICK y \in Encodings : y = LittleEndian(u, TxIdBytes)
  BY TxIdsTyped
<1>3. PICK r \in Encodings : r = LittleEndian(c, ChainIdBytes) /\ Len(r) = ChainIdBytes
  BY ChainsTyped
<1>4. PICK s \in Encodings : s = LittleEndian(d, ChainIdBytes) /\ Len(s) = ChainIdBytes
  BY ChainsTyped
<1>5. PICK seed \in Encodings : seed = TxSeed
  BY SeedsTyped
<1>6. Join(Join(seed, r), x) = Join(Join(seed, s), y)
  BY <1>1, <1>2, <1>3, <1>4, <1>5
<1>7. Join(seed, Join(r, x)) = Join(seed, Join(s, y))
  BY <1>6, JoinAssociative
<1>8. Join(r, x) = Join(s, y)
  BY <1>7, JoinTyped, JoinInjective
<1>9. r = s /\ x = y
  BY <1>3, <1>4, <1>8, JoinInjective
<1> QED
  BY <1>1, <1>2, <1>3, <1>4, <1>9, NumbersDiffer

\* Gateways have addresses of their own, one for each chain.
LEMMA GatewaysApart ==
  ASSUME NEW chains \in SUBSET Unsigned(ChainIdBytes), NEW a \in [kind : {"gateway"}, chain : chains]
  PROVE  /\ ProgramSeeds(a)[1] = 103
         /\ \A b \in [kind : {"gateway"}, chain : chains] : ProgramSeeds(a) = ProgramSeeds(b) => a = b
<1>1. ASSUME NEW x \in [kind : {"gateway"}, chain : chains]
      PROVE  /\ ProgramSeeds(x) = Join(GatewaySeed, LittleEndian(x.chain, ChainIdBytes))
             /\ x.chain \in Unsigned(ChainIdBytes)
             /\ x = [kind |-> "gateway", chain |-> x.chain]
  BY DEF ProgramSeeds, Join
<1>2. PICK r \in Encodings : r = LittleEndian(a.chain, ChainIdBytes)
  BY <1>1, ChainsTyped
<1>3. ProgramSeeds(a)[1] = 103
  BY <1>1, <1>2, FirstLetters
<1>4. ASSUME NEW b \in [kind : {"gateway"}, chain : chains], ProgramSeeds(a) = ProgramSeeds(b)
      PROVE  a = b
  <2>1. Join(GatewaySeed, LittleEndian(a.chain, ChainIdBytes))
          = Join(GatewaySeed, LittleEndian(b.chain, ChainIdBytes))
    BY <1>1, <1>4
  <2>2. a.chain \in Unsigned(ChainIdBytes) /\ b.chain \in Unsigned(ChainIdBytes)
    BY <1>1
  <2>3. a.chain = b.chain
    BY <2>1, <2>2, SeedsTyped, ChainsDiffer
  <2> QED
    BY <1>1, <2>3
<1> QED
  BY <1>3, <1>4

\* And so have counters.
LEMMA CountersApart ==
  ASSUME NEW chains \in SUBSET Unsigned(ChainIdBytes), NEW a \in [kind : {"counter"}, chain : chains]
  PROVE  /\ ProgramSeeds(a)[1] = 99
         /\ \A b \in [kind : {"counter"}, chain : chains] : ProgramSeeds(a) = ProgramSeeds(b) => a = b
<1>1. ASSUME NEW x \in [kind : {"counter"}, chain : chains]
      PROVE  /\ ProgramSeeds(x) = Join(CounterSeed, LittleEndian(x.chain, ChainIdBytes))
             /\ x.chain \in Unsigned(ChainIdBytes)
             /\ x = [kind |-> "counter", chain |-> x.chain]
  BY DEF ProgramSeeds, Join
<1>2. PICK r \in Encodings : r = LittleEndian(a.chain, ChainIdBytes)
  BY <1>1, ChainsTyped
<1>3. ProgramSeeds(a)[1] = 99
  BY <1>1, <1>2, FirstLetters
<1>4. ASSUME NEW b \in [kind : {"counter"}, chain : chains], ProgramSeeds(a) = ProgramSeeds(b)
      PROVE  a = b
  <2>1. Join(CounterSeed, LittleEndian(a.chain, ChainIdBytes))
          = Join(CounterSeed, LittleEndian(b.chain, ChainIdBytes))
    BY <1>1, <1>4
  <2>2. a.chain \in Unsigned(ChainIdBytes) /\ b.chain \in Unsigned(ChainIdBytes)
    BY <1>1
  <2>3. a.chain = b.chain
    BY <2>1, <2>2, SeedsTyped, ChainsDiffer
  <2> QED
    BY <1>1, <2>3
<1> QED
  BY <1>3, <1>4

\* Registries have one for each type and chain.
LEMMA RegistriesApart ==
  ASSUME NEW chains \in SUBSET Unsigned(ChainIdBytes),
         NEW a \in [kind : {"registry"}, type : RegistryKinds, chain : chains]
  PROVE  /\ ProgramSeeds(a)[1] = 115
         /\ \A b \in [kind : {"registry"}, type : RegistryKinds, chain : chains] :
              ProgramSeeds(a) = ProgramSeeds(b) => a = b
<1>1. ASSUME NEW x \in [kind : {"registry"}, type : RegistryKinds, chain : chains]
      PROVE  /\ ProgramSeeds(x) = Join(Join(SignerRegistrySeed, <<Discriminant(x.type)>>),
                                       LittleEndian(x.chain, ChainIdBytes))
             /\ x.chain \in Unsigned(ChainIdBytes) /\ x.type \in RegistryKinds
             /\ x = [kind |-> "registry", type |-> x.type, chain |-> x.chain]
  BY DEF ProgramSeeds, Join
<1>2. PICK r \in Encodings : r = LittleEndian(a.chain, ChainIdBytes)
  BY <1>1, ChainsTyped
<1>3. PICK u \in Encodings : u = <<Discriminant(a.type)>>
  BY <1>1, DiscriminantsDiffer
<1>4. ProgramSeeds(a)[1] = 115
  BY <1>1, <1>2, <1>3, FirstLetters
<1>5. ASSUME NEW b \in [kind : {"registry"}, type : RegistryKinds, chain : chains],
             ProgramSeeds(a) = ProgramSeeds(b)
      PROVE  a = b
  <2>1. Join(Join(SignerRegistrySeed, <<Discriminant(a.type)>>), LittleEndian(a.chain, ChainIdBytes))
          = Join(Join(SignerRegistrySeed, <<Discriminant(b.type)>>), LittleEndian(b.chain, ChainIdBytes))
    BY <1>1, <1>5
  <2>2. /\ a.chain \in Unsigned(ChainIdBytes) /\ b.chain \in Unsigned(ChainIdBytes)
        /\ a.type \in RegistryKinds /\ b.type \in RegistryKinds
    BY <1>1
  <2>3. a.type = b.type /\ a.chain = b.chain
    BY <2>1, <2>2, RegistriesDiffer
  <2> QED
    BY <1>1, <2>3
<1> QED
  BY <1>4, <1>5

\* TxIdPdas have one for each source chain and id.
LEMMA TxIdPdasApart ==
  ASSUME NEW chains \in SUBSET Unsigned(ChainIdBytes), NEW txIds \in SUBSET Unsigned(TxIdBytes),
         NEW a \in [kind : {"tx"}, chain : chains, txId : txIds]
  PROVE  /\ ProgramSeeds(a)[1] = 116
         /\ \A b \in [kind : {"tx"}, chain : chains, txId : txIds] :
              ProgramSeeds(a) = ProgramSeeds(b) => a = b
<1>1. ASSUME NEW x \in [kind : {"tx"}, chain : chains, txId : txIds]
      PROVE  /\ ProgramSeeds(x) = Join(Join(TxSeed, LittleEndian(x.chain, ChainIdBytes)),
                                       LittleEndian(x.txId, TxIdBytes))
             /\ x.chain \in Unsigned(ChainIdBytes) /\ x.txId \in Unsigned(TxIdBytes)
             /\ x = [kind |-> "tx", chain |-> x.chain, txId |-> x.txId]
  BY DEF ProgramSeeds, Join
<1>2. PICK r \in Encodings : r = LittleEndian(a.chain, ChainIdBytes)
  BY <1>1, ChainsTyped
<1>3. PICK u \in Encodings : u = LittleEndian(a.txId, TxIdBytes)
  BY <1>1, TxIdsTyped
<1>4. ProgramSeeds(a)[1] = 116
  BY <1>1, <1>2, <1>3, FirstLetters
<1>5. ASSUME NEW b \in [kind : {"tx"}, chain : chains, txId : txIds],
             ProgramSeeds(a) = ProgramSeeds(b)
      PROVE  a = b
  <2>1. Join(Join(TxSeed, LittleEndian(a.chain, ChainIdBytes)), LittleEndian(a.txId, TxIdBytes))
          = Join(Join(TxSeed, LittleEndian(b.chain, ChainIdBytes)), LittleEndian(b.txId, TxIdBytes))
    BY <1>1, <1>5
  <2>2. /\ a.chain \in Unsigned(ChainIdBytes) /\ b.chain \in Unsigned(ChainIdBytes)
        /\ a.txId \in Unsigned(TxIdBytes) /\ b.txId \in Unsigned(TxIdBytes)
    BY <1>1
  <2>3. a.chain = b.chain /\ a.txId = b.txId
    BY <2>1, <2>2, TxIdPdasDiffer
  <2> QED
    BY <1>1, <2>3
<1> QED
  BY <1>4, <1>5

\* The SDK looks for every account where the program's constraints put it, and no
\* two accounts share an address, although seeds are joined without separators
\* (pdas.ts:37-101).
THEOREM AddressesAgree ==
  ASSUME NEW chains \in SUBSET Unsigned(ChainIdBytes), NEW txIds \in SUBSET Unsigned(TxIdBytes),
         NEW a \in AccountsWith(chains, txIds), NEW b \in AccountsWith(chains, txIds)
  PROVE  SdkSeeds(a) = ProgramSeeds(b) <=> a = b
<1> DEFINE G == [kind : {"gateway"}, chain : chains]
           C == [kind : {"counter"}, chain : chains]
           R == [kind : {"registry"}, type : RegistryKinds, chain : chains]
           T == [kind : {"tx"}, chain : chains, txId : txIds]
<1>1. SdkSeeds(a) = ProgramSeeds(a)
  BY DEF SdkSeeds, ProgramSeeds, GatewayPda, CounterPda, SignerRegistryPda, TxIdPda, AccountsWith
<1>2. SUFFICES ASSUME ProgramSeeds(a) = ProgramSeeds(b) PROVE a = b
  BY <1>1
<1>3. a \in G \/ a \in C \/ a \in R \/ a \in T
  BY DEF AccountsWith
<1>4. b \in G \/ b \in C \/ b \in R \/ b \in T
  BY DEF AccountsWith
<1>5. \A x \in G : ProgramSeeds(x)[1] = 103 /\ \A y \in G : ProgramSeeds(x) = ProgramSeeds(y) => x = y
  BY GatewaysApart
<1>6. \A x \in C : ProgramSeeds(x)[1] = 99 /\ \A y \in C : ProgramSeeds(x) = ProgramSeeds(y) => x = y
  BY CountersApart
<1>7. \A x \in R : ProgramSeeds(x)[1] = 115 /\ \A y \in R : ProgramSeeds(x) = ProgramSeeds(y) => x = y
  BY RegistriesApart
<1>8. \A x \in T : ProgramSeeds(x)[1] = 116 /\ \A y \in T : ProgramSeeds(x) = ProgramSeeds(y) => x = y
  BY TxIdPdasApart
<1> HIDE DEF G, C, R, T
<1> QED
  BY <1>2, <1>3, <1>4, <1>5, <1>6, <1>7, <1>8
=============================================================================
