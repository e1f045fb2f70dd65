--------------------------- MODULE FrameStreamProofs --------------------------
(***************************************************************************)
(* Whatever the bytes, the frames in them and the codec that tells a frame *)
(* from damage: the scan moves on at every turn, misses no frame that was  *)
(* sent whole unless a stray header swallows it or a frame before it, and  *)
(* calls a frame only what is one;                                         *)
(* the bytes it takes and the bytes it leaves are the whole response, in   *)
(* order; and its classification means of the stream what it says.  And,   *)
(* whatever the checksum, what the codec encodes it decodes.               *)
(*                                                                         *)
(* ScanInv is about the first loop.  CollectionInv adds what the second    *)
(* one and the classification need: that the consumed frames are those     *)
(* candidates and lie one after another (LinkInv, SpanInv), what each kind *)
(* of candidate is (KindInv, GenuineInv), how far the collection is and    *)
(* what it has collected (PassInv, PartInv), and what the stream was if it *)
(* left nothing over (CopiesInv) or is copies of the request (EchoesInv).  *)
(***************************************************************************)
EXTENDS FrameStream, Frame, FiniteSetTheorems, TLAPS

Candidates == [kind : Kinds, offset : Nat, end : Nat]

Spans == [offset : Nat, end : Nat]

StreamInv ==
    /\ raw \in Seq(Nat)
    /\ \E s \in Streams : raw = s.raw /\ sent = s.sent

\* No stray header swallows the first byte of f or of a frame before it.
Clear(f) == \A g \in sent, o \in Strays : g.offset <= f.offset => ~Swallows(o, g.offset)

FoundIn(f, cs) ==
    \E i \in 1..Len(cs) :
        /\ cs[i].kind \in Taken
        /\ cs[i].offset = f.offset /\ cs[i].end = f.offset + Len(f.data)

\* The frames behind the cursor are found.
BehindInv == \A f \in sent : f.offset >= cursor \/ ~Clear(f) \/ FoundIn(f, candidates)

DoneInv == classification # "none" => HeadersFrom(cursor) = {}

\* What was taken lies behind the cursor, one after another, and no echo is a
\* response.
TakenInv ==
    /\ \A i \in 1..Len(candidates) :
        candidates[i].kind \in Taken => candidates[i].end <= cursor
    /\ \A i, j \in 1..Len(candidates) :
        i < j /\ candidates[i].kind \in Taken => candidates[i].end <= candidates[j].offset
    /\ \A i \in 1..Len(candidates) :
        candidates[i].kind \in Accepted => Slice(candidates[i].offset, candidates[i].end) # TX

ScanInv ==
    /\ TypeOK /\ candidates \in Seq(Candidates) /\ consumed \in Seq(Spans)
    /\ StreamInv /\ BehindInv /\ DoneInv /\ TakenInv

-----------------------------------------------------------------------------
LEMMA Constants ==
    /\ Header \in Seq(Nat) /\ Len(Header) \in Nat /\ HeaderSize \in Nat
    /\ 1 <= Len(Header) /\ Len(Header) <= HeaderSize /\ Header[1] # 0
    /\ TX \in Seq(Nat) /\ Len(TX) \in Nat
    /\ TX # << >> =>
        /\ Len(TX) # 0 /\ HeaderSize <= Len(TX)
        /\ SubSeq(TX, 1, Len(Header)) = Header
        /\ SizeOf(SubSeq(TX, 1, HeaderSize)) = Len(TX)
<1>1. Len(Header) \in Nat /\ Len(TX) \in Nat
  BY StreamAssumption
<1> QED
  BY <1>1, StreamAssumption

LEMMA Appended ==
    ASSUME NEW S, NEW s \in Seq(S), NEW x \in S
    PROVE  /\ Append(s, x) \in Seq(S) /\ Len(Append(s, x)) = Len(s) + 1 /\ Len(s) \in Nat
           /\ \A n \in 1..Len(s) : Append(s, x)[n] = s[n]
           /\ Append(s, x)[Len(s) + 1] = x
OBVIOUS

\* The elements of S up to n, and how many there are.
Upto(S, n) == {i \in S : i <= n}
Count(S, n) == Cardinality(Upto(S, n))

LEMMA InUpto ==
    ASSUME NEW S, NEW n, NEW i
    PROVE  i \in Upto(S, n) <=> i \in S /\ i <= n
BY DEF Upto

LEMMA CountType ==
    ASSUME NEW S \in SUBSET Nat, NEW n \in Nat
    PROVE  IsFiniteSet(Upto(S, n)) /\ Count(S, n) \in Nat
<1>1. Upto(S, n) \in SUBSET (0..n)
  <2>1. \A i \in Upto(S, n) : i \in Nat /\ i <= n
    BY InUpto
  <2> QED
    BY <2>1
<1>2. IsFiniteSet(0..n)
  BY FS_Interval
<1>3. IsFiniteSet(Upto(S, n))
  BY <1>1, <1>2, FS_Subset
<1> QED
  BY <1>3, FS_CardinalityType DEF Count

LEMMA CountRises ==
    ASSUME NEW S \in SUBSET Nat, NEW n \in Nat, NEW i \in S, i <= n
    PROVE  Count(S, i) \in 1..Count(S, n)
<1>1. i \in Nat /\ \A j \in S : j \in Nat
  OBVIOUS
<1>2. i \in Upto(S, i) /\ Upto(S, i) \in SUBSET Upto(S, n)
  <2>1. i \in Upto(S, i)
    BY <1>1, InUpto
  <2>2. \A j \in Upto(S, i) : j \in Upto(S, n)
    <3>1. \A j \in Upto(S, i) : j \in S /\ j \in Nat /\ j <= i
      BY <1>1, InUpto
    <3>2. \A j \in Upto(S, i) : j \in S /\ j <= n
      BY <1>1, <3>1
    <3> QED
      BY <3>2, InUpto
  <2> QED
    BY <2>1, <2>2
<1>3. /\ IsFiniteSet(Upto(S, i)) /\ Count(S, i) \in Nat
      /\ IsFiniteSet(Upto(S, n)) /\ Count(S, n) \in Nat
  BY <1>1, CountType
<1>4. Count(S, i) <= Count(S, n)
  BY <1>2, <1>3, FS_Subset DEF Count
<1>5. Count(S, i) # 0
  BY <1>2, <1>3, FS_EmptySet DEF Count
<1> QED
  BY <1>3, <1>4, <1>5

\* Every number from p to i is in S.
LEMMA CountOverRun ==
    ASSUME NEW S \in SUBSET Nat, NEW p \in Nat \ {0}, NEW i \in Nat, p - 1 <= i,
           \A j \in p..i : j \in S
    PROVE  Count(S, i) = Count(S, p - 1) + (i - p + 1)
<1>1. p - 1 \in Nat /\ \A j \in S : j \in Nat
  OBVIOUS
<1>2. Upto(S, i) = Upto(S, p - 1) \cup (p..i) /\ Upto(S, p - 1) \cap (p..i) = {}
  <2>1. \A j \in Upto(S, i) : j \in S /\ j \in Nat /\ j <= i
    BY <1>1, InUpto
  <2>2. \A j \in Upto(S, p - 1) : j \in S /\ j \in Nat /\ j <= p - 1
    BY <1>1, InUpto
  <2>3. \A j \in Upto(S, i) : j \in Upto(S, p - 1) \/ j \in p..i
    <3> SUFFICES ASSUME NEW j \in Upto(S, i), j \notin p..i
                 PROVE  j \in Upto(S, p - 1)
      OBVIOUS
    <3>1. j \in S /\ j <= p - 1
      BY <2>1
    <3> QED
      BY <3>1, InUpto
  <2>4. \A j \in Upto(S, p - 1) : j \in Upto(S, i) /\ j \notin p..i
    <3>1. \A j \in Upto(S, p - 1) : j \in S /\ j <= i /\ j \notin p..i
      BY <2>2
    <3> QED
      BY <3>1, InUpto
  <2>5. \A j \in p..i : j \in Upto(S, i)
    <3>1. \A j \in p..i : j \in S /\ j <= i
      OBVIOUS
    <3> QED
      BY <3>1, InUpto
  <2>6. Upto(S, i) = Upto(S, p - 1) \cup (p..i)
    BY <2>3, <2>4, <2>5, Zenon
  <2> QED
    BY <2>4, <2>6
<1>3. IsFiniteSet(Upto(S, p - 1)) /\ Count(S, p - 1) \in Nat
  BY <1>1, CountType
<1>4. IsFiniteSet(p..i) /\ Cardinality(p..i) = i - p + 1
  <2>1. IsFiniteSet(p..i) /\ Cardinality(p..i) = IF p > i THEN 0 ELSE i - p + 1
    BY FS_Interval
  <2> QED
    BY <2>1
<1> DEFINE T == Upto(S, p - 1)
           R == p..i
<1> HIDE DEF T, R
<1>5. Cardinality(T \cup R) = Cardinality(T) + Cardinality(R) - Cardinality(T \cap R)
  BY <1>3, <1>4, FS_Union DEF T, R
<1>6. Cardinality(T \cap R) = 0
  BY <1>2, FS_EmptySet DEF T, R
<1>7. Cardinality(T \cup R) = Count(S, p - 1) + (i - p + 1)
  BY <1>3, <1>4, <1>5, <1>6 DEF T, R, Count
<1> QED
  BY <1>2, <1>7 DEF T, R, Count

\* No number from o up to e is in S.
LEMMA CountOverGap ==
    ASSUME NEW S \in SUBSET Nat, NEW o \in Nat \ {0}, NEW e \in Nat, o <= e,
           \A j \in o..(e - 1) : j \notin S
    PROVE  Count(S, e - 1) = Count(S, o - 1)
<1>1. \A j \in S : j \in Nat
  OBVIOUS
<1>2. Upto(S, e - 1) = Upto(S, o - 1)
  <2>1. \A j \in S : j <= e - 1 <=> j <= o - 1
    BY <1>1
  <2>2. \A j : j \in Upto(S, e - 1) <=> j \in Upto(S, o - 1)
    <3> SUFFICES ASSUME NEW j
                 PROVE  j \in Upto(S, e - 1) <=> j \in Upto(S, o - 1)
      OBVIOUS
    <3>1. j \in Upto(S, e - 1) <=> j \in S /\ j <= e - 1
      BY InUpto
    <3>2. j \in Upto(S, o - 1) <=> j \in S /\ j <= o - 1
      BY InUpto
    <3> QED
      BY <2>1, <3>1, <3>2
  <2> QED
    BY <2>2
<1> QED
  BY <1>2 DEF Count

\* r holds the elements of s before p whose places are in S, in order.
Parts(r, s, S, p) ==
    /\ Len(r) = Count(S, p - 1)
    /\ \A i \in S : i < p => r[Count(S, i)] = s[i]

LEMMA SliceOf ==
    ASSUME NEW s \in Seq(Nat), NEW p \in 1..(Len(s) + 1), NEW o \in p..(Len(s) + 1)
    PROVE  /\ SubSeq(s, p, o - 1) \in Seq(Nat) /\ Len(SubSeq(s, p, o - 1)) = o - p
           /\ \A i \in p..(o - 1) : SubSeq(s, p, o - 1)[i - p + 1] = s[i]
<1>1. SubSeq(s, p, o - 1) = [i \in 1..(o - 1 - p + 1) |-> s[p + i - 1]]
  OBVIOUS
<1>2. o - 1 - p + 1 = o - p /\ o - p \in Nat /\ Len(s) \in Nat
  OBVIOUS
<1>3. \A i \in 1..(o - p) : s[p + i - 1] \in Nat
  BY <1>2
<1> QED
  BY <1>1, <1>2, <1>3

\* The bytes up to o join the parts, those of a frame from o to e do not.
LEMMA PartsExtend ==
    ASSUME NEW s \in Seq(Nat), NEW r \in Seq(Nat), NEW S \in SUBSET (1..Len(s)),
           NEW p \in 1..(Len(s) + 1), NEW o \in p..(Len(s) + 1), NEW e \in o..(Len(s) + 1),
           \A j \in p..(o - 1) : j \in S, \A j \in o..(e - 1) : j \notin S,
           Parts(r, s, S, p)
    PROVE  Parts(r \o SubSeq(s, p, o - 1), s, S, e)
<1> DEFINE x == SubSeq(s, p, o - 1)
           n == Len(r)
<1>1. /\ S \in SUBSET Nat /\ p \in Nat \ {0} /\ o \in Nat \ {0} /\ e \in Nat
      /\ p <= o /\ o <= e /\ Len(s) \in Nat
  <2>1. Len(s) \in Nat /\ \A j \in 1..Len(s) : j \in Nat
    OBVIOUS
  <2>2. p \in Nat \ {0} /\ p <= Len(s) + 1
    BY <2>1
  <2>3. o \in Nat \ {0} /\ p <= o /\ o <= Len(s) + 1
    BY <2>1, <2>2
  <2> QED
    BY <2>1, <2>2, <2>3
<1>2. x \in Seq(Nat) /\ Len(x) = o - p /\ \A i \in p..(o - 1) : x[i - p + 1] = s[i]
  BY SliceOf
<1>3. n \in Nat /\ n = Count(S, p - 1)
  BY DEF Parts
<1> HIDE DEF x, n
<1>4. /\ Len(r \o x) = n + (o - p)
      /\ \A k \in 1..n : (r \o x)[k] = r[k]
      /\ \A k \in 1..(o - p) : (r \o x)[n + k] = x[k]
  <2>1. /\ Len(r \o x) = Len(r) + Len(x)
        /\ \A k \in 1..Len(r) : (r \o x)[k] = r[k]
        /\ \A k \in 1..Len(x) : (r \o x)[Len(r) + k] = x[k]
    <3>1. r \in Seq(Nat) /\ x \in Seq(Nat)
      BY <1>2
    <3> QED
      BY <3>1
  <2> QED
    BY <1>2, <2>1 DEF n
<1>5. Len(r \o x) = Count(S, e - 1)
  <2>1. Count(S, o - 1) = Count(S, p - 1) + ((o - 1) - p + 1)
    <3> DEFINE last == o - 1
    <3>1. last \in Nat /\ p - 1 <= last /\ \A j \in p..last : j \in S
      BY <1>1
    <3> HIDE DEF last
    <3>2. Count(S, last) = Count(S, p - 1) + (last - p + 1)
      BY <1>1, <3>1, CountOverRun
    <3> QED
      BY <3>2 DEF last
  <2>2. Count(S, e - 1) = Count(S, o - 1)
    BY <1>1, CountOverGap
  <2> QED
    BY <1>1, <1>3, <1>4, <2>1, <2>2
<1>6. ASSUME NEW i \in S, i < e
      PROVE  (r \o x)[Count(S, i)] = s[i]
  <2>1. i \in Nat
    BY <1>1
  <2>2. CASE i < p
    <3>1. Count(S, i) \in 1..n
      BY <1>1, <1>3, <2>1, <2>2, CountRises
    <3>2. r[Count(S, i)] = s[i]
      BY <2>2 DEF Parts
    <3>3. (r \o x)[Count(S, i)] = r[Count(S, i)]
      BY <1>4, <3>1
    <3> QED
      BY <3>2, <3>3
  <2>3. CASE p <= i
    <3>1. i \in p..(o - 1)
      BY <1>1, <1>6, <2>1, <2>3
    <3>2. Count(S, i) = n + (i - p + 1)
      <4>1. \A j \in p..i : j \in S
        BY <1>1, <3>1
      <4>2. p - 1 <= i
        BY <1>1, <2>1, <2>3
      <4>3. Count(S, i) = Count(S, p - 1) + (i - p + 1)
        BY <1>1, <2>1, <4>1, <4>2, CountOverRun
      <4> QED
        BY <1>3, <4>3
    <3>3. i - p + 1 \in 1..(o - p)
      BY <1>1, <2>1, <3>1
    <3>4. (r \o x)[n + (i - p + 1)] = x[i - p + 1]
      BY <1>4, <3>3
    <3>5. x[i - p + 1] = s[i]
      BY <1>2, <3>1
    <3> QED
      BY <3>2, <3>4, <3>5
  <2>4. i < p \/ p <= i
    BY <1>1, <2>1
  <2> QED
    BY <2>2, <2>3, <2>4
<1>7. Len(r \o x) = Count(S, e - 1) /\ \A i \in S : i < e => (r \o x)[Count(S, i)] = s[i]
  BY <1>5, <1>6
<1> QED
  BY <1>7 DEF x, Parts

\* The first k elements of a part of s are a part of s.
LEMMA BeginningOfPart ==
    ASSUME NEW s \in Seq(Nat), NEW from \in 1..Len(s), NEW n \in Nat, NEW k \in 1..n,
           from + n <= Len(s) + 1
    PROVE  SubSeq(SubSeq(s, from, from + n - 1), 1, k) = SubSeq(s, from, from + k - 1)
<1> DEFINE part == SubSeq(s, from, from + n - 1)
<1>1. part = [i \in 1..n |-> s[from + i - 1]] /\ part \in Seq(Nat) /\ Len(part) = n
  OBVIOUS
<1>2. SubSeq(s, from, from + k - 1) = [i \in 1..k |-> s[from + i - 1]]
  OBVIOUS
<1> HIDE DEF part
<1>3. SubSeq(part, 1, k) = [i \in 1..k |-> part[i]]
  BY <1>1
<1>4. \A i \in 1..k : part[i] = s[from + i - 1]
  BY <1>1
<1>5. SubSeq(part, 1, k) = SubSeq(s, from, from + k - 1)
  BY <1>2, <1>3, <1>4
<1> QED
  BY <1>5 DEF part

\* What the scan sees of a frame that is there whole, when it gets to it.
LEMMA FrameIsSeen ==
    ASSUME raw \in Seq(Nat), NEW o \in 1..Len(raw), NEW data \in Seq(Nat),
           HeaderSize <= Len(data), o + Len(data) <= Len(raw) + 1,
           data = SubSeq(raw, o, o + Len(data) - 1),
           SubSeq(data, 1, Len(Header)) = Header,
           SizeOf(SubSeq(data, 1, HeaderSize)) = Len(data)
    PROVE  /\ Len(data) \in Nat
           /\ \A from \in 1..o : o \in HeadersFrom(from)
           /\ ~HeaderCut(o)
           /\ size(o) = Len(data) /\ size(o) # 0
           /\ WholeFrames(o) = {data}
<1> DEFINE n == Len(data)
<1>1. /\ raw \in Seq(Nat) /\ o \in 1..Len(raw) /\ Len(raw) \in Nat /\ HeaderSize <= n
      /\ o + n <= Len(raw) + 1
      /\ data \in Seq(Nat) /\ data = SubSeq(raw, o, o + n - 1)
      /\ SubSeq(data, 1, Len(Header)) = Header
      /\ SizeOf(SubSeq(data, 1, HeaderSize)) = n
  OBVIOUS
<1>2. n \in Nat
  BY <1>1
<1> HIDE DEF n
<1>3. \A k \in 1..n : SubSeq(data, 1, k) = SubSeq(raw, o, o + k - 1)
  BY <1>1, <1>2, BeginningOfPart
<1>4. Slice(o, o + HeaderSize) = SubSeq(data, 1, HeaderSize)
  BY <1>1, <1>2, <1>3, Constants DEF Slice
<1>5. Slice(o, o + Len(Header)) = Header
  <2>1. Len(Header) \in 1..n
    BY <1>1, <1>2, Constants
  <2>2. Header = SubSeq(raw, o, o + Len(Header) - 1)
    BY <1>1, <1>3, <2>1, Zenon
  <2>3. Slice(o, o + Len(Header)) = SubSeq(raw, o, o + Len(Header) - 1)
    <3>1. (o + Len(Header)) - 1 = o + Len(Header) - 1
      BY <1>1, Constants
    <3> QED
      BY <3>1, Zenon DEF Slice
  <2> QED
    BY <2>2, <2>3, Zenon
<1>6. Slice(o, o + n) = data
  BY <1>1, <1>2 DEF Slice
<1>7. \A from \in 1..o : o \in HeadersFrom(from)
  BY <1>1, <1>2, <1>5, Constants DEF HeadersFrom
<1>8. ~HeaderCut(o) /\ size(o) = n /\ n # 0
  <2>1. ~HeaderCut(o) /\ n # 0
    BY <1>1, <1>2, Constants DEF HeaderCut
  <2>2. size(o) = n
    BY <1>1, <1>4, Zenon DEF size
  <2> QED
    BY <2>1, <2>2
<1>9. WholeFrames(o) = {data}
  <2>1. {n} \cap 1..(Len(raw) + 1 - o) = {n}
    BY <1>1, <1>2, <1>8
  <2> QED
    BY <1>6, <1>8, <2>1 DEF WholeFrames
<1> QED
  BY <1>1, <1>2, <1>7, <1>8, <1>9 DEF n

LEMMA SentFrameIsSeen ==
    ASSUME StreamInv, NEW f \in sent
    PROVE  /\ f.offset \in 1..Len(raw)
           /\ \A from \in 1..f.offset : f.offset \in HeadersFrom(from)
           /\ ~HeaderCut(f.offset)
           /\ Len(f.data) \in Nat /\ f.offset + Len(f.data) <= Len(raw) + 1
           /\ HeaderSize <= Len(f.data)
           /\ size(f.offset) # 0 /\ size(f.offset) = Len(f.data)
           /\ WholeFrames(f.offset) = {f.data}
           /\ Status(f.data) \in Accepted
           /\ \A g \in sent : \/ f = g
                                \/ f.offset + Len(f.data) <= g.offset
                                \/ g.offset + Len(g.data) <= f.offset
<1>1. /\ raw \in Seq(Nat) /\ f.offset \in 1..Len(raw)
      /\ f.data \in Seq(Nat) /\ HeaderSize <= Len(f.data)
      /\ f.offset + Len(f.data) <= Len(raw) + 1
      /\ f.data = SubSeq(raw, f.offset, f.offset + Len(f.data) - 1)
      /\ SubSeq(f.data, 1, Len(Header)) = Header
      /\ SizeOf(SubSeq(f.data, 1, HeaderSize)) = Len(f.data)
      /\ Status(f.data) \in Accepted
  BY StreamAssumption DEF StreamInv
<1>2. \A g \in sent : \/ f = g
                      \/ f.offset + Len(f.data) <= g.offset
                      \/ g.offset + Len(g.data) <= f.offset
  BY StreamAssumption DEF StreamInv
<1> QED
  BY <1>1, <1>2, FrameIsSeen

\* Whether the frames before one are clear is a matter of the stream alone.
LEMMA ClearLasts ==
    ASSUME UNCHANGED <<raw, sent>>
    PROVE  \A f : Clear(f)' <=> Clear(f)
<1>1. /\ raw' = raw /\ sent' = sent
  OBVIOUS
<1>2. \A o : HeaderCut(o)' <=> HeaderCut(o)
  BY <1>1 DEF HeaderCut
<1>3. \A from, end : Slice(from, end)' = Slice(from, end)
  BY <1>1 DEF Slice
<1>4. \A o : size(o)' = size(o)
  BY <1>1 DEF size, Slice
<1>5. \A o : WholeFrames(o)' = WholeFrames(o)
  BY <1>1, <1>2, <1>4 DEF WholeFrames, Slice
<1>6. Strays' = Strays
  BY <1>1 DEF Strays, HeadersFrom, Slice
<1>7. \A o, i : Swallows(o, i)' <=> Swallows(o, i)
  BY <1>4, <1>5 DEF Swallows
<1> QED
  BY <1>1, <1>6, <1>7 DEF Clear

LEMMA SizeIsNat ==
    ASSUME StreamInv, NEW o \in 1..Len(raw), ~HeaderCut(o) PROVE size(o) \in Nat
<1>1. Len(raw) \in Nat /\ HeaderSize \in Nat /\ (o + HeaderSize) - 1 = o + HeaderSize - 1
  BY Constants DEF StreamInv
<1>2. o \in 1..(Len(raw) + 1 - HeaderSize)
  BY <1>1 DEF HeaderCut
<1>3. SizeOf(SubSeq(raw, o, o + HeaderSize - 1)) \in Nat
  BY <1>2, StreamAssumption DEF StreamInv
<1> QED
  BY <1>1, <1>3 DEF size, Slice

\* The request lies at o.
EchoAt(o) == TX # << >> /\ o + Len(TX) <= Len(raw) + 1 /\ SubSeq(raw, o, o + Len(TX) - 1) = TX

LEMMA EchoIsSeen ==
    ASSUME raw \in Seq(Nat), NEW o \in 1..Len(raw), EchoAt(o)
    PROVE  /\ o \in HeadersFrom(o)
           /\ ~HeaderCut(o) /\ size(o) = Len(TX) /\ size(o) # 0 /\ WholeFrames(o) = {TX}
<1>1. /\ TX \in Seq(Nat) /\ HeaderSize <= Len(TX)
      /\ SubSeq(TX, 1, Len(Header)) = Header
      /\ SizeOf(SubSeq(TX, 1, HeaderSize)) = Len(TX)
  BY Constants DEF EchoAt
<1>2. o + Len(TX) <= Len(raw) + 1 /\ TX = SubSeq(raw, o, o + Len(TX) - 1)
  BY DEF EchoAt
<1>3. o \in 1..o
  OBVIOUS
<1> QED
  BY <1>1, <1>2, <1>3, FrameIsSeen

LEMMA FoundIsFirst ==
    ASSUME ScanInv, NEW offset \in Found
    PROVE  /\ cursor \in Nat \ {0} /\ Len(raw) \in Nat /\ offset \in cursor..Len(raw)
           /\ offset \in Nat \ {0}
           /\ \A f \in sent : f.offset >= cursor => offset <= f.offset
<1>1. raw \in Seq(Nat) /\ Len(raw) \in Nat /\ cursor \in 1..(Len(raw) + 1)
  BY DEF ScanInv, TypeOK, StreamInv
<1>2. offset \in HeadersFrom(cursor) /\ \A j \in HeadersFrom(cursor) : offset <= j
  BY DEF Found
<1>3. offset \in cursor..Len(raw)
  BY <1>1, <1>2, Constants DEF HeadersFrom
<1>4. ASSUME NEW f \in sent, f.offset >= cursor
      PROVE  offset <= f.offset
  <2>1. f.offset \in 1..Len(raw) /\ \A from \in 1..f.offset : f.offset \in HeadersFrom(from)
    BY SentFrameIsSeen DEF ScanInv
  <2>2. cursor \in 1..f.offset
    BY <1>1, <1>4, <2>1
  <2> QED
    BY <1>2, <2>1, <2>2
<1> QED
  BY <1>1, <1>3, <1>4

\* One turn of the scan and what it knows about the candidate it records.
Turn(kind, offset, end, next) ==
    /\ kind \in Kinds /\ offset \in Found
    /\ end \in (offset + 1)..(Len(raw) + 1) /\ next \in (offset + 1)..(Len(raw) + 1)
    /\ Record(kind, offset, end, next)
    /\ kind \in Taken => end = next
    /\ kind \in Accepted =>
            /\ Slice(offset, end) # TX /\ Status(Slice(offset, end)) = kind
            /\ ~HeaderCut(offset) /\ end = offset + size(offset)
    /\ kind = "echo" => Slice(offset, end) = TX /\ end = offset + Len(TX)
    /\ EchoAt(offset) => kind = "echo"
    /\ kind = "incomplete" => next = Len(raw) + 1
    /\ \A f \in sent : f.offset \in offset..(next - 1) =>
            \/ kind \in Taken /\ offset = f.offset /\ end = offset + Len(f.data)
            \/ Swallows(offset, f.offset)

\* What such a turn does.
Effect(kind, offset, end, next) ==
    /\ classification = "none" /\ classification' = "none" /\ cursor' = next
    /\ UNCHANGED <<raw, sent, collecting>>
    /\ raw \in Seq(Nat) /\ Len(raw) \in Nat /\ cursor \in Nat \ {0}
    /\ offset \in cursor..Len(raw) /\ offset \in Nat \ {0}
    /\ next \in Nat /\ end \in Nat /\ offset < end /\ offset < next
    /\ next <= Len(raw) + 1 /\ end <= Len(raw) + 1
    /\ candidates' \in Seq(Candidates) /\ Len(candidates) \in Nat
    /\ Len(candidates') = Len(candidates) + 1
    /\ \A i \in 1..Len(candidates) : candidates'[i] = candidates[i]
    /\ candidates'[Len(candidates) + 1] = [kind |-> kind, offset |-> offset, end |-> end]
    /\ consumed' \in Seq(Spans) /\ Len(consumed) \in Nat
    /\ \A k \in 1..Len(consumed) : consumed'[k] = consumed[k]
    /\ kind \in Taken =>
            /\ Len(consumed') = Len(consumed) + 1
            /\ consumed'[Len(consumed) + 1] = [offset |-> offset, end |-> end]
    /\ kind \notin Taken => consumed' = consumed

LEMMA TurnEffect ==
    ASSUME ScanInv, NEW kind, NEW offset, NEW end, NEW next, Turn(kind, offset, end, next)
    PROVE  Effect(kind, offset, end, next)
<1> DEFINE c == [kind |-> kind, offset |-> offset, end |-> end]
           d == [offset |-> offset, end |-> end]
<1>1. /\ classification = "none" /\ classification' = "none" /\ cursor' = next
      /\ candidates' = Append(candidates, c) /\ UNCHANGED <<raw, sent, collecting>>
      /\ consumed' = IF kind \in Taken THEN Append(consumed, d) ELSE consumed
  BY DEF Turn, Record
<1>2. /\ cursor \in Nat \ {0} /\ Len(raw) \in Nat /\ offset \in cursor..Len(raw)
      /\ offset \in Nat \ {0}
  BY FoundIsFirst DEF Turn
<1>3. /\ next \in Nat /\ end \in Nat /\ offset < end /\ offset < next
      /\ next <= Len(raw) + 1 /\ end <= Len(raw) + 1
  BY <1>2 DEF Turn
<1>4. c \in Candidates /\ candidates \in Seq(Candidates)
  BY <1>2, <1>3 DEF Candidates, ScanInv, Turn
<1>5. d \in Spans /\ consumed \in Seq(Spans) /\ raw \in Seq(Nat)
  BY <1>2, <1>3 DEF Spans, ScanInv, StreamInv
<1> HIDE DEF c, d
<1>6. /\ candidates' \in Seq(Candidates) /\ Len(candidates) \in Nat
      /\ Len(candidates') = Len(candidates) + 1
      /\ \A i \in 1..Len(candidates) : candidates'[i] = candidates[i]
      /\ candidates'[Len(candidates) + 1] = c
  BY <1>1, <1>4, Appended
<1>7. /\ consumed' \in Seq(Spans) /\ Len(consumed) \in Nat
      /\ \A k \in 1..Len(consumed) : consumed'[k] = consumed[k]
      /\ kind \in Taken =>
            /\ Len(consumed') = Len(consumed) + 1
            /\ consumed'[Len(consumed) + 1] = d
      /\ kind \notin Taken => consumed' = consumed
  <2>1. CASE kind \in Taken
    BY <1>1, <1>5, <2>1, Appended
  <2>2. CASE kind \notin Taken
    BY <1>1, <1>5, <2>2
  <2> QED
    BY <2>1, <2>2
<1> QED
  BY <1>1, <1>2, <1>3, <1>5, <1>6, <1>7 DEF c, d, Effect

LEMMA RecordKeeps ==
    ASSUME ScanInv, NEW kind, NEW offset, NEW end, NEW next, Turn(kind, offset, end, next)
    PROVE  ScanInv' /\ cursor' > cursor
<1> DEFINE c == [kind |-> kind, offset |-> offset, end |-> end]
           n == Len(candidates)
<1>0. Effect(kind, offset, end, next)
  BY TurnEffect
<1>1. /\ classification = "none" /\ classification' = "none" /\ cursor' = next
      /\ raw' = raw /\ sent' = sent
  BY <1>0 DEF Effect
<1>2. /\ cursor \in Nat \ {0} /\ Len(raw) \in Nat /\ offset \in cursor..Len(raw)
      /\ offset \in Nat \ {0} /\ offset \in Found
      /\ \A f \in sent : f.offset >= cursor => offset <= f.offset
  BY FoundIsFirst DEF Turn
<1>3. candidates \in Seq(Candidates)
  BY DEF ScanInv
<1>4. /\ candidates' \in Seq(Candidates) /\ Len(candidates') = n + 1 /\ n \in Nat
      /\ \A i \in 1..n : candidates'[i] = candidates[i]
      /\ candidates'[n + 1] = c
  BY <1>0, Zenon DEF Effect
<1>5. c.kind = kind /\ c.offset = offset /\ c.end = end
  OBVIOUS
<1>6. /\ next \in Nat /\ end \in Nat /\ cursor < next /\ kind \in Kinds
      /\ end \in (offset + 1)..(Len(raw) + 1) /\ next \in (offset + 1)..(Len(raw) + 1)
      /\ (kind \in Taken => end = next)
      /\ (kind \in Accepted => Slice(offset, end) # TX)
  BY <1>2 DEF Turn
<1> HIDE DEF c
<1>7. \A i \in 1..n : candidates[i].offset \in Nat /\ candidates[i].end \in Nat
  <2> SUFFICES ASSUME NEW i \in 1..n
               PROVE  candidates[i].offset \in Nat /\ candidates[i].end \in Nat
    OBVIOUS
  <2>1. candidates[i] \in Candidates
    BY <1>3
  <2> QED
    BY <2>1 DEF Candidates
<1> HIDE DEF n
<1>8. TypeOK'
  <2>1. cursor' \in 1..(Len(raw') + 1)
    BY <1>1, <1>2, <1>6
  <2>2. \A i \in 1..(n + 1) :
            /\ candidates'[i].kind \in Kinds
            /\ candidates'[i].offset \in 1..Len(raw)
            /\ candidates'[i].end \in (candidates'[i].offset + 1)..(Len(raw) + 1)
    <3>1. \A i \in 1..n :
            /\ candidates[i].kind \in Kinds
            /\ candidates[i].offset \in 1..Len(raw)
            /\ candidates[i].end \in (candidates[i].offset + 1)..(Len(raw) + 1)
      BY <1>3 DEF ScanInv, TypeOK, n
    <3>2. \A i \in 1..(n + 1) : i \in 1..n \/ i = n + 1
      BY <1>4
    <3>3. offset \in 1..Len(raw)
      BY <1>2
    <3> QED
      BY <1>1, <1>4, <1>5, <1>6, <3>1, <3>2, <3>3
  <2>3. DOMAIN candidates' = 1..(n + 1)
    BY <1>4
  <2>4. \A k \in DOMAIN consumed' :
            /\ consumed'[k].offset \in 1..Len(raw)
            /\ consumed'[k].end \in (consumed'[k].offset + 1)..(Len(raw) + 1)
    <3>1. \A k \in 1..Len(consumed) :
            /\ consumed[k].offset \in 1..Len(raw)
            /\ consumed[k].end \in (consumed[k].offset + 1)..(Len(raw) + 1)
      BY DEF ScanInv, TypeOK
    <3>2. CASE kind \in Taken
      <4>1. /\ Len(consumed') = Len(consumed) + 1 /\ Len(consumed) \in Nat
            /\ consumed' \in Seq(Spans)
            /\ \A k \in 1..Len(consumed) : consumed'[k] = consumed[k]
            /\ consumed'[Len(consumed) + 1] = [offset |-> offset, end |-> end]
        BY <1>0, <3>2, Zenon DEF Effect
      <4>2. \A k \in DOMAIN consumed' : k \in 1..Len(consumed) \/ k = Len(consumed) + 1
        BY <4>1
      <4>3. offset \in 1..Len(raw)
        BY <1>2
      <4>4. ASSUME NEW k \in 1..Len(consumed)
            PROVE  /\ consumed'[k].offset \in 1..Len(raw)
                   /\ consumed'[k].end \in (consumed'[k].offset + 1)..(Len(raw) + 1)
        BY <3>1, <4>1, Zenon
      <4>5. ASSUME NEW k, k = Len(consumed) + 1
            PROVE  /\ consumed'[k].offset \in 1..Len(raw)
                   /\ consumed'[k].end \in (consumed'[k].offset + 1)..(Len(raw) + 1)
        <5>1. consumed'[k].offset = offset /\ consumed'[k].end = end
          BY <4>1, <4>5
        <5> QED
          BY <1>6, <4>3, <5>1
      <4> QED
        BY <4>2, <4>4, <4>5, Zenon
    <3>3. CASE kind \notin Taken
      <4>1. consumed' = consumed
        BY <1>0, <3>3 DEF Effect
      <4>2. DOMAIN consumed = 1..Len(consumed)
        BY DEF ScanInv
      <4> QED
        BY <3>1, <4>1, <4>2
    <3> QED
      BY <3>2, <3>3
  <2>5. collected' \in 0..Len(consumed') /\ position' = position /\ unparsed' = unparsed
    <3>1. /\ Len(consumed') \in Nat /\ Len(consumed) \in Nat
          /\ Len(consumed') >= Len(consumed)
      <4>1. Len(consumed) \in Nat /\ consumed' \in Seq(Spans)
        BY <1>0 DEF Effect
      <4>2. Len(consumed') = Len(consumed) \/ Len(consumed') = Len(consumed) + 1
        BY <1>0 DEF Effect
      <4> QED
        BY <4>1, <4>2
    <3>2. UNCHANGED collecting
      BY <1>0 DEF Effect
    <3>3. collected \in 0..Len(consumed)
      BY DEF ScanInv, TypeOK
    <3> QED
      BY <3>1, <3>2, <3>3 DEF collecting
  <2>6. position \in 1..(Len(raw) + 1) /\ unparsed \in Seq(Nat)
    BY DEF ScanInv, TypeOK
  <2>7. /\ collected' \in 0..Len(consumed') /\ position' \in 1..(Len(raw) + 1)
        /\ unparsed' \in Seq(Nat) /\ classification' \in Classifications \cup {"none"}
    BY <1>1, <2>5, <2>6
  <2>8. cursor' \in 1..(Len(raw) + 1) /\ raw' = raw
    BY <1>1, <2>1
  <2>9. (\A i \in DOMAIN candidates :
            /\ candidates[i].kind \in Kinds
            /\ candidates[i].offset \in 1..Len(raw)
            /\ candidates[i].end \in (candidates[i].offset + 1)..(Len(raw) + 1))'
    BY <2>2, <2>3, <2>8, Zenon
  <2>10. (\A k \in DOMAIN consumed :
            /\ consumed[k].offset \in 1..Len(raw)
            /\ consumed[k].end \in (consumed[k].offset + 1)..(Len(raw) + 1))'
    BY <2>4, <2>8, Zenon
  <2>11. (/\ cursor \in 1..(Len(raw) + 1) /\ collected \in 0..Len(consumed)
         /\ position \in 1..(Len(raw) + 1) /\ unparsed \in Seq(Nat)
         /\ classification \in Classifications \cup {"none"})'
    BY <2>7, <2>8, Zenon
  <2> QED
    BY <2>9, <2>10, <2>11, Zenon DEF TypeOK
<1>9. StreamInv' /\ DoneInv'
  BY <1>1 DEF ScanInv, StreamInv, DoneInv
<1>10. BehindInv'
  <2> SUFFICES ASSUME NEW f \in sent, ~(f.offset >= next), Clear(f)
               PROVE  FoundIn(f, candidates')
    <3>1. \A f \in sent : Clear(f)' <=> Clear(f)
      BY <1>1, ClearLasts
    <3> QED
      BY <1>1, <3>1 DEF BehindInv
  <2>1. \A g \in sent : g.offset \in Nat /\ Len(g.data) \in Nat /\ size(g.offset) = Len(g.data)
    BY SentFrameIsSeen DEF ScanInv
  <2>2. ASSUME NEW g \in sent, FoundIn(g, candidates)
        PROVE  \E i \in 1..n : /\ candidates[i].offset = g.offset
                               /\ candidates[i].end = g.offset + Len(g.data)
                               /\ candidates[i].kind \in Taken /\ candidates[i].end <= cursor
    BY <2>2 DEF FoundIn, ScanInv, TakenInv, n
  <2>3. CASE f.offset >= cursor
    <3>1. f.offset \in offset..(next - 1)
      BY <1>2, <1>6, <2>1, <2>3
    <3>2. ASSUME Swallows(offset, f.offset) PROVE FALSE
      <4>1. /\ offset < f.offset /\ f.offset < offset + size(offset)
            /\ offset \in HeadersFrom(1)
        <5>1. offset \in HeadersFrom(cursor)
          BY <1>2 DEF Found
        <5> QED
          BY <1>2, <3>2, <5>1, Constants DEF Swallows, HeadersFrom
      <4>2. offset \notin Strays
        BY <2>1, <3>2 DEF Clear
      <4>3. PICK g \in sent : ~(offset < g.offset) /\ ~(g.offset + Len(g.data) <= offset)
        BY <4>1, <4>2 DEF Strays
      <4>4. CASE g.offset = offset
        <5>1. g # f /\ f.offset < g.offset + Len(g.data)
          BY <1>2, <2>1, <4>1, <4>4
        <5>2. \/ g.offset + Len(g.data) <= f.offset
              \/ f.offset + Len(f.data) <= g.offset
          BY <5>1, SentFrameIsSeen DEF ScanInv
        <5> QED
          BY <1>2, <2>1, <4>1, <4>4, <5>1, <5>2
      <4>5. CASE g.offset < offset
        <5>1. ~(g.offset >= cursor)
          BY <1>2, <2>1, <4>5
        <5>2. Clear(g)
          <6>1. \A h \in sent : h.offset <= g.offset => h.offset <= f.offset
            BY <1>2, <2>1, <4>1, <4>5
          <6> QED
            BY <6>1 DEF Clear
        <5>3. FoundIn(g, candidates)
          BY <5>1, <5>2 DEF ScanInv, BehindInv
        <5>4. g.offset + Len(g.data) <= cursor
          BY <2>2, <5>3
        <5> QED
          BY <1>2, <2>1, <4>3, <5>4
      <4> QED
        BY <1>2, <2>1, <4>3, <4>4, <4>5
    <3>3. kind \in Taken /\ offset = f.offset /\ end = offset + Len(f.data)
      BY <3>1, <3>2 DEF Turn
    <3>4. n + 1 \in 1..(n + 1)
      BY <1>4
    <3> QED
      BY <1>4, <1>5, <3>3, <3>4 DEF FoundIn
  <2>4. CASE ~(f.offset >= cursor)
    <3>1. FoundIn(f, candidates)
      BY <2>4 DEF ScanInv, BehindInv
    <3>2. PICK i \in 1..n : /\ candidates[i].kind \in Taken
                            /\ candidates[i].offset = f.offset
                            /\ candidates[i].end = f.offset + Len(f.data)
      BY <2>2, <3>1
    <3>3. i \in 1..(n + 1) /\ candidates'[i] = candidates[i]
      BY <1>4, <3>2
    <3> QED
      BY <1>4, <3>2, <3>3 DEF FoundIn
  <2> QED
    BY <2>3, <2>4
<1>11. TakenInv'
  <2>1. /\ \A i \in 1..n : candidates[i].kind \in Taken => candidates[i].end <= cursor
        /\ \A i, j \in 1..n :
            i < j /\ candidates[i].kind \in Taken => candidates[i].end <= candidates[j].offset
        /\ \A i \in 1..n :
            candidates[i].kind \in Accepted => Slice(candidates[i].offset, candidates[i].end) # TX
    BY DEF ScanInv, TakenInv, n
  <2>2. \A i \in 1..(n + 1) : i \in 1..n \/ i = n + 1
    BY <1>4
  <2>3. \A i \in 1..(n + 1) : candidates'[i].kind \in Taken => candidates'[i].end <= next
    <3>1. ASSUME NEW i \in 1..n, candidates[i].kind \in Taken
          PROVE  candidates[i].end <= next
      BY <1>2, <1>6, <1>7, <2>1, <3>1
    <3>2. kind \in Taken => end <= next
      BY <1>6
    <3> QED
      BY <1>4, <1>5, <2>2, <3>1, <3>2
  <2>4. ASSUME NEW i \in 1..(n + 1), NEW j \in 1..(n + 1), i < j, candidates'[i].kind \in Taken
        PROVE  candidates'[i].end <= candidates'[j].offset
    <3>1. i \in 1..n /\ candidates'[i] = candidates[i]
      BY <1>4, <2>4
    <3>2. CASE j \in 1..n
      BY <1>4, <2>1, <2>4, <3>1, <3>2
    <3>3. CASE j = n + 1
      <4>1. candidates[i].end <= cursor /\ candidates[i].end \in Nat
        BY <1>7, <2>1, <2>4, <3>1
      <4> QED
        BY <1>2, <1>4, <1>5, <3>1, <3>3, <4>1
    <3> QED
      BY <2>2, <3>2, <3>3
  <2>5. \A i \in 1..(n + 1) :
            candidates'[i].kind \in Accepted =>
                SubSeq(raw, candidates'[i].offset, candidates'[i].end - 1) # TX
    <3>1. SubSeq(raw, c.offset, c.end - 1) # TX \/ c.kind \notin Accepted
      BY <1>5, <1>6 DEF Slice
    <3>2. \A i \in 1..n : candidates[i].kind \in Accepted =>
            SubSeq(raw, candidates[i].offset, candidates[i].end - 1) # TX
      BY <2>1 DEF Slice
    <3> QED
      BY <1>4, <2>2, <3>1, <3>2
  <2> QED
    BY <1>1, <1>4, <2>3, <2>4, <2>5 DEF TakenInv, Slice
<1>12. consumed' \in Seq(Spans)
  BY <1>0 DEF Effect
<1> QED
  BY <1>1, <1>4, <1>6, <1>8, <1>9, <1>10, <1>11, <1>12 DEF ScanInv

\* One turn, candidate by candidate.
LEMMA CandidateTurns ==
    ASSUME ScanInv, Candidate
    PROVE  \E kind, offset, end, next : Turn(kind, offset, end, next)
<1> PICK offset \in Found :
        \/ Cut(offset)
        \/ BadHeader(offset)
        \/ \E frame \in WholeFrames(offset) :
            Echo(offset, frame) \/ BadFrame(offset, frame) \/ GoodFrame(offset, frame)
  BY DEF Candidate
<1> DEFINE end == Len(raw) + 1
<1>1. /\ Len(raw) \in Nat /\ offset \in 1..Len(raw) /\ offset \in Nat \ {0}
      /\ end \in (offset + 1)..(Len(raw) + 1)
      /\ \A f \in sent : f.offset \in 1..Len(raw) /\ Len(f.data) \in Nat
      /\ HeaderSize \in Nat
  <2>1. \A f \in sent : f.offset \in 1..Len(raw) /\ Len(f.data) \in Nat
    BY SentFrameIsSeen DEF ScanInv
  <2> QED
    BY <2>1, FoundIsFirst, Constants
<1>2. EchoAt(offset) =>
        ~HeaderCut(offset) /\ size(offset) # 0 /\ WholeFrames(offset) = {TX}
  BY <1>1, EchoIsSeen DEF ScanInv, StreamInv
<1>3. CASE Cut(offset)
  <2>1. Record("incomplete", offset, end, end)
    BY <1>3 DEF Cut
  <2>2. ASSUME NEW f \in sent, f.offset \in offset..(end - 1)
        PROVE  Swallows(offset, f.offset)
    <3>1. offset < f.offset
      <4>1. f.offset # offset
        BY <1>3, SentFrameIsSeen DEF Cut, ScanInv
      <4> QED
        BY <1>1, <2>2, <4>1
    <3>2. ~HeaderCut(offset)
      <4>1. HeaderSize <= Len(f.data) /\ f.offset + Len(f.data) <= Len(raw) + 1
        BY SentFrameIsSeen DEF ScanInv
      <4> QED
        BY <1>1, <3>1, <4>1 DEF HeaderCut
    <3>3. size(offset) # 0 /\ WholeFrames(offset) = {}
      BY <1>3, <3>2 DEF Cut
    <3>4. size(offset) \in Nat
      BY <1>1, <3>2, SizeIsNat DEF ScanInv
    <3>5. ~(size(offset) \in 1..(Len(raw) + 1 - offset))
      BY <3>2, <3>3 DEF WholeFrames
    <3>6. f.offset < offset + size(offset)
      BY <1>1, <3>3, <3>4, <3>5
    <3> QED
      BY <3>1, <3>3, <3>6 DEF Swallows
  <2>3. /\ "incomplete" \in Kinds /\ "incomplete" # "invalid" /\ "incomplete" # "echo"
        /\ "incomplete" \notin Taken /\ "incomplete" \notin Accepted
    BY DEF Kinds, Accepted, Taken
  <2>4. ~EchoAt(offset)
    BY <1>2, <1>3 DEF Cut
  <2>5. Turn("incomplete", offset, end, end)
    <3> HIDE DEF end
    <3>1. end = Len(raw) + 1
      BY DEF end
    <3> QED
      BY <1>1, <2>1, <2>2, <2>3, <2>4, <3>1 DEF Turn
  <2> QED
    BY <2>5
<1>4. CASE BadHeader(offset)
  <2>1. /\ offset + HeaderSize \in (offset + 1)..(Len(raw) + 1)
        /\ offset + 1 \in (offset + 1)..(Len(raw) + 1)
    BY <1>1, <1>4, Constants DEF BadHeader, HeaderCut
  <2>2. Record("invalid", offset, offset + HeaderSize, offset + 1)
    BY <1>4 DEF BadHeader
  <2>3. \A f \in sent : f.offset \notin offset..((offset + 1) - 1)
    <3>1. \A f \in sent : f.offset # offset
      BY <1>4, SentFrameIsSeen DEF BadHeader, ScanInv
    <3> QED
      BY <1>1, <3>1
  <2>4. /\ "invalid" \in Kinds /\ "invalid" \notin Taken /\ "invalid" \notin Accepted
        /\ "invalid" # "echo" /\ "invalid" # "incomplete"
    BY DEF Kinds, Accepted, Taken
  <2>5. ~EchoAt(offset)
    BY <1>2, <1>4 DEF BadHeader
  <2>6. Turn("invalid", offset, offset + HeaderSize, offset + 1)
    BY <2>1, <2>2, <2>3, <2>4, <2>5 DEF Turn
  <2> QED
    BY <2>6
<1>5. ASSUME NEW frame \in WholeFrames(offset),
             Echo(offset, frame) \/ BadFrame(offset, frame) \/ GoodFrame(offset, frame)
      PROVE  \E kind, end1, next : Turn(kind, offset, end1, next)
  <2> DEFINE next == offset + Len(frame)
  <2>1. PICK n \in 1..(Len(raw) + 1 - offset) :
            /\ frame = Slice(offset, offset + n)
            /\ n = size(offset) /\ ~HeaderCut(offset)
    BY DEF WholeFrames
  <2>2. frame \in Seq(Nat) /\ Len(frame) = n
    <3> DEFINE m == offset + n
    <3>1. raw \in Seq(Nat) /\ frame = SubSeq(raw, offset, m - 1)
      BY <2>1 DEF Slice, ScanInv, StreamInv
    <3>2. /\ offset \in 1..(Len(raw) + 1) /\ m \in offset..(Len(raw) + 1)
          /\ m - offset = n
      BY <1>1, <2>1
    <3> HIDE DEF m
    <3> QED
      BY <3>1, <3>2, SliceOf
  <2>3. /\ next \in (offset + 1)..(Len(raw) + 1) /\ next \in Nat
        /\ offset + 1 \in (offset + 1)..(Len(raw) + 1)
        /\ frame = Slice(offset, next)
    BY <1>1, <2>1, <2>2
  <2>4. EchoAt(offset) => frame = TX
    BY <1>2
  <2>5. ASSUME frame = TX \/ Status(frame) \in Accepted, NEW f \in sent,
               f.offset \in offset..(next - 1)
        PROVE  \/ offset = f.offset /\ next = offset + Len(f.data)
               \/ Swallows(offset, f.offset)
    <3>1. CASE offset = f.offset
      <4>1. frame = f.data
        BY <3>1, SentFrameIsSeen DEF ScanInv
      <4> QED
        BY <3>1, <4>1
    <3>2. CASE offset # f.offset
      <4>1. offset < f.offset /\ f.offset < offset + size(offset)
        BY <1>1, <2>1, <2>2, <2>5, <3>2
      <4>2. \A other \in WholeFrames(offset) : other = frame
        BY <2>1 DEF WholeFrames
      <4> QED
        BY <2>5, <4>1, <4>2 DEF Swallows
    <3> QED
      BY <3>1, <3>2
  <2>6. CASE Echo(offset, frame)
    <3>1. Record("echo", offset, next, next) /\ frame = TX
      BY <2>6 DEF Echo
    <3>2. /\ "echo" \in Kinds /\ "echo" \in Taken /\ "echo" \notin Accepted
          /\ "echo" # "invalid" /\ "echo" # "incomplete"
      BY DEF Kinds, Taken, Accepted
    <3>3. \A f \in sent : f.offset \in offset..(next - 1) =>
            \/ offset = f.offset /\ next = offset + Len(f.data)
            \/ Swallows(offset, f.offset)
      BY <2>5, <3>1
    <3>4. next = offset + Len(TX)
      BY <3>1
    <3> HIDE DEF next
    <3>5. Turn("echo", offset, next, next)
      BY <2>3, <3>1, <3>2, <3>3, <3>4 DEF Turn
    <3> QED
      BY <3>5
  <2>7. CASE GoodFrame(offset, frame)
    <3>1. PICK kind \in Accepted :
            Record(kind, offset, next, next) /\ frame # TX /\ Status(frame) = kind
      BY <2>7 DEF GoodFrame
    <3>2. /\ kind \in Kinds /\ kind \in Taken /\ kind # "echo"
          /\ kind # "invalid" /\ kind # "incomplete"
      BY DEF Kinds, Taken, Accepted
    <3>3. \A f \in sent : f.offset \in offset..(next - 1) =>
            \/ offset = f.offset /\ next = offset + Len(f.data)
            \/ Swallows(offset, f.offset)
      BY <2>5, <3>1
    <3>4. next = offset + size(offset) /\ ~HeaderCut(offset)
      BY <2>1, <2>2
    <3> HIDE DEF next
    <3>5. Turn(kind, offset, next, next)
      BY <2>3, <2>4, <3>1, <3>2, <3>3, <3>4 DEF Turn
    <3> QED
      BY <3>5
  <2>8. CASE BadFrame(offset, frame)
    <3>1. Record("invalid", offset, next, offset + 1) /\ frame # TX
      BY <2>8 DEF BadFrame
    <3>2. \A f \in sent : f.offset \notin offset..((offset + 1) - 1)
      <4>1. \A f \in sent : f.offset # offset
        BY <2>8, SentFrameIsSeen DEF BadFrame, ScanInv
      <4> QED
        BY <1>1, <4>1
    <3>3. /\ "invalid" \in Kinds /\ "invalid" \notin Taken /\ "invalid" \notin Accepted
          /\ "invalid" # "echo" /\ "invalid" # "incomplete"
      BY DEF Kinds, Accepted, Taken
    <3> HIDE DEF next
    <3>4. Turn("invalid", offset, next, offset + 1)
      BY <2>3, <2>4, <3>1, <3>2, <3>3 DEF Turn
    <3> QED
      BY <3>4
  <2> QED
    BY <1>5, <2>6, <2>7, <2>8
<1> QED
  BY <1>3, <1>4, <1>5

\* A turn of the first loop.
LEMMA CandidateKeeps == ASSUME ScanInv, Candidate PROVE ScanInv' /\ cursor' > cursor
BY CandidateTurns, RecordKeeps

LEMMA MaxOfTwo ==
    ASSUME NEW a \in Int, NEW b \in Int, a <= b
    PROVE  Max({a, b}) = b
<1>1. b \in {a, b} /\ \A y \in {a, b} : b >= y
  OBVIOUS
<1>2. \A x \in {a, b} : (\A y \in {a, b} : x >= y) => x = b
  OBVIOUS
<1> QED
  BY <1>1, <1>2 DEF Max

\* A turn of the second loop, whose next frame begins where the last one ended
\* or later.
LEMMA CollectKeeps ==
    ASSUME ScanInv, Collect, position <= consumed[collected + 1].offset
    PROVE  /\ ScanInv'
           /\ collected + 1 \in 1..Len(consumed) /\ collected \in Nat
           /\ position' = consumed[collected + 1].end
           /\ unparsed' = unparsed \o Slice(position, consumed[collected + 1].offset)
<1> DEFINE taken == consumed[collected + 1]
<1>1. /\ UNCHANGED <<raw, sent, cursor, candidates, consumed, classification>>
      /\ collected' = collected + 1 /\ collected < Len(consumed)
      /\ unparsed' = unparsed \o Slice(position, taken.offset)
      /\ position' = Max({position, taken.end})
  BY DEF Collect
<1>2. /\ consumed \in Seq(Spans) /\ collected \in 0..Len(consumed) /\ raw \in Seq(Nat)
      /\ position \in 1..(Len(raw) + 1) /\ unparsed \in Seq(Nat)
      /\ Len(consumed) \in Nat /\ Len(raw) \in Nat
  BY DEF ScanInv, TypeOK, StreamInv
<1>3. collected + 1 \in 1..Len(consumed) /\ collected \in Nat
  BY <1>1, <1>2
<1>4. taken.offset \in 1..Len(raw) /\ taken.end \in (taken.offset + 1)..(Len(raw) + 1)
  BY <1>2, <1>3 DEF ScanInv, TypeOK
<1>5. position <= taken.offset
  OBVIOUS
<1> HIDE DEF taken
<1>6. position' = taken.end
  <2>1. position \in Int /\ taken.end \in Int /\ position <= taken.end
    BY <1>2, <1>4, <1>5
  <2> QED
    BY <1>1, <2>1, MaxOfTwo
<1>7. unparsed' \in Seq(Nat)
  <2>1. position \in 1..(Len(raw) + 1) /\ taken.offset \in position..(Len(raw) + 1)
    BY <1>2, <1>4, <1>5
  <2>2. Slice(position, taken.offset) \in Seq(Nat)
    BY <1>2, <2>1, SliceOf DEF Slice
  <2> QED
    BY <1>1, <1>2, <2>2
<1>8. TypeOK'
  <2>1. /\ cursor' \in 1..(Len(raw) + 1) /\ raw' = raw /\ consumed' = consumed
        /\ classification' \in Classifications \cup {"none"} /\ candidates' = candidates
    BY <1>1 DEF ScanInv, TypeOK
  <2>2. collected' \in 0..Len(consumed) /\ position' \in 1..(Len(raw) + 1)
    <3>1. collected + 1 \in 0..Len(consumed)
      BY <1>2, <1>3
    <3>2. taken.end \in 1..(Len(raw) + 1)
      BY <1>2, <1>4
    <3> QED
      BY <1>1, <1>6, <3>1, <3>2
  <2>3. /\ \A i \in DOMAIN candidates :
            /\ candidates[i].kind \in Kinds
            /\ candidates[i].offset \in 1..Len(raw)
            /\ candidates[i].end \in (candidates[i].offset + 1)..(Len(raw) + 1)
        /\ \A k \in DOMAIN consumed :
            /\ consumed[k].offset \in 1..Len(raw)
            /\ consumed[k].end \in (consumed[k].offset + 1)..(Len(raw) + 1)
    BY DEF ScanInv, TypeOK
  <2> QED
    <3>1. (\A i \in DOMAIN candidates :
              /\ candidates[i].kind \in Kinds
              /\ candidates[i].offset \in 1..Len(raw)
              /\ candidates[i].end \in (candidates[i].offset + 1)..(Len(raw) + 1))'
      BY <2>1, <2>3, Zenon
    <3>2. (\A k \in DOMAIN consumed :
              /\ consumed[k].offset \in 1..Len(raw)
              /\ consumed[k].end \in (consumed[k].offset + 1)..(Len(raw) + 1))'
      BY <2>1, <2>3, Zenon
    <3>3. (/\ cursor \in 1..(Len(raw) + 1) /\ collected \in 0..Len(consumed)
           /\ position \in 1..(Len(raw) + 1) /\ unparsed \in Seq(Nat)
           /\ classification \in Classifications \cup {"none"})'
      BY <1>7, <2>1, <2>2, Zenon
    <3> QED
      BY <3>1, <3>2, <3>3, Zenon DEF TypeOK
<1>9. StreamInv' /\ BehindInv' /\ TakenInv' /\ DoneInv'
  <2>1. BehindInv'
    BY <1>1, ClearLasts DEF ScanInv, BehindInv, FoundIn
  <2> QED
    BY <1>1, <2>1 DEF ScanInv, StreamInv, TakenInv, Slice, DoneInv, HeadersFrom
<1> QED
  <2>1. (candidates \in Seq(Candidates) /\ consumed \in Seq(Spans))'
    BY <1>1 DEF ScanInv
  <2>2. ScanInv'
    BY <1>8, <1>9, <2>1 DEF ScanInv
  <2> QED
    BY <1>1, <1>3, <1>6, <2>2 DEF taken

LEMMA FinishKeeps == ASSUME ScanInv, Finish PROVE ScanInv'
<1>1. /\ UNCHANGED <<raw, sent, cursor, candidates, consumed, collected, position>>
      /\ HeadersFrom(cursor) = {} /\ classification' = Classify /\ unparsed' = Unparsed
  BY DEF Finish, Scanned
<1>2. Classify \in Classifications
  BY DEF Classify, Classifications
<1>3. unparsed' \in Seq(Nat)
  <2>1. /\ raw \in Seq(Nat) /\ position \in 1..(Len(raw) + 1) /\ unparsed \in Seq(Nat)
        /\ Len(raw) + 1 \in position..(Len(raw) + 1)
    BY DEF ScanInv, TypeOK, StreamInv
  <2>2. Slice(position, Len(raw) + 1) \in Seq(Nat)
    BY <2>1, SliceOf DEF Slice
  <2> QED
    BY <1>1, <2>1, <2>2 DEF Unparsed
<1>4. TypeOK'
  <2>1. (\A i \in DOMAIN candidates :
            /\ candidates[i].kind \in Kinds
            /\ candidates[i].offset \in 1..Len(raw)
            /\ candidates[i].end \in (candidates[i].offset + 1)..(Len(raw) + 1))'
    BY <1>1 DEF ScanInv, TypeOK
  <2>2. (\A k \in DOMAIN consumed :
            /\ consumed[k].offset \in 1..Len(raw)
            /\ consumed[k].end \in (consumed[k].offset + 1)..(Len(raw) + 1))'
    BY <1>1 DEF ScanInv, TypeOK
  <2>3. (/\ cursor \in 1..(Len(raw) + 1) /\ collected \in 0..Len(consumed)
         /\ position \in 1..(Len(raw) + 1))'
    BY <1>1 DEF ScanInv, TypeOK
  <2> QED
    BY <1>1, <1>2, <1>3, <2>1, <2>2, <2>3 DEF TypeOK
<1>5. StreamInv' /\ BehindInv' /\ TakenInv'
  <2>1. BehindInv'
    BY <1>1, ClearLasts DEF ScanInv, BehindInv, FoundIn
  <2> QED
    BY <1>1, <2>1 DEF ScanInv, StreamInv, TakenInv, Slice
<1>6. DoneInv'
  BY <1>1 DEF DoneInv, HeadersFrom, Slice
<1>7. (consumed \in Seq(Spans) /\ candidates \in Seq(Candidates))'
  BY <1>1 DEF ScanInv
<1> QED
  BY <1>4, <1>5, <1>6, <1>7 DEF ScanInv

LEMMA ScanInit == ASSUME Init PROVE ScanInv
<1>1. PICK s \in Streams : raw = s.raw /\ sent = s.sent
  BY DEF Init
<1>2. raw \in Seq(Nat) /\ \A f \in sent : f.offset \in 1..Len(raw)
  BY <1>1, StreamAssumption
<1>3. /\ cursor = 1 /\ candidates = << >> /\ classification = "none"
      /\ consumed = << >> /\ collected = 0 /\ position = 1 /\ unparsed = << >>
  BY DEF Init
<1>4. << >> \in Seq(Candidates) /\ << >> \in Seq(Spans) /\ << >> \in Seq(Nat) /\ Len(<< >>) = 0
  OBVIOUS
<1>5. TypeOK
  BY <1>2, <1>3, <1>4 DEF TypeOK
<1>6. StreamInv /\ BehindInv /\ DoneInv /\ TakenInv
  BY <1>1, <1>2, <1>3 DEF StreamInv, BehindInv, DoneInv, TakenInv
<1> QED
  BY <1>3, <1>4, <1>5, <1>6 DEF ScanInv

-----------------------------------------------------------------------------
(* What the candidates are, and what becomes of the bytes between them.    *)

\* Frames and echoes, and nothing else, are consumed.
LinkInv ==
    /\ \A k \in 1..Len(consumed) : \E i \in 1..Len(candidates) :
        /\ candidates[i].kind \in Taken
        /\ candidates[i].offset = consumed[k].offset /\ candidates[i].end = consumed[k].end
    /\ \A i \in 1..Len(candidates) : candidates[i].kind \in Taken =>
        \E k \in 1..Len(consumed) :
            candidates[i].offset = consumed[k].offset /\ candidates[i].end = consumed[k].end

SpanInv ==
    /\ \A k \in 1..Len(consumed) : consumed[k].end <= cursor
    /\ \A j, k \in 1..Len(consumed) : j < k => consumed[j].end <= consumed[k].offset

\* Before the first candidate the scan has not moved, every candidate begins
\* like a frame, an echo is the request, and a cut candidate is the last one.
KindInv ==
    /\ candidates = << >> => cursor = 1
    /\ \A i \in 1..Len(candidates) : candidates[i].offset \in HeadersFrom(1)
    /\ \A i \in 1..Len(candidates) : candidates[i].kind = "echo" =>
        /\ Slice(candidates[i].offset, candidates[i].end) = TX
        /\ candidates[i].end = candidates[i].offset + Len(TX)
    /\ \A i \in 1..Len(candidates) : candidates[i].kind = "incomplete" =>
        i = Len(candidates) /\ cursor = Len(raw) + 1

\* A response has the size it declares and its bytes decode to its status.
Genuine(c) ==
    /\ ~HeaderCut(c.offset) /\ c.end = c.offset + size(c.offset)
    /\ Status(Slice(c.offset, c.end)) = c.kind

GenuineInv ==
    \A i \in 1..Len(candidates) : candidates[i].kind \in Accepted => Genuine(candidates[i])

\* The second loop runs when the first one is over, from span to span.
PassInv ==
    /\ collected # 0 => HeadersFrom(cursor) = {}
    /\ position = IF collected = 0 THEN 1 ELSE consumed[collected].end
    /\ classification = "none" /\ collected = 0 => unparsed = << >>

PartInv ==
    IF classification = "none" THEN Parts(unparsed, raw, Outside, position)
    ELSE Parts(unparsed, raw, Outside, Len(raw) + 1)

\* As long as nothing is left over, and nothing answered, the bytes that are
\* passed are copies of the request.
CopiesInv ==
    classification = "none" /\ unparsed = << >> /\ Valid = {} =>
        /\ position = collected * Len(TX) + 1
        /\ \A m \in 0..(collected - 1) : CopyAt(m) = TX

\* In copies of the request the scan goes from one to the next.
EchoesInv ==
    IsEchoes =>
        /\ \E n \in Nat : cursor = n * Len(TX) + 1
        /\ \A i \in 1..Len(candidates) : candidates[i].kind = "echo"
        /\ \A j \in 1..(cursor - 1) : \E k \in 1..Len(consumed) : Covers(consumed[k], j)

CollectionInv ==
    /\ LinkInv /\ SpanInv /\ KindInv /\ GenuineInv /\ PassInv
    /\ PartInv /\ CopiesInv /\ EchoesInv /\ ClassificationIsExact

AnalysisInv == ScanInv /\ CollectionInv

LEMMA NothingBeforeTheFirst ==
    ASSUME NEW s \in Seq(Nat), NEW S \in SUBSET (1..Len(s))
    PROVE  Parts(<< >>, s, S, 1)
<1>1. \A i \in S : i \in Nat /\ 1 <= i
  OBVIOUS
<1>2. \A i \in S : ~(i <= 0) /\ ~(i < 1)
  BY <1>1
<1>3. \A i : i \notin Upto(S, 0)
  BY <1>2, InUpto
<1>4. Upto(S, 0) = {}
  BY <1>3
<1>5. Count(S, 0) = 0
  BY <1>4, FS_EmptySet DEF Count
<1>6. 1 - 1 = 0 /\ Len(<< >>) = 0
  OBVIOUS
<1> QED
  BY <1>2, <1>5, <1>6 DEF Parts

LEMMA Multiples ==
    ASSUME NEW a \in Nat, NEW b \in Nat, NEW n \in Nat \ {0}
    PROVE  /\ (a + 1) * n = a * n + n /\ a * n \in Nat
           /\ a * n < b * n => a < b
           /\ a * n = b * n => a = b
<1>1. (a + 1) * n = a * n + n /\ a * n \in Nat /\ b * n \in Nat
  OBVIOUS
<1>2. ASSUME NEW c \in Nat, NEW d \in Nat, c < d
      PROVE  c * n < d * n
  <2> DEFINE e == d - c
  <2>1. e \in Nat \ {0} /\ d = c + e
    BY <1>2
  <2> HIDE DEF e
  <2>2. e * n >= 1
    BY <2>1
  <2>3. d * n = c * n + e * n
    BY <2>1
  <2>4. c * n \in Nat /\ e * n \in Nat
    BY <2>1
  <2> QED
    BY <2>2, <2>3, <2>4
<1>3. a < b \/ b < a \/ a = b
  OBVIOUS
<1>4. b < a => b * n < a * n
  BY <1>2
<1>5. a < b => a * n < b * n
  BY <1>2
<1> QED
  BY <1>1, <1>3, <1>4, <1>5

LEMMA EchoesOfSomething ==
    ASSUME raw \in Seq(Nat), IsEchoes
    PROVE  TX # << >>
<1> SUFFICES ASSUME TX = << >> PROVE FALSE
  OBVIOUS
<1>1. PICK n \in 1..Len(raw) : n * Len(TX) = Len(raw)
  BY DEF IsEchoes
<1>2. Len(TX) = 0 /\ Len(raw) \in Nat /\ n \in Nat
  BY <1>1
<1>3. Len(raw) = 0
  BY <1>1, <1>2
<1> QED
  BY <1>1, <1>3

\* The next copy of the request is where the scan goes on.
LEMMA NextCopy ==
    ASSUME ScanInv, IsEchoes, NEW n \in Nat, cursor = n * Len(TX) + 1, cursor <= Len(raw)
    PROVE  EchoAt(cursor) /\ cursor \in HeadersFrom(cursor)
<1>1. /\ raw \in Seq(Nat) /\ Len(raw) \in Nat /\ cursor \in 1..(Len(raw) + 1)
      /\ Len(TX) \in Nat \ {0} /\ TX # << >>
  <2>1. raw \in Seq(Nat) /\ cursor \in 1..(Len(raw) + 1)
    BY DEF ScanInv, TypeOK, StreamInv
  <2> QED
    BY <2>1, Constants, EchoesOfSomething
<1>2. PICK copies \in 1..Len(raw) :
        copies * Len(TX) = Len(raw) /\ \A m \in 0..(copies - 1) : CopyAt(m) = TX
  BY DEF IsEchoes
<1>3. copies \in Nat
  BY <1>1, <1>2
<1>4. n * Len(TX) < copies * Len(TX) /\ n * Len(TX) \in Nat
  BY <1>1, <1>2, Multiples
<1>5. n < copies
  BY <1>1, <1>3, <1>4, Multiples
<1>6. (n + 1) * Len(TX) = n * Len(TX) + Len(TX)
  BY <1>1, Multiples
<1>7. (n + 1) * Len(TX) <= Len(raw)
  <2>1. CASE n + 1 = copies
    BY <1>1, <1>2, <2>1
  <2>2. CASE n + 1 # copies
    <3> DEFINE rest == copies - (n + 1)
    <3>1. rest \in Nat /\ copies = (n + 1) + rest
      BY <1>3, <1>5
    <3> HIDE DEF rest
    <3>2. copies * Len(TX) = (n + 1) * Len(TX) + rest * Len(TX)
      BY <1>1, <3>1
    <3>3. rest * Len(TX) \in Nat /\ (n + 1) * Len(TX) \in Nat
      BY <1>1, <3>1
    <3> QED
      BY <1>1, <1>2, <3>2, <3>3
  <2> QED
    BY <2>1, <2>2
<1>8. CopyAt(n) = TX
  <2>1. n \in 0..(copies - 1)
    BY <1>3, <1>5
  <2> QED
    BY <1>2, <2>1
<1>9. CopyAt(n) = SubSeq(raw, cursor, cursor + Len(TX) - 1)
  <2>1. ((n + 1) * Len(TX) + 1) - 1 = cursor + Len(TX) - 1
    BY <1>1, <1>4, <1>6
  <2> QED
    BY <2>1 DEF CopyAt, Slice
<1>10. EchoAt(cursor)
  <2>1. cursor + Len(TX) <= Len(raw) + 1
    BY <1>1, <1>4, <1>6, <1>7
  <2>2. SubSeq(raw, cursor, cursor + Len(TX) - 1) = TX
    BY <1>8, <1>9
  <2> QED
    BY <1>1, <2>1, <2>2 DEF EchoAt
<1>11. cursor \in 1..Len(raw)
  BY <1>1
<1> QED
  BY <1>1, <1>10, <1>11, EchoIsSeen

LEMMA OutsideIsIn ==
    ASSUME raw \in Seq(Nat)
    PROVE  Outside \in SUBSET (1..Len(raw))
BY DEF Outside

LEMMA CollectionInit == ASSUME Init PROVE CollectionInv
<1>1. /\ cursor = 1 /\ candidates = << >> /\ classification = "none"
      /\ consumed = << >> /\ collected = 0 /\ position = 1 /\ unparsed = << >>
  BY DEF Init
<1>2. Len(<< >>) = 0 /\ 1..0 = {} /\ 0..(0 - 1) = {} /\ 1..(1 - 1) = {}
  OBVIOUS
<1>3. LinkInv /\ SpanInv /\ KindInv /\ GenuineInv /\ PassInv /\ ClassificationIsExact
  BY <1>1, <1>2 DEF LinkInv, SpanInv, KindInv, GenuineInv, PassInv, ClassificationIsExact
<1>4. Len(TX) \in Nat
  BY Constants
<1>5. CopiesInv /\ EchoesInv
  <2>1. 1 = 0 * Len(TX) + 1 /\ 0 \in Nat
    BY <1>4
  <2> QED
    BY <1>1, <1>2, <2>1 DEF CopiesInv, EchoesInv
<1>6. PartInv
  <2>1. raw \in Seq(Nat)
    BY ScanInit DEF ScanInv, StreamInv
  <2> QED
    BY <1>1, <2>1, OutsideIsIn, NothingBeforeTheFirst DEF PartInv
<1> QED
  BY <1>3, <1>5, <1>6 DEF CollectionInv

\* A turn of the first loop, with nothing collected yet.
LEMMA TurnExtends ==
    ASSUME ScanInv, CollectionInv, NEW kind, NEW offset, NEW end, NEW next,
           Turn(kind, offset, end, next)
    PROVE  CollectionInv'
<1> DEFINE n == Len(candidates)
           m == Len(consumed)
<1>1. Effect(kind, offset, end, next)
  BY TurnEffect
<1>2. /\ classification = "none" /\ classification' = "none" /\ cursor' = next
      /\ raw' = raw /\ collected' = collected /\ position' = position /\ unparsed' = unparsed
      /\ raw \in Seq(Nat) /\ Len(raw) \in Nat /\ cursor \in Nat \ {0}
      /\ offset \in cursor..Len(raw) /\ offset \in Nat \ {0}
      /\ next \in Nat /\ end \in Nat /\ offset < end /\ offset < next
      /\ next <= Len(raw) + 1 /\ end <= Len(raw) + 1
  BY <1>1 DEF Effect, collecting
<1>3. /\ candidates' \in Seq(Candidates) /\ n \in Nat /\ Len(candidates') = n + 1
      /\ \A i \in 1..n : candidates'[i] = candidates[i]
      /\ candidates'[n + 1] = [kind |-> kind, offset |-> offset, end |-> end]
  BY <1>1, Zenon DEF Effect
<1>4. /\ consumed' \in Seq(Spans) /\ m \in Nat
      /\ \A k \in 1..m : consumed'[k] = consumed[k]
  BY <1>1, Zenon DEF Effect
<1>5. kind \in Taken =>
        /\ Len(consumed') = m + 1
        /\ consumed'[m + 1] = [offset |-> offset, end |-> end]
  BY <1>1, Zenon DEF Effect
<1>6. kind \notin Taken => consumed' = consumed
  BY <1>1 DEF Effect
<1>7. /\ kind \in Kinds /\ offset \in Found /\ (kind \in Taken => end = next)
      /\ (kind = "echo" => Slice(offset, end) = TX /\ end = offset + Len(TX))
      /\ (EchoAt(offset) => kind = "echo")
      /\ (kind = "incomplete" => next = Len(raw) + 1)
  BY DEF Turn
<1>8. candidates'[n + 1].kind = kind /\ candidates'[n + 1].offset = offset
      /\ candidates'[n + 1].end = end
  BY <1>3
<1>9. kind \in Taken => consumed'[m + 1].offset = offset /\ consumed'[m + 1].end = end
  BY <1>5
<1>10. HeadersFrom(cursor) # {}
  BY <1>7 DEF Found
<1>11. collected = 0 /\ position = 1 /\ unparsed = << >>
  <2>1. PassInv
    BY DEF CollectionInv
  <2> QED
    BY <1>2, <1>10, <2>1 DEF PassInv
<1> HIDE DEF n, m
<1>12. (\A i \in 1..(n + 1) : i \in 1..n \/ i = n + 1) /\ n + 1 \in 1..(n + 1)
      /\ \A i \in 1..n : i \in 1..(n + 1)
  BY <1>3
<1>13. /\ Len(consumed') \in Nat
       /\ \A k \in 1..m : k \in 1..Len(consumed')
       /\ \A k \in 1..Len(consumed') : k \in 1..m \/ (kind \in Taken /\ k = m + 1)
       /\ kind \in Taken => m + 1 \in 1..Len(consumed')
  <2>1. CASE kind \in Taken
    BY <1>4, <1>5, <2>1
  <2>2. CASE kind \notin Taken
    BY <1>4, <1>6, <2>2 DEF m
  <2> QED
    BY <2>1, <2>2
<1>14. LinkInv'
  <2>1. /\ \A k \in 1..m : \E i \in 1..n :
            /\ candidates[i].kind \in Taken
            /\ candidates[i].offset = consumed[k].offset /\ candidates[i].end = consumed[k].end
        /\ \A i \in 1..n : candidates[i].kind \in Taken =>
            \E k \in 1..m :
                candidates[i].offset = consumed[k].offset /\ candidates[i].end = consumed[k].end
    BY DEF CollectionInv, LinkInv, n, m
  <2>2. ASSUME NEW k \in 1..Len(consumed')
        PROVE  \E i \in 1..(n + 1) :
                /\ candidates'[i].kind \in Taken
                /\ candidates'[i].offset = consumed'[k].offset
                /\ candidates'[i].end = consumed'[k].end
    <3>1. CASE k \in 1..m
      <4>1. PICK i \in 1..n :
                /\ candidates[i].kind \in Taken
                /\ candidates[i].offset = consumed[k].offset
                /\ candidates[i].end = consumed[k].end
        BY <2>1, <3>1
      <4>2. i \in 1..(n + 1) /\ candidates'[i] = candidates[i] /\ consumed'[k] = consumed[k]
        BY <1>3, <1>4, <1>12, <3>1, <4>1
      <4> QED
        BY <4>1, <4>2
    <3>2. CASE kind \in Taken /\ k = m + 1
      BY <1>8, <1>9, <1>12, <3>2
    <3> QED
      BY <1>13, <3>1, <3>2
  <2>3. ASSUME NEW i \in 1..(n + 1), candidates'[i].kind \in Taken
        PROVE  \E k \in 1..Len(consumed') :
                /\ candidates'[i].offset = consumed'[k].offset
                /\ candidates'[i].end = consumed'[k].end
    <3>1. CASE i \in 1..n
      <4>1. candidates'[i] = candidates[i]
        BY <1>3, <3>1
      <4>2. PICK k \in 1..m :
                candidates[i].offset = consumed[k].offset /\ candidates[i].end = consumed[k].end
        BY <2>1, <2>3, <3>1, <4>1
      <4>3. k \in 1..Len(consumed') /\ consumed'[k] = consumed[k]
        BY <1>4, <1>13
      <4> QED
        BY <4>1, <4>2, <4>3
    <3>2. CASE i = n + 1
      BY <1>8, <1>9, <1>13, <2>3, <3>2
    <3> QED
      BY <1>12, <3>1, <3>2
  <2> QED
    BY <1>3, <2>2, <2>3 DEF LinkInv
<1>15. SpanInv'
  <2>1. /\ \A k \in 1..m : consumed[k].end <= cursor
        /\ \A j, k \in 1..m : j < k => consumed[j].end <= consumed[k].offset
    BY DEF CollectionInv, SpanInv, m
  <2>2. \A k \in 1..m : consumed[k].end \in Nat
    <3>1. \A k \in 1..m : consumed[k] \in Spans
      BY DEF ScanInv, m
    <3> QED
      BY <3>1 DEF Spans
  <2>3. ASSUME NEW k \in 1..Len(consumed')
        PROVE  consumed'[k].end <= next
    <3>1. CASE k \in 1..m
      <4>1. consumed'[k].end <= cursor /\ consumed'[k].end \in Nat
        BY <1>4, <2>1, <2>2, <3>1
      <4>2. cursor \in Nat /\ next \in Nat /\ cursor <= next
        BY <1>2
      <4> QED
        BY <4>1, <4>2
    <3>2. CASE kind \in Taken /\ k = m + 1
      BY <1>2, <1>7, <1>9, <3>2
    <3> QED
      BY <1>13, <3>1, <3>2
  <2>4. ASSUME NEW j \in 1..Len(consumed'), NEW k \in 1..Len(consumed'), j < k
        PROVE  consumed'[j].end <= consumed'[k].offset
    <3>1. j \in 1..m
      BY <1>4, <1>13, <2>4
    <3>2. CASE k \in 1..m
      BY <1>4, <2>1, <2>4, <3>1, <3>2
    <3>3. CASE kind \in Taken /\ k = m + 1
      <4>1. consumed'[j].end <= cursor /\ consumed'[j].end \in Nat
        BY <1>4, <2>1, <2>2, <3>1
      <4>2. cursor \in Nat /\ offset \in Nat /\ cursor <= offset
        BY <1>2
      <4>3. consumed'[k].offset = offset
        BY <1>9, <3>3
      <4> QED
        BY <4>1, <4>2, <4>3
    <3> QED
      BY <1>13, <3>2, <3>3
  <2> QED
    BY <1>2, <2>3, <2>4 DEF SpanInv
<1>16. KindInv'
  <2>1. candidates' # << >>
    BY <1>3
  <2>2. \A i \in 1..n :
            /\ candidates[i].kind = "echo" =>
                /\ SubSeq(raw, candidates[i].offset, candidates[i].end - 1) = TX
                /\ candidates[i].end = candidates[i].offset + Len(TX)
            /\ candidates[i].kind # "incomplete"
    <3>1. \A i \in 1..n : candidates[i].kind = "incomplete" => cursor = Len(raw) + 1
      BY DEF CollectionInv, KindInv, n
    <3>2. cursor # Len(raw) + 1
      BY <1>2
    <3> QED
      BY <3>1, <3>2 DEF CollectionInv, KindInv, n, Slice
  <2>3. ASSUME NEW i \in 1..(n + 1)
        PROVE  /\ candidates'[i].kind = "echo" =>
                    /\ SubSeq(raw, candidates'[i].offset, candidates'[i].end - 1) = TX
                    /\ candidates'[i].end = candidates'[i].offset + Len(TX)
               /\ candidates'[i].kind = "incomplete" => i = n + 1 /\ next = Len(raw) + 1
    <3>1. CASE i \in 1..n
      <4>1. candidates'[i] = candidates[i]
        BY <1>3, <3>1
      <4> QED
        BY <2>2, <3>1, <4>1
    <3>2. CASE i = n + 1
      BY <1>7, <1>8, <3>2 DEF Slice
    <3> QED
      BY <1>12, <3>1, <3>2
  <2>4. \A i \in 1..(n + 1) : candidates'[i].offset \in HeadersFrom(1)
    <3>1. \A i \in 1..n : candidates[i].offset \in HeadersFrom(1)
      BY DEF CollectionInv, KindInv, n
    <3>2. offset \in HeadersFrom(1)
      <4>1. offset \in HeadersFrom(cursor)
        BY <1>7 DEF Found
      <4> QED
        BY <1>2, <4>1, Constants DEF HeadersFrom
    <3> QED
      BY <1>3, <1>8, <1>12, <3>1, <3>2
  <2>5. HeadersFrom(1)' = HeadersFrom(1)
    BY <1>2 DEF HeadersFrom, Slice
  <2>6. \A i \in 1..Len(candidates') : candidates'[i].offset \in HeadersFrom(1)'
    BY <1>3, <2>4, <2>5
  <2> QED
    BY <1>2, <1>3, <2>1, <2>3, <2>6 DEF KindInv, Slice
<1>17. PassInv'
  BY <1>2, <1>11 DEF PassInv
<1>18. PartInv'
  <2>1. ScanInv'
    BY RecordKeeps
  <2>2. (raw \in Seq(Nat))'
    BY <2>1 DEF ScanInv, StreamInv
  <2>3. Outside' \in SUBSET (1..Len(raw))
    BY <1>2 DEF Outside
  <2>4. Parts(<< >>, raw, Outside', 1)
    BY <1>2, <2>3, NothingBeforeTheFirst
  <2> QED
    BY <1>2, <1>11, <2>4 DEF PartInv, Parts, Count, Upto
<1>19. CopiesInv'
  <2>1. Len(TX) \in Nat
    BY Constants
  <2>2. 1 = 0 * Len(TX) + 1 /\ 0..(0 - 1) = {}
    BY <2>1
  <2> QED
    BY <1>2, <1>11, <2>2 DEF CopiesInv
<1>20. EchoesInv'
  <2> SUFFICES ASSUME IsEchoes
               PROVE  /\ \E k \in Nat : next = k * Len(TX) + 1
                      /\ \A i \in 1..(n + 1) : candidates'[i].kind = "echo"
                      /\ \A j \in 1..(next - 1) : \E k \in 1..Len(consumed') :
                            Covers(consumed'[k], j)
    BY <1>2, <1>3 DEF EchoesInv, IsEchoes, CopyAt, Slice
  <2>1. PICK copies \in Nat : cursor = copies * Len(TX) + 1
    BY DEF CollectionInv, EchoesInv
  <2>2. /\ \A i \in 1..n : candidates[i].kind = "echo"
        /\ \A j \in 1..(cursor - 1) : \E k \in 1..m : Covers(consumed[k], j)
    BY DEF CollectionInv, EchoesInv, n, m
  <2>3. EchoAt(cursor) /\ cursor \in HeadersFrom(cursor)
    BY <1>2, <2>1, NextCopy
  <2>4. offset = cursor
    BY <1>2, <1>7, <2>3 DEF Found
  <2>5. kind = "echo" /\ next = cursor + Len(TX) /\ end = next /\ kind \in Taken
    <3>1. kind = "echo"
      BY <1>7, <2>3, <2>4
    <3> QED
      BY <1>7, <2>4, <3>1 DEF Taken
  <2>6. next = (copies + 1) * Len(TX) + 1 /\ copies + 1 \in Nat
    <3>1. Len(TX) \in Nat \ {0}
      BY <2>3, Constants DEF EchoAt
    <3>2. (copies + 1) * Len(TX) = copies * Len(TX) + Len(TX) /\ copies * Len(TX) \in Nat
      BY <3>1, Multiples
    <3> QED
      BY <2>1, <2>5, <3>1, <3>2
  <2>7. \A i \in 1..(n + 1) : candidates'[i].kind = "echo"
    BY <1>3, <1>8, <1>12, <2>2, <2>5
  <2>8. ASSUME NEW j \in 1..(next - 1)
        PROVE  \E k \in 1..Len(consumed') : Covers(consumed'[k], j)
    <3>1. CASE j < cursor
      <4>1. PICK k \in 1..m : Covers(consumed[k], j)
        BY <1>2, <2>2, <3>1
      <4>2. k \in 1..Len(consumed') /\ consumed'[k] = consumed[k]
        BY <1>4, <1>13
      <4> QED
        BY <4>1, <4>2
    <3>2. CASE j >= cursor
      <4>1. Covers(consumed'[m + 1], j)
        BY <1>2, <1>9, <2>4, <2>5, <3>2 DEF Covers
      <4> QED
        BY <1>13, <2>5, <4>1
    <3> QED
      BY <1>2, <3>1, <3>2
  <2> QED
    BY <2>6, <2>7, <2>8
<1>21. ClassificationIsExact'
  BY <1>2 DEF ClassificationIsExact
<1>22. GenuineInv'
  <2>1. ASSUME NEW i \in 1..(n + 1), candidates'[i].kind \in Accepted
        PROVE  Genuine(candidates'[i])
    <3>1. CASE i \in 1..n
      <4>1. candidates'[i] = candidates[i]
        BY <1>3, <3>1
      <4> QED
        BY <2>1, <3>1, <4>1 DEF CollectionInv, GenuineInv, n
    <3>2. CASE i = n + 1
      <4>1. kind \in Accepted
        BY <1>8, <2>1, <3>2
      <4> QED
        BY <1>8, <3>2, <4>1 DEF Turn, Genuine
    <3> QED
      BY <1>12, <3>1, <3>2
  <2>2. \A c : Genuine(c) => Genuine(c)'
    BY <1>2 DEF Genuine, HeaderCut, size, Slice
  <2>3. Len(candidates') = n + 1
    BY <1>3
  <2> QED
    BY <2>1, <2>2, <2>3 DEF GenuineInv, Genuine, HeaderCut, size, Slice
<1> QED
  BY <1>14, <1>15, <1>16, <1>17, <1>18, <1>19, <1>20, <1>21, <1>22 DEF CollectionInv

LEMMA NothingJoined ==
    ASSUME NEW s \in Seq(Nat), NEW t \in Seq(Nat), s \o t = << >>
    PROVE  s = << >> /\ t = << >> /\ Len(t) = 0
<1>1. Len(s \o t) = Len(s) + Len(t)
  OBVIOUS
<1>2. Len(s \o t) = 0
  OBVIOUS
<1>3. Len(s) \in Nat /\ Len(t) \in Nat
  OBVIOUS
<1>4. Len(s) = 0 /\ Len(t) = 0
  BY <1>1, <1>2, <1>3
<1> QED
  BY <1>4

LEMMA SpanType ==
    ASSUME ScanInv, NEW k \in 1..Len(consumed)
    PROVE  /\ consumed[k].offset \in Nat /\ consumed[k].end \in Nat
           /\ consumed[k].offset < consumed[k].end
<1>1. Len(raw) \in Nat
  BY DEF ScanInv, StreamInv
<1>2. \A m \in 1..Len(consumed) :
            /\ consumed[m].offset \in 1..Len(raw)
            /\ consumed[m].end \in (consumed[m].offset + 1)..(Len(raw) + 1)
  BY DEF ScanInv, TypeOK
<1> DEFINE o == consumed[k].offset
           e == consumed[k].end
<1>3. o \in 1..Len(raw) /\ e \in (o + 1)..(Len(raw) + 1)
  BY <1>2
<1> HIDE DEF o, e
<1>4. o \in Nat /\ e \in Nat /\ o < e
  BY <1>1, <1>3
<1> QED
  BY <1>4 DEF o, e

\* The consumed frames that are passed end before the position.
LEMMA PassedSpan ==
    ASSUME ScanInv, CollectionInv, NEW k \in 1..collected
    PROVE  consumed[k].end <= position
<1>1. /\ collected \in Nat /\ Len(raw) \in Nat /\ collected \in 1..Len(consumed)
      /\ k \in 1..Len(consumed)
  BY DEF ScanInv, TypeOK, StreamInv
<1>2. position = consumed[collected].end
  BY <1>1 DEF CollectionInv, PassInv
<1>3. /\ consumed[k].end \in Nat /\ consumed[collected].offset \in Nat
      /\ consumed[collected].end \in Nat
      /\ consumed[collected].offset < consumed[collected].end
  BY <1>1, SpanType
<1>4. CASE k < collected
  <2>1. consumed[k].end <= consumed[collected].offset
    BY <1>1, <1>4 DEF CollectionInv, SpanInv
  <2> QED
    BY <1>2, <1>3, <2>1
<1>5. CASE k = collected
  BY <1>2, <1>3, <1>5
<1> QED
  BY <1>1, <1>4, <1>5

\* A turn of the second loop.
LEMMA CollectExtends ==
    ASSUME ScanInv, CollectionInv, Collect
    PROVE  ScanInv' /\ CollectionInv'
<1> DEFINE n == collected + 1
           taken == consumed[n]
<1>1. /\ UNCHANGED <<raw, sent, cursor, candidates, consumed, classification>>
      /\ collected' = n /\ collected < Len(consumed)
      /\ classification = "none" /\ HeadersFrom(cursor) = {}
  BY DEF Collect, Scanned
<1>2. /\ raw \in Seq(Nat) /\ Len(raw) \in Nat /\ Len(consumed) \in Nat /\ collected \in Nat
      /\ n \in 1..Len(consumed) /\ unparsed \in Seq(Nat)
      /\ position \in 1..(Len(raw) + 1)
      /\ \A k \in 1..Len(consumed) :
            /\ consumed[k].offset \in 1..Len(raw)
            /\ consumed[k].end \in (consumed[k].offset + 1)..(Len(raw) + 1)
  BY <1>1 DEF ScanInv, TypeOK, StreamInv
<1>3. \A k \in 1..Len(consumed) :
        /\ consumed[k].offset \in Nat /\ consumed[k].end \in Nat
        /\ consumed[k].offset < consumed[k].end
  BY SpanType
<1>4. /\ \A j, k \in 1..Len(consumed) : j < k => consumed[j].end <= consumed[k].offset
      /\ position = IF collected = 0 THEN 1 ELSE consumed[collected].end
  BY DEF CollectionInv, SpanInv, PassInv
<1> HIDE DEF n, taken
<1>5. taken.offset \in 1..Len(raw) /\ taken.end \in (taken.offset + 1)..(Len(raw) + 1)
  BY <1>2 DEF taken
<1>6. /\ taken.offset \in Nat /\ taken.end \in Nat /\ taken.offset < taken.end
  BY <1>2, <1>3 DEF taken
<1>7. \A k \in 1..Len(consumed) : k < n => consumed[k].end <= position
  <2>1. \A k \in 1..Len(consumed) : k < n => k \in 1..collected
    BY <1>2 DEF n
  <2> QED
    BY <2>1, PassedSpan
<1>8. position <= taken.offset
  <2>1. CASE collected = 0
    BY <1>4, <1>5, <2>1
  <2>2. CASE collected # 0
    <3>1. collected \in 1..Len(consumed) /\ collected < n
      BY <1>2, <2>2 DEF n
    <3> QED
      BY <1>2, <1>4, <2>2, <3>1 DEF taken
  <2> QED
    BY <2>1, <2>2
<1>9. /\ ScanInv' /\ position' = taken.end
      /\ unparsed' = unparsed \o Slice(position, taken.offset)
  BY <1>8, CollectKeeps DEF taken, n
<1>10. \A j \in position..(taken.offset - 1) : j \in Outside
  <2> TAKE j \in position..(taken.offset - 1)
  <2>1. j \in 1..Len(raw) /\ j \in Nat /\ position <= j /\ j < taken.offset
    <3>1. /\ Len(raw) \in Nat /\ position \in Nat /\ 1 <= position
          /\ taken.offset \in Nat /\ taken.offset <= Len(raw)
      BY <1>2, <1>5, <1>6
    <3> HIDE DEF taken
    <3>2. j \in Int /\ position <= j /\ j <= taken.offset - 1
      BY <3>1
    <3> QED
      BY <3>1, <3>2
  <2> SUFFICES ASSUME NEW k \in 1..Len(consumed)
               PROVE  ~Covers(consumed[k], j)
    <3>1. DOMAIN raw = 1..Len(raw) /\ DOMAIN consumed = 1..Len(consumed)
      BY <1>2 DEF ScanInv
    <3> QED
      BY <2>1, <3>1, Zenon DEF Outside
  <2>2. /\ consumed[k].offset \in Nat /\ consumed[k].end \in Nat /\ position \in Nat
        /\ taken.offset \in Nat /\ taken.end \in Nat /\ taken.offset < taken.end
    BY <1>2, <1>6, <1>3
  <2>3. CASE k < n
    <3>1. consumed[k].end <= position
      BY <1>7, <2>3
    <3> QED
      BY <2>1, <2>2, <3>1 DEF Covers
  <2>4. CASE k = n
    BY <2>1, <2>2, <2>4 DEF Covers, taken
  <2>5. CASE n < k
    <3>1. taken.end <= consumed[k].offset
      BY <1>2, <1>4, <2>5 DEF taken
    <3> QED
      BY <2>1, <2>2, <3>1 DEF Covers
  <2> QED
    BY <1>2, <2>3, <2>4, <2>5
<1>11. \A j \in taken.offset..(taken.end - 1) : j \notin Outside
  <2> SUFFICES ASSUME NEW j \in taken.offset..(taken.end - 1)
               PROVE  \E k \in DOMAIN consumed : Covers(consumed[k], j)
    BY DEF Outside
  <2>1. Covers(taken, j)
    BY <1>5 DEF Covers
  <2>2. n \in DOMAIN consumed
    BY <1>2 DEF ScanInv
  <2> QED
    BY <2>1, <2>2 DEF taken
<1>12. Parts(unparsed', raw, Outside, taken.end)
  <2>1. Parts(unparsed, raw, Outside, position)
    BY <1>1 DEF CollectionInv, PartInv
  <2>2. Outside \in SUBSET (1..Len(raw))
    BY <1>2, OutsideIsIn
  <2>3. /\ position \in 1..(Len(raw) + 1) /\ taken.offset \in position..(Len(raw) + 1)
        /\ taken.end \in taken.offset..(Len(raw) + 1)
    BY <1>2, <1>5, <1>8
  <2>4. unparsed' = unparsed \o SubSeq(raw, position, taken.offset - 1)
    BY <1>9 DEF Slice
  <2> QED
    BY <1>2, <1>10, <1>11, <2>1, <2>2, <2>3, <2>4, PartsExtend
<1>13. PartInv'
  <2>1. Outside' = Outside
    BY <1>1 DEF Outside, Covers
  <2> QED
    BY <1>1, <1>9, <1>12, <2>1 DEF PartInv, Parts, Count, Upto
<1>14. CopiesInv'
  <2> SUFFICES ASSUME unparsed' = << >>, Valid = {}
               PROVE  /\ taken.end = n * Len(TX) + 1
                      /\ \A m \in 0..(n - 1) : CopyAt(m) = TX
    BY <1>1, <1>9 DEF CopiesInv, Valid, CopyAt, Slice
  <2>1. unparsed = << >> /\ position = taken.offset
    <3>1. /\ Slice(position, taken.offset) \in Seq(Nat)
          /\ Len(Slice(position, taken.offset)) = taken.offset - position
      <4>1. position \in 1..(Len(raw) + 1) /\ taken.offset \in position..(Len(raw) + 1)
        BY <1>2, <1>5, <1>8
      <4> QED
        BY <1>2, <4>1, SliceOf DEF Slice
    <3> DEFINE x == Slice(position, taken.offset)
    <3> HIDE DEF x
    <3>2. unparsed \o x = << >> /\ x \in Seq(Nat) /\ Len(x) = taken.offset - position
      BY <1>9, <3>1 DEF x
    <3>3. unparsed \in Seq(Nat) /\ position \in Nat /\ taken.offset \in Nat
      BY <1>2, <1>5
    <3>4. unparsed = << >> /\ Len(x) = 0
      BY <3>2, <3>3, NothingJoined
    <3> QED
      BY <3>2, <3>3, <3>4
  <2>2. /\ position = collected * Len(TX) + 1
        /\ \A m \in 0..(collected - 1) : CopyAt(m) = TX
    BY <1>1, <2>1 DEF CollectionInv, CopiesInv
  <2>3. PICK i \in 1..Len(candidates) :
            /\ candidates[i].kind \in Taken
            /\ candidates[i].offset = taken.offset /\ candidates[i].end = taken.end
    BY <1>2 DEF CollectionInv, LinkInv, taken
  <2>4. candidates[i].kind = "echo"
    <3>1. i \in DOMAIN candidates
      BY DEF ScanInv
    <3> QED
      BY <2>3, <3>1 DEF Valid, Taken
  <2>5. Slice(taken.offset, taken.end) = TX /\ taken.end = taken.offset + Len(TX)
    BY <2>3, <2>4 DEF CollectionInv, KindInv
  <2>6. taken.offset \in Nat /\ taken.end \in Nat /\ Len(TX) \in Nat
    BY <1>6, Constants
  <2>7. n * Len(TX) = collected * Len(TX) + Len(TX) /\ collected * Len(TX) \in Nat
    BY <1>2, Constants, Multiples DEF n
  <2>8. taken.end = n * Len(TX) + 1
    <3>1. \A a, b, o, e, l \in Nat :
            b = a + l /\ o = a + 1 /\ e = o + l => e = b + 1
      OBVIOUS
    <3>2. n * Len(TX) \in Nat /\ taken.offset = collected * Len(TX) + 1
      BY <2>1, <2>2, <2>7, <2>6
    <3> QED
      BY <2>5, <2>7, <2>6, <3>1, <3>2
  <2>9. CopyAt(collected) = TX
    BY <2>1, <2>2, <2>5, <2>8 DEF CopyAt, n
  <2>10. \A m \in 0..(n - 1) : m \in 0..(collected - 1) \/ m = collected
    BY <1>2 DEF n
  <2> QED
    BY <2>2, <2>8, <2>9, <2>10
<1>15. PassInv'
  <2>1. HeadersFrom(cursor)' = HeadersFrom(cursor)
    BY <1>1 DEF HeadersFrom, Slice
  <2>2. n # 0
    BY <1>2
  <2> QED
    BY <1>1, <1>9, <2>1, <2>2 DEF PassInv, taken
<1>16. LinkInv' /\ SpanInv' /\ KindInv' /\ GenuineInv' /\ ClassificationIsExact'
  BY <1>1 DEF CollectionInv, LinkInv, SpanInv, KindInv, GenuineInv, Genuine,
              ClassificationIsExact, Slice, HeadersFrom, HeaderCut, size
<1>17. EchoesInv'
  BY <1>1 DEF CollectionInv, EchoesInv, IsEchoes, CopyAt, Slice, Covers
<1> QED
  BY <1>9, <1>13, <1>14, <1>15, <1>16, <1>17 DEF CollectionInv

\* What is left over when the last consumed frame is passed.
LEMMA AllPassed ==
    ASSUME ScanInv, CollectionInv, Scanned, collected = Len(consumed)
    PROVE  /\ Unparsed \in Seq(Nat) /\ Parts(Unparsed, raw, Outside, Len(raw) + 1)
           /\ Unparsed = << >> => unparsed = << >> /\ position = Len(raw) + 1
<1> DEFINE o == Len(raw) + 1
           x == SubSeq(raw, position, o - 1)
<1>1. /\ raw \in Seq(Nat) /\ Len(raw) \in Nat /\ unparsed \in Seq(Nat)
      /\ position \in 1..(Len(raw) + 1) /\ consumed \in Seq(Spans)
  BY DEF ScanInv, TypeOK, StreamInv
<1>2. o \in position..(Len(raw) + 1) /\ o \in o..(Len(raw) + 1)
  BY <1>1
<1>3. Unparsed = unparsed \o x
  BY DEF Unparsed, Slice
<1>4. x \in Seq(Nat) /\ Len(x) = o - position
  BY <1>1, <1>2, SliceOf
<1>5. \A j \in position..(o - 1) : j \in Outside
  <2> SUFFICES ASSUME NEW j \in position..(o - 1), NEW k \in 1..Len(consumed)
               PROVE  ~Covers(consumed[k], j)
    <3>1. DOMAIN raw = 1..Len(raw) /\ DOMAIN consumed = 1..Len(consumed)
      BY <1>1
    <3>2. \A j \in position..(o - 1) : j \in 1..Len(raw)
      BY <1>1
    <3> QED
      BY <3>1, <3>2, Zenon DEF Outside
  <2>1. consumed[k].end <= position
    BY PassedSpan
  <2>2. consumed[k].end \in Nat /\ position \in Nat /\ j \in Nat /\ position <= j
    <3>1. consumed[k].end \in Nat
      BY SpanType
    <3> QED
      BY <1>1, <3>1
  <2> QED
    BY <2>1, <2>2 DEF Covers
<1>6. \A j \in o..(o - 1) : j \notin Outside
  BY <1>1
<1>7. Parts(unparsed, raw, Outside, position)
  BY DEF CollectionInv, PartInv, Scanned
<1>8. Outside \in SUBSET (1..Len(raw))
  BY <1>1, OutsideIsIn
<1> HIDE DEF o, x
<1>9. Parts(unparsed \o SubSeq(raw, position, o - 1), raw, Outside, o)
  BY <1>1, <1>2, <1>5, <1>6, <1>7, <1>8, PartsExtend
<1>10. unparsed \o x = << >> => unparsed = << >> /\ Len(x) = 0
  BY <1>1, <1>4, NothingJoined
<1>11. Unparsed \in Seq(Nat)
  BY <1>1, <1>3, <1>4
<1>12. o \in Nat /\ position \in Nat
  BY <1>1 DEF o
<1>13. Unparsed = << >> => unparsed = << >> /\ position = o
  BY <1>3, <1>4, <1>10, <1>12
<1> QED
  BY <1>3, <1>9, <1>11, <1>13 DEF o, x

\* A stream of copies of the request is all echoes, and nothing is left over.
LEMMA EchoesAreSeen ==
    ASSUME ScanInv, CollectionInv, Scanned, collected = Len(consumed), IsEchoes
    PROVE  raw # << >> /\ Valid = {} /\ Echoes # {} /\ Unparsed = << >>
<1>1. /\ raw \in Seq(Nat) /\ Len(raw) \in Nat /\ cursor \in 1..(Len(raw) + 1)
      /\ DOMAIN candidates = 1..Len(candidates)
  BY DEF ScanInv, TypeOK, StreamInv
<1>2. /\ \E n \in Nat : cursor = n * Len(TX) + 1
      /\ \A i \in 1..Len(candidates) : candidates[i].kind = "echo"
      /\ \A j \in 1..(cursor - 1) : \E k \in 1..Len(consumed) : Covers(consumed[k], j)
  BY DEF CollectionInv, EchoesInv
<1>3. cursor = Len(raw) + 1
  <2> SUFFICES ASSUME cursor <= Len(raw) PROVE FALSE
    BY <1>1
  <2>1. cursor \in HeadersFrom(cursor)
    BY <1>2, NextCopy
  <2> QED
    BY <2>1 DEF Scanned
<1>4. raw # << >> /\ 1 \in 1..Len(raw)
  <2>1. \E n : n \in 1..Len(raw)
    BY DEF IsEchoes
  <2> QED
    BY <1>1, <2>1
<1>5. \A j \in 1..Len(raw) : \E k \in 1..Len(consumed) : Covers(consumed[k], j)
  BY <1>1, <1>2, <1>3
<1>6. Valid = {}
  BY <1>1, <1>2 DEF Valid, Accepted
<1>7. Echoes # {}
  <2>1. PICK k \in 1..Len(consumed) : Covers(consumed[k], 1)
    BY <1>4, <1>5
  <2>2. PICK i \in 1..Len(candidates) : candidates[i].kind \in Taken
    BY <2>1 DEF CollectionInv, LinkInv
  <2> QED
    BY <1>1, <1>2, <2>2 DEF Echoes
<1>8. Unparsed = << >>
  <2>1. \A j : j \notin Outside
    <3>1. DOMAIN raw = 1..Len(raw) /\ DOMAIN consumed = 1..Len(consumed)
      BY <1>1 DEF ScanInv
    <3> QED
      BY <1>5, <3>1, Zenon DEF Outside
  <2>2. Upto(Outside, Len(raw)) = {}
    BY <2>1, InUpto
  <2>3. Count(Outside, Len(raw)) = 0
    BY <2>2, FS_EmptySet DEF Count
  <2>4. (Len(raw) + 1) - 1 = Len(raw)
    BY <1>1
  <2>5. Unparsed \in Seq(Nat) /\ Len(Unparsed) = 0
    BY <2>3, <2>4, AllPassed DEF Parts
  <2> QED
    BY <2>5
<1> QED
  BY <1>4, <1>6, <1>7, <1>8

\* Conversely, what leaves nothing over and holds no response is such a stream.
LEMMA NothingElseIsSeen ==
    ASSUME ScanInv, CollectionInv, Scanned, collected = Len(consumed),
           raw # << >>, Valid = {}, Unparsed = << >>
    PROVE  IsEchoes
<1>1. raw \in Seq(Nat) /\ Len(raw) \in Nat \ {0} /\ collected \in Nat /\ Len(TX) \in Nat
  <2>1. raw \in Seq(Nat)
    BY DEF ScanInv, StreamInv
  <2>2. collected \in Nat
    BY DEF ScanInv, TypeOK
  <2> QED
    BY <2>1, <2>2, Constants
<1>2. unparsed = << >> /\ position = Len(raw) + 1
  BY AllPassed
<1>3. position = collected * Len(TX) + 1 /\ \A m \in 0..(collected - 1) : CopyAt(m) = TX
  BY <1>2 DEF CollectionInv, CopiesInv, Scanned
<1>4. collected * Len(TX) \in Nat
  BY <1>1
<1>5. collected * Len(TX) = Len(raw) /\ Len(TX) # 0
  <2>1. collected * Len(TX) = Len(raw)
    BY <1>1, <1>2, <1>3, <1>4
  <2>2. collected * 0 = 0
    BY <1>1
  <2> QED
    BY <1>1, <2>1, <2>2
<1>6. collected \in 1..Len(raw)
  <2>1. \A n \in Nat, l \in Nat \ {0} : n * l >= n /\ 0 * l = 0
    <3> TAKE n \in Nat, l \in Nat \ {0}
    <3>1. l - 1 \in Nat /\ n * l = n * (l - 1) + n
      OBVIOUS
    <3>2. n * (l - 1) \in Nat
      BY <3>1
    <3> QED
      BY <3>1, <3>2
  <2>2. collected <= Len(raw) /\ collected # 0
    BY <1>1, <1>5, <2>1
  <2> QED
    BY <1>1, <2>2
<1> QED
  BY <1>3, <1>5, <1>6 DEF IsEchoes

LEMMA MinOfTwo ==
    ASSUME NEW a \in Int, NEW b \in Int
    PROVE  Min({a, b}) = IF a <= b THEN a ELSE b
BY DEF Min

\* Where a frame begins there is a byte that is not zero.
LEMMA HeaderIsNotZero ==
    ASSUME raw \in Seq(Nat), NEW i \in HeadersFrom(1)
    PROVE  i \in DOMAIN raw /\ raw[i] # 0
<1>1. /\ Header \in Seq(Nat) /\ Len(Header) \in Nat \ {0} /\ Header[1] # 0
      /\ Len(raw) \in Nat
  BY Constants
<1>2. /\ i \in 1..(Len(raw) - Len(Header) + 1)
      /\ SubSeq(raw, i, i + Len(Header) - 1) = Header
  BY DEF HeadersFrom, Slice
<1>3. i \in 1..Len(raw) /\ i + Len(Header) <= Len(raw) + 1
  BY <1>1, <1>2
<1>4. SubSeq(raw, i, i + Len(Header) - 1)[1] = raw[i]
  BY <1>1, <1>3
<1> QED
  BY <1>1, <1>2, <1>3, <1>4

\* Zero bytes are neither frames nor a part of the request.
LEMMA ZerosAreSeen ==
    ASSUME ScanInv, CollectionInv, Scanned, collected = Len(consumed),
           \A i \in DOMAIN raw : raw[i] = 0
    PROVE  Valid = {} /\ Echoes = {} /\ ~PartialEcho(Unparsed)
<1>1. /\ raw \in Seq(Nat) /\ Len(raw) \in Nat /\ candidates \in Seq(Candidates)
      /\ consumed \in Seq(Spans)
  BY DEF ScanInv, StreamInv
<1>2. \A i \in 1..Len(candidates) : FALSE
  <2>1. \A i \in 1..Len(candidates) : candidates[i].offset \in HeadersFrom(1)
    BY DEF CollectionInv, KindInv
  <2> QED
    BY <1>1, <2>1, HeaderIsNotZero
<1>3. Valid = {} /\ Echoes = {}
  BY <1>1, <1>2 DEF Valid, Echoes
<1>4. Len(consumed) = 0
  <2>1. \A k \in 1..Len(consumed) : FALSE
    BY <1>2 DEF CollectionInv, LinkInv
  <2>2. Len(consumed) \in Nat
    BY <1>1
  <2> QED
    BY <2>1, <2>2
<1>5. unparsed = << >> /\ position = 1
  BY <1>4 DEF CollectionInv, PassInv, Scanned
<1>6. Unparsed = raw
  <2>1. SubSeq(raw, 1, Len(raw)) = raw /\ << >> \o raw = raw
    BY <1>1
  <2>2. (Len(raw) + 1) - 1 = Len(raw)
    BY <1>1
  <2> QED
    BY <1>5, <2>1, <2>2 DEF Unparsed, Slice
<1>7. ASSUME PartialEcho(raw) PROVE FALSE
  <2>1. TX \in Seq(Nat) /\ Len(TX) \in Nat
    BY Constants
  <2>2. PICK n \in 1..Min({Len(raw), Len(TX) - 1}) :
            SubSeq(raw, Len(raw) - n + 1, Len(raw)) = SubSeq(TX, 1, n)
    BY <1>7 DEF PartialEcho
  <2>3. n \in Nat \ {0} /\ n <= Len(raw) /\ n <= Len(TX)
    <3>1. Len(raw) \in Int /\ Len(TX) - 1 \in Int
      BY <1>1, <2>1
    <3>2. Min({Len(raw), Len(TX) - 1}) = IF Len(raw) <= Len(TX) - 1 THEN Len(raw) ELSE Len(TX) - 1
      BY <3>1, MinOfTwo
    <3>3. CASE Len(raw) <= Len(TX) - 1
      <4>1. n \in 1..Len(raw)
        BY <2>2, <3>2, <3>3
      <4> QED
        BY <1>1, <2>1, <3>3, <4>1
    <3>4. CASE ~(Len(raw) <= Len(TX) - 1)
      <4>1. n \in 1..(Len(TX) - 1)
        BY <2>2, <3>2, <3>4
      <4> QED
        BY <1>1, <2>1, <3>4, <4>1
    <3> QED
      BY <3>3, <3>4
  <2>4. TX # << >>
    BY <2>1, <2>3
  <2>5. TX[1] # 0
    <3>1. /\ Len(Header) \in 1..Len(TX) /\ Header[1] # 0
          /\ SubSeq(TX, 1, Len(Header)) = Header
      BY <2>4, Constants
    <3>2. SubSeq(TX, 1, Len(Header))[1] = TX[1]
      BY <2>1, <3>1
    <3> QED
      BY <3>1, <3>2
  <2>6. SubSeq(TX, 1, n)[1] = TX[1]
    BY <2>1, <2>3
  <2>7. Len(raw) - n + 1 \in DOMAIN raw
    BY <1>1, <2>3
  <2>8. SubSeq(raw, Len(raw) - n + 1, Len(raw))[1] = raw[Len(raw) - n + 1]
    BY <1>1, <2>3, <2>7
  <2> QED
    BY <2>2, <2>5, <2>6, <2>7, <2>8
<1> QED
  BY <1>3, <1>6, <1>7

\* The classification when both loops are over.
LEMMA ClassifyIsExact ==
    ASSUME ScanInv, CollectionInv, Scanned, collected = Len(consumed)
    PROVE  Classify # "none" /\ Means(Classify)
<1>1. /\ raw \in Seq(Nat) /\ DOMAIN candidates = 1..Len(candidates)
      /\ candidates \in Seq(Candidates)
  BY DEF ScanInv, StreamInv
<1>2. IsEchoes => raw # << >> /\ Valid = {} /\ Echoes # {} /\ Unparsed = << >>
  BY EchoesAreSeen
<1>3. raw # << >> /\ Valid = {} /\ Unparsed = << >> => IsEchoes
  BY NothingElseIsSeen
<1>4. (\A i \in DOMAIN raw : raw[i] = 0) =>
        Valid = {} /\ Echoes = {} /\ ~PartialEcho(Unparsed)
  BY ZerosAreSeen
<1>5. Echoes # {} => HoldsEcho
  <2> SUFFICES ASSUME NEW i \in DOMAIN candidates, candidates[i].kind = "echo"
               PROVE  HoldsEcho
    BY DEF Echoes
  <2>1. /\ Slice(candidates[i].offset, candidates[i].end) = TX
        /\ candidates[i].end = candidates[i].offset + Len(TX)
    BY <1>1 DEF CollectionInv, KindInv
  <2>2. candidates[i].offset \in DOMAIN raw
    BY <1>1, HeaderIsNotZero DEF CollectionInv, KindInv
  <2> QED
    BY <2>1, <2>2 DEF HoldsEcho
<1>6. Valid # {} <=> \E i \in DOMAIN candidates :
        /\ candidates[i].kind \in Accepted
        /\ Slice(candidates[i].offset, candidates[i].end) # TX
  BY <1>1 DEF Valid, ScanInv, TakenInv
<1>7. (\E i \in DOMAIN candidates : candidates[i].kind = "incomplete") =>
        candidates[Len(candidates)].kind = "incomplete" /\ cursor = Len(raw) + 1
  BY <1>1 DEF CollectionInv, KindInv
<1>8. candidates = << >> => HeadersFrom(1) = {}
  BY DEF CollectionInv, KindInv, Scanned
<1> DEFINE c == Classify
           zeros == \A i \in DOMAIN raw : raw[i] = 0
           cut == \E i \in DOMAIN candidates : candidates[i].kind = "incomplete"
           answered == \E i \in DOMAIN candidates :
                        /\ candidates[i].kind \in Accepted
                        /\ Slice(candidates[i].offset, candidates[i].end) # TX
<1>9. /\ c = "no-response" <=> raw = << >>
      /\ c = "echo-only" <=>
            raw # << >> /\ Valid = {} /\ Echoes # {} /\ Unparsed = << >>
      /\ c = "null-byte-response" <=>
            raw # << >> /\ Valid = {} /\ Echoes = {} /\ ~PartialEcho(Unparsed) /\ zeros
      /\ c \in {"transmit-echo", "echo-followed-by-response"} => Echoes # {}
      /\ c = "incomplete-response" => cut
      /\ c = "unframed-binary-response" => candidates = << >>
      /\ c # "none"
  BY DEF Classify
<1>10. c \in {"framed-response", "echo-followed-by-response"} <=> raw # << >> /\ Valid # {}
  BY DEF Classify
<1>11. Valid # {} => raw # << >>
  <2> SUFFICES ASSUME NEW i \in DOMAIN candidates PROVE raw # << >>
    BY DEF Valid
  <2>1. candidates[i].offset \in DOMAIN raw
    BY <1>1, HeaderIsNotZero DEF CollectionInv, KindInv
  <2> QED
    BY <2>1
<1> HIDE DEF c, zeros, cut, answered
<1>12. /\ (c = "no-response") <=> (raw = << >>)
       /\ (c = "echo-only") <=> IsEchoes
       /\ (c = "null-byte-response") <=> (raw # << >> /\ zeros)
       /\ c \in {"transmit-echo", "echo-followed-by-response"} => HoldsEcho
       /\ c \in {"framed-response", "echo-followed-by-response"} <=> answered
       /\ c = "incomplete-response" =>
            candidates[Len(candidates)].kind = "incomplete" /\ cursor = Len(raw) + 1
       /\ c = "unframed-binary-response" => HeadersFrom(1) = {}
  <2>1. (c = "no-response") <=> (raw = << >>)
    BY <1>9
  <2>2. (c = "echo-only") <=> IsEchoes
    BY <1>2, <1>3, <1>9
  <2>3. (c = "null-byte-response") <=> (raw # << >> /\ zeros)
    BY <1>4, <1>9 DEF zeros
  <2>4. c \in {"transmit-echo", "echo-followed-by-response"} => HoldsEcho
    BY <1>5, <1>9
  <2>5. c \in {"framed-response", "echo-followed-by-response"} <=> answered
    BY <1>6, <1>10, <1>11 DEF answered
  <2>6. c = "incomplete-response" =>
            candidates[Len(candidates)].kind = "incomplete" /\ cursor = Len(raw) + 1
    BY <1>7, <1>9 DEF cut
  <2>7. c = "unframed-binary-response" => HeadersFrom(1) = {}
    BY <1>8, <1>9
  <2> QED
    BY <2>1, <2>2, <2>3, <2>4, <2>5, <2>6, <2>7
<1> QED
  BY <1>9, <1>12 DEF c, zeros, answered, Means

LEMMA FinishExtends ==
    ASSUME ScanInv, CollectionInv, Finish
    PROVE  ScanInv' /\ CollectionInv'
<1>1. /\ UNCHANGED <<raw, sent, cursor, candidates, consumed, collected, position>>
      /\ Scanned /\ collected = Len(consumed)
      /\ unparsed' = Unparsed /\ classification' = Classify
  BY DEF Finish
<1>2. Classify # "none" /\ Means(Classify)
  BY <1>1, ClassifyIsExact
<1>3. ClassificationIsExact'
  BY <1>1, <1>2 DEF ClassificationIsExact, Means, IsEchoes, HoldsEcho, CopyAt, HeadersFrom,
                    Slice
<1>4. PartInv'
  <2>1. Outside' = Outside
    BY <1>1 DEF Outside, Covers
  <2>2. Parts(Unparsed, raw, Outside, Len(raw) + 1)
    BY <1>1, AllPassed
  <2> QED
    BY <1>1, <1>2, <2>1, <2>2 DEF PartInv, Parts, Count, Upto
<1>5. CopiesInv'
  BY <1>1, <1>2 DEF CopiesInv
<1>6. LinkInv' /\ SpanInv' /\ KindInv' /\ GenuineInv' /\ PassInv'
  BY <1>1, <1>2 DEF CollectionInv, LinkInv, SpanInv, KindInv, GenuineInv, Genuine, PassInv,
                    Slice, HeadersFrom, HeaderCut, size
<1>7. EchoesInv'
  BY <1>1 DEF CollectionInv, EchoesInv, IsEchoes, CopyAt, Slice, Covers
<1> QED
  BY <1>3, <1>4, <1>5, <1>6, <1>7, FinishKeeps DEF CollectionInv

\* The invariant is inductive.
LEMMA AnalysisStep == ASSUME AnalysisInv, [Next]_vars PROVE AnalysisInv'
<1>1. CASE Candidate
  <2>1. PICK kind, offset, end, next : Turn(kind, offset, end, next)
    BY <1>1, CandidateTurns DEF AnalysisInv
  <2> QED
    BY <1>1, <2>1, CandidateKeeps, TurnExtends DEF AnalysisInv
<1>2. CASE Collect
  BY <1>2, CollectExtends DEF AnalysisInv
<1>3. CASE Finish
  BY <1>3, FinishExtends DEF AnalysisInv
<1>4. CASE UNCHANGED vars
  <2>1. UNCHANGED <<raw, sent, cursor, candidates, consumed, classification>>
        /\ UNCHANGED <<collected, position, unparsed>>
    BY <1>4 DEF vars, collecting
  <2>2. ScanInv'
    <3>1. BehindInv'
      BY <2>1, ClearLasts DEF AnalysisInv, ScanInv, BehindInv, FoundIn
    <3> QED
      BY <2>1, <3>1 DEF AnalysisInv, ScanInv, TypeOK, StreamInv, DoneInv, TakenInv,
                        HeadersFrom, Slice
  <2>3. LinkInv' /\ SpanInv' /\ KindInv' /\ GenuineInv' /\ PassInv'
    BY <2>1 DEF AnalysisInv, CollectionInv, LinkInv, SpanInv, KindInv, GenuineInv, Genuine,
                PassInv, HeadersFrom, HeaderCut, size, Slice
  <2>4. PartInv' /\ CopiesInv'
    BY <2>1 DEF AnalysisInv, CollectionInv, PartInv, CopiesInv, Parts, Count, Upto, Outside,
                Covers, Valid, CopyAt, Slice
  <2>5. EchoesInv'
    BY <2>1 DEF AnalysisInv, CollectionInv, EchoesInv, IsEchoes, CopyAt, Slice, Covers
  <2>6. ClassificationIsExact'
    BY <2>1 DEF AnalysisInv, CollectionInv, ClassificationIsExact, Means, IsEchoes,
                HoldsEcho, CopyAt, HeadersFrom, Slice
  <2> QED
    BY <2>2, <2>3, <2>4, <2>5, <2>6 DEF AnalysisInv, CollectionInv
<1> QED
  BY <1>1, <1>2, <1>3, <1>4 DEF Next, Step, Finished

-----------------------------------------------------------------------------
\* The invariant of the analysis holds in every behaviour.
THEOREM ScanInvariant == Spec => []AnalysisInv
<1>1. Init => AnalysisInv
  BY ScanInit, CollectionInit DEF AnalysisInv
<1>2. AnalysisInv /\ [Next]_vars => AnalysisInv'
  BY AnalysisStep
<1> QED
  BY <1>1, <1>2, PTL DEF Spec

\* Every candidate lies in the stream and the classification is one of ten.
THEOREM ScanTypeCorrect == Spec => []TypeOK
<1>1. ScanInv => TypeOK
  BY DEF ScanInv
<1> QED
  BY <1>1, ScanInvariant, PTL DEF AnalysisInv

\* A frame that was sent whole is found, whatever lies before it, if no stray
\* header swallows its first byte or that of a frame before it.
THEOREM FramesAreFound == Spec => []FramesAreRecovered
<1>1. ASSUME ScanInv PROVE FramesAreRecovered
  <2> SUFFICES ASSUME classification # "none", NEW f \in sent, Clear(f)
               PROVE  IsFound(f)
    BY DEF FramesAreRecovered, Clear
  <2>1. HeadersFrom(cursor) = {} /\ cursor \in Nat \ {0}
    BY <1>1 DEF ScanInv, DoneInv, TypeOK
  <2>2. ~(f.offset >= cursor)
    <3>1. f.offset \in Nat /\ \A from \in 1..f.offset : f.offset \in HeadersFrom(from)
      BY <1>1, SentFrameIsSeen DEF ScanInv
    <3> QED
      BY <2>1, <3>1
  <2>3. PICK i \in 1..Len(candidates) :
            candidates[i].kind \in Taken /\ candidates[i].offset = f.offset
    BY <1>1, <2>2 DEF ScanInv, BehindInv, FoundIn
  <2>4. candidates[i] \in ToSet(candidates)
    BY <1>1, <2>3 DEF ScanInv, ToSet
  <2> QED
    BY <2>3, <2>4 DEF IsFound
<1> QED
  BY <1>1, ScanInvariant, PTL DEF AnalysisInv

\* No byte of the response is lost, moved or counted twice: it lies in one
\* consumed frame or is, in its place among the others, an unparsed one.
THEOREM EveryByteIsKept == Spec => []BytesArePartitioned
<1>1. ASSUME AnalysisInv PROVE BytesArePartitioned
  <2>1. /\ raw \in Seq(Nat) /\ Len(raw) \in Nat /\ Outside \in SUBSET (1..Len(raw))
        /\ DOMAIN consumed = 1..Len(consumed)
    BY <1>1, OutsideIsIn DEF AnalysisInv, ScanInv, StreamInv
  <2>2. \A i, j \in DOMAIN consumed : i < j => consumed[i].end <= consumed[j].offset
    BY <1>1, <2>1 DEF AnalysisInv, CollectionInv, SpanInv
  <2>3. ASSUME classification # "none"
        PROVE  /\ Len(unparsed) = Cardinality(Outside)
               /\ \A i \in Outside : unparsed[Rank(i)] = raw[i]
    <3>1. Parts(unparsed, raw, Outside, Len(raw) + 1)
      BY <1>1, <2>3 DEF AnalysisInv, CollectionInv, PartInv
    <3>2. (Len(raw) + 1) - 1 = Len(raw) /\ \A i \in Outside : i <= Len(raw) /\ i < Len(raw) + 1
      BY <2>1
    <3>3. Upto(Outside, Len(raw)) = Outside
      BY <3>2 DEF Upto
    <3>4. \A n : Rank(n) = Count(Outside, n)
      BY DEF Rank, Count, Upto
    <3> QED
      BY <3>1, <3>2, <3>3, <3>4 DEF Parts, Count
  <2> QED
    BY <2>2, <2>3 DEF BytesArePartitioned
<1> QED
  BY <1>1, ScanInvariant, PTL

\* A classification means of the stream what the documentation says of it.
THEOREM ClassificationsAreExact == Spec => []ClassificationIsExact
<1>1. AnalysisInv => ClassificationIsExact
  BY DEF AnalysisInv, CollectionInv
<1> QED
  BY <1>1, ScanInvariant, PTL

\* What is taken for an echo is the request; what is taken for a response is
\* not, has the size it declares and decodes to the status it is given.
CandidatesAreGenuine ==
    \A i \in DOMAIN candidates :
        /\ candidates[i].kind = "echo" =>
                Slice(candidates[i].offset, candidates[i].end) = TX
        /\ candidates[i].kind \in Accepted =>
            /\ Slice(candidates[i].offset, candidates[i].end) # TX
            /\ candidates[i].end = candidates[i].offset + size(candidates[i].offset)
            /\ Status(Slice(candidates[i].offset, candidates[i].end)) = candidates[i].kind

\* The scan reports no frame that is not there, whatever it has skipped.
THEOREM CandidatesAreTrue == Spec => []CandidatesAreGenuine
<1>1. ASSUME AnalysisInv PROVE CandidatesAreGenuine
  <2>1. DOMAIN candidates = 1..Len(candidates)
    BY <1>1 DEF AnalysisInv, ScanInv
  <2> QED
    BY <1>1, <2>1 DEF AnalysisInv, ScanInv, TakenInv, CollectionInv, KindInv, GenuineInv,
                      Genuine, CandidatesAreGenuine
<1> QED
  BY <1>1, ScanInvariant, PTL

\* Unless noise is a frame by chance, echoes and valid responses were sent,
\* whole and where they were found.
THEOREM WhatIsFoundWasSent ==
    (\A s \in Streams : NoFrameByChance(s)) => (Spec => []ResponsesWereSent)
<1> SUFFICES ASSUME \A s \in Streams : NoFrameByChance(s) PROVE Spec => []ResponsesWereSent
  OBVIOUS
<1>1. ASSUME AnalysisInv PROVE ResponsesWereSent
  <2> SUFFICES ASSUME NEW i \in 1..Len(candidates)
               PROVE  LET c == candidates[i]
                      IN  /\ c.kind \in Accepted => Slice(c.offset, c.end) # TX
                          /\ c.kind \in {"echo", "valid"} =>
                                [offset |-> c.offset, data |-> Slice(c.offset, c.end)] \in sent
    <3>1. ToSet(candidates) = {candidates[i] : i \in 1..Len(candidates)}
      BY <1>1 DEF AnalysisInv, ScanInv, ToSet
    <3> QED
      BY <3>1 DEF ResponsesWereSent
  <2> DEFINE o == candidates[i].offset
             e == candidates[i].end
             kind == candidates[i].kind
  <2>1. /\ raw \in Seq(Nat) /\ Len(raw) \in Nat /\ DOMAIN raw = 1..Len(raw)
        /\ DOMAIN candidates = 1..Len(candidates)
    BY <1>1 DEF AnalysisInv, ScanInv, StreamInv
  <2>2. PICK s \in Streams : raw = s.raw /\ sent = s.sent
    BY <1>1 DEF AnalysisInv, ScanInv, StreamInv
  <2>3. o \in 1..Len(raw) /\ e \in (o + 1)..(Len(raw) + 1)
    BY <1>1, <2>1 DEF AnalysisInv, ScanInv, TypeOK
  <2>4. /\ kind \in Accepted => Slice(o, e) # TX
        /\ kind = "valid" =>
                ~HeaderCut(o) /\ e = o + size(o) /\ Status(Slice(o, e)) = "valid"
        /\ kind = "echo" => Slice(o, e) = TX /\ e = o + Len(TX)
    BY <1>1, <2>1 DEF AnalysisInv, ScanInv, TakenInv, CollectionInv, KindInv, GenuineInv,
                      Genuine, Accepted
  <2> HIDE DEF o, e, kind
  <2>5. o \in Nat /\ e \in Nat /\ o < e /\ e <= Len(raw) + 1
    BY <2>1, <2>3
  <2>6. kind = "echo" => ~HeaderCut(o) /\ e = o + size(o)
    <3> SUFFICES ASSUME kind = "echo" PROVE ~HeaderCut(o) /\ e = o + size(o)
      OBVIOUS
    <3>1. EchoAt(o)
      <4>1. o + Len(TX) <= Len(raw) + 1 /\ SubSeq(raw, o, (o + Len(TX)) - 1) = TX
        BY <2>4, <2>5 DEF Slice
      <4>2. (o + Len(TX)) - 1 = o + Len(TX) - 1 /\ TX # << >>
        BY <2>4, <2>5, Constants
      <4> QED
        BY <4>1, <4>2 DEF EchoAt
    <3>2. ~HeaderCut(o) /\ size(o) = Len(TX)
      BY <2>1, <2>3, <3>1, EchoIsSeen
    <3> QED
      BY <2>4, <3>2
  <2>7. ASSUME kind \in {"echo", "valid"}
        PROVE  [offset |-> o, data |-> Slice(o, e)] \in sent
    <3>1. ~HeaderCut(o) /\ e = o + size(o)
      BY <2>4, <2>6, <2>7
    <3>2. o + HeaderSize <= Len(raw) + 1
      BY <2>1, <2>5, <3>1, Constants DEF HeaderCut
    <3>3. Slice(o, e) = TX \/ Status(Slice(o, e)) = "valid"
      BY <2>4, <2>7
    <3>4. o \in DOMAIN s.raw
      BY <2>1, <2>2, <2>3
    <3>5. e = o + SizeOf(SubSeq(s.raw, o, (o + HeaderSize) - 1))
      BY <2>2, <3>1 DEF size, Slice
    <3> QED
      BY <2>2, <2>5, <3>2, <3>3, <3>4, <3>5 DEF NoFrameByChance, Slice
  <2> QED
    BY <2>4, <2>7 DEF o, e, kind
<1> QED
  BY <1>1, ScanInvariant, PTL

\* Every turn of the first loop moves the cursor, every turn of the second one
\* passes a consumed frame, and there is nothing else but the step that ends
\* the analysis: of n bytes it takes at most 2 * n + 1 steps.
THEOREM EveryTurnMovesOn ==
    Spec => [][\/ cursor' > cursor /\ UNCHANGED <<collecting, classification>>
               \/ collected' = collected + 1 /\ UNCHANGED <<cursor, consumed, classification>>
               \/ classification = "none" /\ classification' # "none"
                    /\ UNCHANGED <<cursor, consumed, collected>>]_vars
<1> DEFINE Moves == \/ cursor' > cursor /\ UNCHANGED <<collecting, classification>>
                    \/ collected' = collected + 1
                        /\ UNCHANGED <<cursor, consumed, classification>>
                    \/ classification = "none" /\ classification' # "none"
                        /\ UNCHANGED <<cursor, consumed, collected>>
<1>1. ASSUME AnalysisInv, [Next]_vars PROVE [Moves]_vars
  <2>1. CASE Candidate
    <3>1. PICK kind, offset, end, next : Turn(kind, offset, end, next)
      BY <1>1, <2>1, CandidateTurns DEF AnalysisInv
    <3>2. UNCHANGED <<collecting, classification>>
      BY <3>1 DEF Turn, Record
    <3> QED
      BY <1>1, <2>1, <3>2, CandidateKeeps DEF AnalysisInv
  <2>2. CASE Collect
    BY <2>2 DEF Collect
  <2>3. CASE Finish
    <3>1. Classify # "none"
      BY DEF Classify
    <3> QED
      BY <2>3, <3>1 DEF Finish, Scanned
  <2>4. CASE Finished
    BY <2>4 DEF Finished
  <2> QED
    BY <1>1, <2>1, <2>2, <2>3, <2>4 DEF Next, Step
<1> QED
  BY <1>1, ScanInvariant, PTL DEF Spec

-----------------------------------------------------------------------------
(* The codec, with any checksum.  Its lemmas say where the parts of what is *)
(* put together lie, and that the key comes off.                           *)

LEMMA KeyOctets == Len(XOR_KEY) = 16 /\ \A j \in 1..16 : XOR_KEY[j] \in Octets
<1>1. Len(XOR_KEY) = 16
  BY DEF XOR_KEY
<1>2. ASSUME NEW j \in 1..16 PROVE XOR_KEY[j] \in Octets
  <2>1. \/ j = 1 \/ j = 2 \/ j = 3 \/ j = 4 \/ j = 5 \/ j = 6 \/ j = 7 \/ j = 8
        \/ j = 9 \/ j = 10 \/ j = 11 \/ j = 12 \/ j = 13 \/ j = 14 \/ j = 15 \/ j = 16
    OBVIOUS
  <2> QED
    BY <2>1 DEF XOR_KEY, Octets
<1> QED
  BY <1>1, <1>2

\* The key is applied octet by octet, and applied twice it is off again.
LEMMA Transformed ==
    ASSUME NEW data \in Seq(Octets)
    PROVE  /\ xor_transform(data) \in Seq(Octets)
           /\ Len(xor_transform(data)) = Len(data)
           /\ xor_transform(xor_transform(data)) = data
<1> DEFINE key(i) == XOR_KEY[((i - 1) % Len(XOR_KEY)) + 1]
           n == Len(data)
           once == [i \in 1..n |-> ExclusiveOr(data[i], key(i))]
<1>1. n \in Nat /\ DOMAIN data = 1..n /\ \A i \in 1..n : data[i] \in Octets
  OBVIOUS
<1>2. \A i \in 1..n : key(i) \in Octets
  <2> TAKE i \in 1..n
  <2>1. ((i - 1) % 16) + 1 \in 1..16
    BY <1>1
  <2> QED
    BY <2>1, KeyOctets
<1>3. xor_transform(data) = once
  BY <1>1 DEF xor_transform
<1> HIDE DEF key
<1>4. \A i \in 1..n : ExclusiveOr(data[i], key(i)) \in Octets /\ ExclusiveOr(ExclusiveOr(data[i], key(i)), key(i)) = data[i]
  BY <1>1, <1>2, XorAssumption
<1>5. once \in Seq(Octets) /\ Len(once) = n /\ DOMAIN once = 1..n
  BY <1>1, <1>4
<1>6. xor_transform(once) = [i \in 1..n |-> ExclusiveOr(once[i], key(i))]
  BY <1>5 DEF xor_transform, key
<1>7. [i \in 1..n |-> ExclusiveOr(once[i], key(i))] = [i \in 1..n |-> data[i]]
  BY <1>4
<1>8. data = [i \in 1..n |-> data[i]]
  BY <1>1
<1> QED
  BY <1>3, <1>5, <1>6, <1>7, <1>8

\* Of two sequences put together, the parts and their elements.
LEMMA PartsOfJoined ==
    ASSUME NEW a \in Seq(Octets), NEW b \in Seq(Octets)
    PROVE  /\ a \o b \in Seq(Octets) /\ Len(a \o b) = Len(a) + Len(b)
           /\ SubSeq(a \o b, 1, Len(a)) = a
           /\ SubSeq(a \o b, Len(a) + 1, Len(a) + Len(b)) = b
<1> DEFINE s == a \o b
           m == Len(a)
           n == Len(b)
<1>1. /\ m \in Nat /\ n \in Nat /\ s \in Seq(Octets) /\ Len(s) = m + n
      /\ \A i \in 1..m : s[i] = a[i]
      /\ \A i \in 1..n : s[m + i] = b[i]
  OBVIOUS
<1>2. a = [i \in 1..m |-> a[i]] /\ b = [i \in 1..n |-> b[i]]
  OBVIOUS
<1> HIDE DEF s, m, n
<1>3. SubSeq(s, 1, m) = [i \in 1..m |-> s[i]]
  BY <1>1
<1>4. SubSeq(s, m + 1, m + n) = [i \in 1..n |-> s[m + i]]
  <2>1. SubSeq(s, m + 1, m + n) = [i \in 1..((m + n) - (m + 1) + 1) |-> s[(m + 1) + i - 1]]
    BY <1>1
  <2>2. (m + n) - (m + 1) + 1 = n /\ \A i \in 1..n : (m + 1) + i - 1 = m + i
    BY <1>1
  <2> QED
    BY <2>1, <2>2
<1>5. SubSeq(s, 1, m) = a /\ SubSeq(s, m + 1, m + n) = b
  BY <1>1, <1>2, <1>3, <1>4
<1> QED
  BY <1>1, <1>5 DEF s, m, n

LEMMA ElementsOfJoined ==
    ASSUME NEW a \in Seq(Octets), NEW b \in Seq(Octets)
    PROVE  /\ \A k \in 1..Len(a) : (a \o b)[k] = a[k]
           /\ \A k \in 1..Len(b) : (a \o b)[Len(a) + k] = b[k]
OBVIOUS

LEMMA Pair ==
    ASSUME NEW a \in Octets, NEW b \in Octets
    PROVE  <<a, b>> \in Seq(Octets) /\ Len(<<a, b>>) = 2
OBVIOUS

LEMMA FrameMarks ==
    /\ FRAME_HEADER \in Seq(Octets) /\ Len(FRAME_HEADER) = 2
    /\ FRAME_FOOTER \in Seq(Octets) /\ Len(FRAME_FOOTER) = 2
<1>1. 171 \in Octets /\ 205 \in Octets /\ 220 \in Octets /\ 186 \in Octets
  BY DEF Octets
<1> QED
  BY <1>1, Pair DEF FRAME_HEADER, FRAME_FOOTER

LEMMA LittleEndianOctets ==
    ASSUME NEW c \in Words
    PROVE  LittleEndian(c) \in Seq(Octets) /\ Len(LittleEndian(c)) = 2
<1>1. c \in Nat /\ c <= 65535
  BY DEF Words
<1>2. c % 256 \in Octets
  BY <1>1 DEF Octets
<1>3. c \div 256 \in Octets
  <2>1. c \div 256 \in Int
    BY <1>1
  <2>2. c \div 256 <= 255
    BY <1>1
  <2>3. c \div 256 >= 0
    BY <1>1
  <2> QED
    BY <2>1, <2>2, <2>3 DEF Octets
<1>4. LittleEndian(c) = <<c % 256, c \div 256>>
  BY DEF LittleEndian
<1> QED
  BY <1>2, <1>3, <1>4, Pair

\* The four bytes every frame begins with.
LEMMA HeaderOctets ==
    ASSUME NEW n \in 0..255, NEW h, h = FRAME_HEADER \o <<n, 0>>
    PROVE  /\ h \in Seq(Octets) /\ Len(h) = 4
           /\ SubSeq(h, 1, 2) = FRAME_HEADER /\ h[3] = n /\ h[4] = 0
<1> DEFINE a == FRAME_HEADER
           b == <<n, 0>>
<1>1. n \in Octets /\ 0 \in Octets
  BY DEF Octets
<1>2. b \in Seq(Octets) /\ Len(b) = 2 /\ b[1] = n /\ b[2] = 0
  BY <1>1, Pair
<1>3. a \in Seq(Octets) /\ Len(a) = 2
  BY FrameMarks
<1>4. h = a \o b
  OBVIOUS
<1> HIDE DEF a, b
<1>5. /\ a \o b \in Seq(Octets) /\ Len(a \o b) = Len(a) + Len(b)
      /\ SubSeq(a \o b, 1, Len(a)) = a
  BY <1>2, <1>3, PartsOfJoined
<1>6. (a \o b)[Len(a) + 1] = b[1] /\ (a \o b)[Len(a) + 2] = b[2]
  <2>1. \A k \in 1..Len(b) : (a \o b)[Len(a) + k] = b[k]
    BY <1>2, <1>3, ElementsOfJoined
  <2>2. 1 \in 1..Len(b) /\ 2 \in 1..Len(b)
    BY <1>2
  <2> QED
    BY <2>1, <2>2
<1> DEFINE joined == a \o b
<1> HIDE DEF joined
<1>7. /\ joined \in Seq(Octets) /\ Len(joined) = 4 /\ SubSeq(joined, 1, 2) = a
      /\ joined[3] = n /\ joined[4] = 0
  BY <1>2, <1>3, <1>5, <1>6 DEF joined
<1> QED
  BY <1>4, <1>7 DEF a, joined

\* Where the parts of a frame are: its header h and the n + 2 bytes x.
JoinedFrom(frame, n, h, x) ==
    /\ frame \in Seq(Octets) /\ Len(frame) = n + 8 /\ frame[3] = h[3]
    /\ SubSeq(frame, 1, 4) = h /\ SubSeq(frame, 5, n + 6) = x
    /\ SubSeq(frame, n + 7, n + 8) = FRAME_FOOTER

LEMMA FrameParts ==
    ASSUME NEW n \in 0..255, NEW h \in Seq(Octets), Len(h) = 4,
           NEW x \in Seq(Octets), Len(x) = n + 2
    PROVE  JoinedFrom(h \o x \o FRAME_FOOTER, n, h, x)
<1> DEFINE f == FRAME_FOOTER
           i == h \o x
<1>1. f \in Seq(Octets) /\ Len(f) = 2 /\ n \in Nat
  BY FrameMarks
<1> HIDE DEF f
<1>2. /\ i \in Seq(Octets) /\ Len(i) = n + 6
      /\ \A k \in 1..4 : i[k] = h[k]
      /\ \A k \in 1..(n + 2) : i[4 + k] = x[k]
  <2>1. i \in Seq(Octets) /\ Len(i) = Len(h) + Len(x)
    BY PartsOfJoined
  <2>2. /\ \A k \in 1..Len(h) : i[k] = h[k]
        /\ \A k \in 1..Len(x) : i[Len(h) + k] = x[k]
    BY ElementsOfJoined
  <2> QED
    BY <1>1, <2>1, <2>2
<1> HIDE DEF i
<1> DEFINE g == i \o f
<1>3. /\ g \in Seq(Octets) /\ Len(g) = n + 8
      /\ \A k \in 1..(n + 6) : g[k] = i[k]
      /\ SubSeq(g, n + 7, n + 8) = f
  <2>1. /\ g \in Seq(Octets) /\ Len(g) = Len(i) + Len(f)
        /\ SubSeq(g, Len(i) + 1, Len(i) + Len(f)) = f
    BY <1>1, <1>2, PartsOfJoined
  <2>2. \A k \in 1..Len(i) : g[k] = i[k]
    BY <1>1, <1>2, ElementsOfJoined
  <2>3. Len(i) + 1 = n + 7 /\ Len(i) + Len(f) = n + 8
    BY <1>1, <1>2
  <2> QED
    BY <1>2, <2>1, <2>2, <2>3
<1> HIDE DEF g
<1>4. /\ \A k \in 1..4 : g[k] = h[k]
      /\ \A k \in 1..(n + 2) : g[4 + k] = x[k]
  BY <1>1, <1>2, <1>3
<1>5. SubSeq(g, 1, 4) = h
  <2>1. SubSeq(g, 1, 4) = [k \in 1..4 |-> g[k]]
    BY <1>1, <1>3
  <2>2. h = [k \in 1..4 |-> h[k]]
    BY <1>1
  <2> QED
    BY <1>4, <2>1, <2>2
<1>6. SubSeq(g, 5, n + 6) = x
  <2>1. SubSeq(g, 5, n + 6) = [k \in 1..(n + 2) |-> g[4 + k]]
    BY <1>1, <1>3
  <2>2. x = [k \in 1..(n + 2) |-> x[k]]
    BY <1>1
  <2> QED
    BY <1>4, <2>1, <2>2
<1>7. g[3] = h[3]
  BY <1>1, <1>4
<1> QED
  BY <1>3, <1>5, <1>6, <1>7 DEF g, i, f, JoinedFrom

\* What is read back from parts that lie there.
LEMMA HeaderIsRead ==
    ASSUME NEW n \in 0..255, NEW frame \in Seq(Octets), Len(frame) = n + 8,
           NEW h \in Seq(Octets), Len(h) = 4, SubSeq(frame, 1, 4) = h,
           SubSeq(h, 1, 2) = FRAME_HEADER, h[3] = n, h[4] = 0
    PROVE  /\ HEADER_SIZE <= Len(frame)
           /\ SubSeq(frame, 1, Len(FRAME_HEADER)) = FRAME_HEADER
           /\ frame_size_from_header(SubSeq(frame, 1, HEADER_SIZE)) = Len(frame)
<1>1. n \in Nat
  OBVIOUS
<1>2. Len(FRAME_HEADER) = 2 /\ HEADER_SIZE = 4
  BY FrameMarks DEF HEADER_SIZE
<1>3. HEADER_SIZE <= Len(frame)
  BY <1>1, <1>2
<1>4. SubSeq(frame, 1, 2) = FRAME_HEADER
  <2>1. SubSeq(frame, 1, 2) = [k \in 1..2 |-> frame[k]]
    BY <1>1
  <2>2. SubSeq(h, 1, 2) = [k \in 1..2 |-> h[k]]
    OBVIOUS
  <2>3. SubSeq(frame, 1, 4) = [k \in 1..4 |-> frame[k]]
    BY <1>1
  <2>4. \A k \in 1..2 : frame[k] = h[k]
    BY <2>3
  <2> QED
    BY <2>1, <2>2, <2>4
<1>5. frame_size_from_header(h) = n + 8
  BY <1>1 DEF frame_size_from_header, HEADER_SIZE, CHECKSUM_SIZE, FOOTER_SIZE
<1>6. SubSeq(frame, 1, Len(FRAME_HEADER)) = FRAME_HEADER
  BY <1>2, <1>4
<1>7. frame_size_from_header(SubSeq(frame, 1, HEADER_SIZE)) = Len(frame)
  BY <1>2, <1>5
<1> QED
  BY <1>3, <1>6, <1>7

LEMMA BodyIsRead ==
    ASSUME NEW n \in 0..255, NEW frame \in Seq(Octets), Len(frame) = n + 8, frame[3] = n
    PROVE  protected(frame) = xor_transform(SubSeq(frame, 5, n + 6))
<1>1. HEADER_SIZE + 1 = 5 /\ Len(frame) - FOOTER_SIZE = n + 6
  BY DEF HEADER_SIZE, FOOTER_SIZE
<1> QED
  BY <1>1 DEF protected

LEMMA FrameIsRead ==
    ASSUME NEW n \in 0..255, NEW frame \in Seq(Octets), Len(frame) = n + 8, frame[3] = n,
           Len(protected(frame)) = n + 2, SubSeq(frame, n + 7, n + 8) = FRAME_FOOTER,
           SubSeq(protected(frame), n + 1, n + 2)
                = LittleEndian(Checksum(SubSeq(protected(frame), 1, n)))
    PROVE  /\ decoded_payload(frame) = SubSeq(protected(frame), 1, n)
           /\ decode_frame(frame) = IF SubSeq(protected(frame), n + 1, n + 2) = <<255, 255>>
                                    THEN "accepted-legacy-ff-ff" ELSE "valid"
<1> DEFINE sum == SubSeq(protected(frame), n + 1, n + 2)
<1>1. decoded_payload(frame) = SubSeq(protected(frame), 1, n)
  BY DEF decoded_payload
<1>2. SubSeq(frame, Len(frame) - 1, Len(frame)) = FRAME_FOOTER
  <2>1. Len(frame) - 1 = n + 7
    OBVIOUS
  <2> QED
    BY <2>1
<1>3. SubSeq(protected(frame), frame[3] + 1, Len(protected(frame))) = sum
  OBVIOUS
<1>4. LittleEndian(Checksum(decoded_payload(frame))) = sum
  BY <1>1
<1> HIDE DEF sum
<1>5. decode_frame(frame) = IF sum = <<255, 255>> THEN "accepted-legacy-ff-ff" ELSE "valid"
  BY <1>2, <1>3, <1>4, Zenon DEF decode_frame
<1> QED
  BY <1>1, <1>5 DEF sum

LEMMA BodyParts ==
    ASSUME NEW payload \in Seq(Octets), NEW sum \in Seq(Octets), Len(sum) = 2
    PROVE  /\ payload \o sum \in Seq(Octets) /\ Len(payload \o sum) = Len(payload) + 2
           /\ SubSeq(payload \o sum, 1, Len(payload)) = payload
           /\ SubSeq(payload \o sum, Len(payload) + 1, Len(payload) + 2) = sum
BY PartsOfJoined

LEMMA TransformedBody ==
    ASSUME NEW n \in 0..255, NEW body \in Seq(Octets), Len(body) = n + 2
    PROVE  /\ xor_transform(body) \in Seq(Octets) /\ Len(xor_transform(body)) = n + 2
           /\ xor_transform(xor_transform(body)) = body
BY Transformed

LEMMA SizeOctet ==
    ASSUME NEW payload \in Payloads
    PROVE  payload \in Seq(Octets) /\ Len(payload) \in 0..255
<1>1. 0..MAX_PAYLOAD_SIZE = 0..255
  BY DEF MAX_PAYLOAD_SIZE
<1>2. payload \in Seq(Octets) /\ Len(payload) \in 0..MAX_PAYLOAD_SIZE
  BY Zenon DEF Payloads
<1> QED
  BY <1>1, <1>2, Zenon

\* Whatever the payload, a frame encode_frame makes has the header and the size
\* that StreamAssumption asks of the request and of the frames that are sent;
\* decode_frame accepts it, and the payload it returns is the one that was
\* encoded.  A checksum that happens to be FF FF passes for the legacy one.
THEOREM EncodedFramesDecode ==
    ASSUME NEW payload \in Payloads, Checksum(payload) \in Words
    PROVE  LET frame == encode_frame(payload)
           IN  /\ frame \in Seq(Octets) /\ HEADER_SIZE <= Len(frame)
               /\ SubSeq(frame, 1, Len(FRAME_HEADER)) = FRAME_HEADER
               /\ frame_size_from_header(SubSeq(frame, 1, HEADER_SIZE)) = Len(frame)
               /\ decoded_payload(frame) = payload
               /\ decode_frame(frame) = IF LittleEndian(Checksum(payload)) = <<255, 255>>
                                        THEN "accepted-legacy-ff-ff" ELSE "valid"
<1> DEFINE n == Len(payload)
           sum == LittleEndian(Checksum(payload))
           body == payload \o sum
           x == xor_transform(body)
           h == FRAME_HEADER \o <<n, 0>>
           parts == h \o x \o FRAME_FOOTER
           frame == encode_frame(payload)
<1>1. payload \in Seq(Octets) /\ n \in 0..255
  BY SizeOctet, Zenon
<1>2. sum \in Seq(Octets) /\ Len(sum) = 2
  BY LittleEndianOctets, Zenon
<1>3. frame = parts
  BY Zenon DEF encode_frame
<1> HIDE DEF sum, frame
<1>4. /\ body \in Seq(Octets) /\ Len(body) = n + 2
      /\ SubSeq(body, 1, n) = payload /\ SubSeq(body, n + 1, n + 2) = sum
  BY <1>1, <1>2, BodyParts, Zenon
<1> HIDE DEF n, body
<1>5. h \in Seq(Octets) /\ Len(h) = 4
  BY <1>1, HeaderOctets, Zenon
<1>6. SubSeq(h, 1, 2) = FRAME_HEADER /\ h[3] = n /\ h[4] = 0
  BY <1>1, HeaderOctets, Zenon
<1> HIDE DEF h
<1>7. x \in Seq(Octets) /\ Len(x) = n + 2
  BY <1>1, <1>4, TransformedBody, Zenon
<1>8. xor_transform(x) = body
  BY <1>1, <1>4, TransformedBody, Zenon
<1> HIDE DEF x
<1>9. /\ parts \in Seq(Octets) /\ Len(parts) = n + 8 /\ parts[3] = h[3]
      /\ SubSeq(parts, 1, 4) = h /\ SubSeq(parts, 5, n + 6) = x
      /\ SubSeq(parts, n + 7, n + 8) = FRAME_FOOTER
  <2>1. JoinedFrom(parts, n, h, x)
    BY <1>1, <1>5, <1>7, FrameParts, Zenon
  <2> QED
    BY <2>1, Zenon DEF JoinedFrom
<1> HIDE DEF parts
<1>10. parts \in Seq(Octets) /\ Len(parts) = n + 8 /\ parts[3] = n
  BY <1>6, <1>9, Zenon
<1>11. /\ HEADER_SIZE <= Len(parts)
       /\ SubSeq(parts, 1, Len(FRAME_HEADER)) = FRAME_HEADER
       /\ frame_size_from_header(SubSeq(parts, 1, HEADER_SIZE)) = Len(parts)
  BY <1>1, <1>5, <1>6, <1>9, HeaderIsRead, Zenon
<1>12. protected(parts) = body
  <2>1. protected(parts) = xor_transform(SubSeq(parts, 5, n + 6))
    BY <1>1, <1>10, BodyIsRead, Zenon
  <2> QED
    BY <1>8, <1>9, <2>1, Zenon
<1>13. /\ Len(protected(parts)) = n + 2 /\ SubSeq(protected(parts), 1, n) = payload
       /\ SubSeq(protected(parts), n + 1, n + 2) = LittleEndian(Checksum(payload))
       /\ SubSeq(parts, n + 7, n + 8) = FRAME_FOOTER
  BY <1>4, <1>9, <1>12, Zenon DEF sum
<1>14. SubSeq(protected(parts), n + 1, n + 2)
            = LittleEndian(Checksum(SubSeq(protected(parts), 1, n)))
  BY <1>13, Zenon
<1>15. /\ decoded_payload(parts) = SubSeq(protected(parts), 1, n)
       /\ decode_frame(parts) = IF SubSeq(protected(parts), n + 1, n + 2) = <<255, 255>>
                                THEN "accepted-legacy-ff-ff" ELSE "valid"
  <2>1. Len(protected(parts)) = n + 2 /\ SubSeq(parts, n + 7, n + 8) = FRAME_FOOTER
    BY <1>13, Zenon
  <2> QED
    BY <1>1, <1>10, <1>14, <2>1, FrameIsRead, Zenon
<1>16. /\ decoded_payload(parts) = payload
       /\ decode_frame(parts) = IF LittleEndian(Checksum(payload)) = <<255, 255>>
                                THEN "accepted-legacy-ff-ff" ELSE "valid"
  BY <1>13, <1>15, Zenon
<1> QED
  BY <1>3, <1>10, <1>11, <1>16, Zenon DEF frame

=============================================================================
