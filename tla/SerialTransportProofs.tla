------------------------ MODULE SerialTransportProofs ------------------------
(***************************************************************************)
(* Whatever the timeouts, the sizes and the moments at which bytes arrive, *)
(* a call keeps the stream whole, to the limit and in time.                *)
(***************************************************************************)
EXTENDS SerialTransport, TLAPS

\* What a read returned and is not yet in raw.
Pending == IF pc = "received" THEN got ELSE << >>

\* Bytes have the numbers of their arrival, without a gap.
StreamInv ==
    /\ Len(raw) + Len(Pending) + Len(buffer) = Len(arrivals) - discarded
    /\ \A n \in 1..Len(raw) : raw[n] = discarded + n
    /\ \A n \in 1..Len(Pending) : Pending[n] = discarded + Len(raw) + n
    /\ \A n \in 1..Len(buffer) : buffer[n] = discarded + Len(raw) + Len(Pending) + n

PhaseInv ==
    /\ open => pc \notin {"closed", "done"}
    /\ pc \in {"closed", "opened", "settling"} =>
            raw = << >> /\ chunks = << >> /\ lastReceived = NotYet
    /\ outcome # "none" => pc = "done"

LimitInv ==
    /\ outcome = "too-large" => Len(raw) = MaxResponseSize + 1
    /\ outcome # "too-large" => Len(raw) <= MaxResponseSize
    /\ pc = "received" => Len(got) \in 1..(MaxResponseSize - Len(raw) + 1)

TimeInv ==
    /\ Len(arrivals) <= MaxBytes
    /\ \A n \in 1..Len(arrivals) : arrivals[n] <= now
    /\ \A i \in 1..Len(chunks) :
        /\ chunks[i].at <= now
        /\ \A n \in 1..Len(chunks[i].data) : chunks[i].data[n] \in 1..Len(arrivals)
    /\ ChunksAreNotEarly

JustArrived == \A n \in 1..Len(buffer) : arrivals[buffer[n]] = now

PromptInv ==
    prompt =>
        /\ now < Ceiling
        /\ pc = "checked" => now < TotalTimeout
        /\ pc = "reading" => readUntil < Ceiling
        /\ pc = "looping" => lastReceived \in {NotYet, now} \/ JustArrived
        /\ outcome = "returned" => now >= TotalTimeout \/ JustArrived

\* f concatenates the sequences of s one after another, as FlattenSeq does.
Concatenates(f, s) == f = [i \in 1..Len(s) |-> IF i = 1 THEN s[i] ELSE f[i - 1] \o s[i]]

\* r is what the sequences of s make together.
IsFlat(r, s) ==
    /\ s = << >> => r = << >>
    /\ \E f : Concatenates(f, s)
    /\ \A f : Concatenates(f, s) /\ s # << >> => f[Len(s)] = r

Data == [i \in DOMAIN chunks |-> chunks[i].data]

ChunkInv == outcome # "too-large" => IsFlat(raw, Data)

CallInv ==
    TypeOK /\ StreamInv /\ PhaseInv /\ LimitInv /\ TimeInv /\ PromptInv /\ ChunkInv

-----------------------------------------------------------------------------
(* Facts about numbers and sequences.                                      *)

LEMMA Constants ==
    /\ TotalTimeout \in Nat \ {0} /\ IdleTimeout \in Nat \ {0} /\ ReadTimeout \in Nat \ {0}
    /\ MaxBytes \in Nat /\ READ_SIZE \in Nat \ {0} /\ MaxResponseSize \in Nat \ {0}
    /\ RequestSize \in Nat \ {0}
    /\ Ceiling = TotalTimeout + ReadTimeout /\ Times = 0..Ceiling
    /\ Bytes = 1..MaxBytes /\ NotYet = -1
BY TransportAssumption DEF Ceiling, Times, Bytes, NotYet

LEMMA MinOfTwo ==
    ASSUME NEW a \in Int, NEW b \in Int
    PROVE  /\ Min({a, b}) \in {a, b}
           /\ Min({a, b}) <= a /\ Min({a, b}) <= b
<1>1. \E x \in {a, b} : \A y \in {a, b} : x =< y
  <2>1. CASE a <= b
    BY <2>1
  <2>2. CASE ~(a <= b)
    BY <2>2
  <2> QED
    BY <2>1, <2>2
<1> QED
  BY <1>1 DEF Min

LEMMA Concatenated ==
    ASSUME NEW S, NEW s \in Seq(S), NEW t \in Seq(S)
    PROVE  /\ s \o t \in Seq(S) /\ Len(s \o t) = Len(s) + Len(t)
           /\ \A n \in 1..Len(s) : (s \o t)[n] = s[n]
           /\ \A n \in 1..Len(t) : (s \o t)[Len(s) + n] = t[n]
           /\ \A n \in (Len(s) + 1)..(Len(s) + Len(t)) : (s \o t)[n] = t[n - Len(s)]
OBVIOUS

LEMMA Appended ==
    ASSUME NEW S, NEW s \in Seq(S), NEW x \in S
    PROVE  /\ Append(s, x) \in Seq(S) /\ Len(Append(s, x)) = Len(s) + 1
           /\ \A n \in 1..Len(s) : Append(s, x)[n] = s[n]
           /\ Append(s, x)[Len(s) + 1] = x
OBVIOUS

LEMMA SplitAt ==
    ASSUME NEW S, NEW s \in Seq(S), NEW n \in 0..Len(s)
    PROVE  /\ SubSeq(s, 1, n) \in Seq(S) /\ Len(SubSeq(s, 1, n)) = n
           /\ SubSeq(s, n + 1, Len(s)) \in Seq(S)
           /\ Len(SubSeq(s, n + 1, Len(s))) = Len(s) - n
           /\ \A i \in 1..n : SubSeq(s, 1, n)[i] = s[i]
           /\ \A i \in 1..(Len(s) - n) : SubSeq(s, n + 1, Len(s))[i] = s[n + i]
<1>1. Len(s) \in Nat /\ \A i \in 1..Len(s) : s[i] \in S
  OBVIOUS
<1>2. SubSeq(s, 1, n) = [i \in 1..n |-> s[i]]
  BY <1>1
<1>3. SubSeq(s, n + 1, Len(s)) = [i \in 1..(Len(s) - n) |-> s[n + i]]
  BY <1>1
<1> QED
  BY <1>1, <1>2, <1>3

LEMMA ReadSizeFacts ==
    ASSUME TypeOK, LimitInv, outcome # "too-large"
    PROVE  ReadSize \in 1..(MaxResponseSize - Len(raw) + 1)
<1>1. Len(raw) \in Nat /\ Len(raw) <= MaxResponseSize
  BY DEF TypeOK, LimitInv
<1> QED
  BY <1>1, Constants, MinOfTwo DEF ReadSize

LEMMA FlatIsFlattened ==
    ASSUME NEW S, NEW s \in Seq(S), NEW r, IsFlat(r, s)
    PROVE  r = FlattenSeq(s)
<1>1. CASE s = << >>
  BY <1>1 DEF IsFlat, FlattenSeq
<1>2. CASE s # << >>
  <2> DEFINE f == CHOOSE g : Concatenates(g, s)
  <2>1. Concatenates(f, s)
    BY DEF IsFlat
  <2>2. f[Len(s)] = r
    BY <1>2, <2>1 DEF IsFlat
  <2>3. FlattenSeq(s) = f[Len(s)]
    BY <1>2 DEF FlattenSeq, Concatenates
  <2> QED
    BY <2>2, <2>3
<1> QED
  BY <1>1, <1>2

LEMMA StepOfConcatenates ==
    ASSUME NEW f, NEW s, Concatenates(f, s)
    PROVE  \A i \in 1..Len(s) : f[i] = IF i = 1 THEN s[i] ELSE f[i - 1] \o s[i]
<1> SUFFICES ASSUME NEW i \in 1..Len(s)
             PROVE  f[i] = IF i = 1 THEN s[i] ELSE f[i - 1] \o s[i]
  OBVIOUS
<1> DEFINE e(k) == IF k = 1 THEN s[k] ELSE f[k - 1] \o s[k]
<1>1. f = [k \in 1..Len(s) |-> e(k)]
  BY DEF Concatenates
<1>2. [k \in 1..Len(s) |-> e(k)][i] = e(i)
  BY Zenon
<1>3. f[i] = e(i)
  BY <1>1, <1>2, Zenon
<1> QED
  BY <1>3

LEMMA ByStepsConcatenates ==
    ASSUME NEW f, NEW s, f = [i \in 1..Len(s) |-> f[i]],
           \A i \in 1..Len(s) : f[i] = IF i = 1 THEN s[i] ELSE f[i - 1] \o s[i]
    PROVE  Concatenates(f, s)
<1> DEFINE e(k) == IF k = 1 THEN s[k] ELSE f[k - 1] \o s[k]
<1>1. \A i \in 1..Len(s) : f[i] = e(i)
  OBVIOUS
<1> HIDE DEF e
<1>2. f = [k \in 1..Len(s) |-> e(k)]
  BY <1>1
<1> QED
  BY <1>2 DEF e, Concatenates

LEMMA NothingIsFlat == IsFlat(<< >>, << >>)
<1>1. Concatenates([i \in 1..0 |-> << >>], << >>)
  BY DEF Concatenates
<1> QED
  BY <1>1 DEF IsFlat

LEMMA FlatExtends ==
    ASSUME NEW S, NEW s \in Seq(Seq(S)), NEW x \in Seq(S), NEW r \in Seq(S), IsFlat(r, s)
    PROVE  IsFlat(r \o x, Append(s, x))
<1> DEFINE t == Append(s, x)
           n == Len(s)
<1>1. /\ n \in Nat /\ t \in Seq(Seq(S)) /\ Len(t) = n + 1 /\ t # << >>
      /\ t[n + 1] = x /\ \A i \in 1..n : t[i] = s[i]
      /\ (n = 0) <=> (s = << >>)
  <2> DEFINE Q == Seq(S)
  <2> HIDE DEF Q
  <2>1. s \in Seq(Q) /\ x \in Q
    BY DEF Q
  <2>2. n \in Nat /\ ((n = 0) <=> (s = << >>))
    BY <2>1
  <2>3. t \in Seq(Q) /\ Len(t) = n + 1 /\ t[n + 1] = x /\ \A i \in 1..n : t[i] = s[i]
    BY <2>1, Appended
  <2>4. t # << >>
    BY <2>2, <2>3
  <2> QED
    BY <2>2, <2>3, <2>4 DEF Q
<1> HIDE DEF t, n
<1>2. \E f : Concatenates(f, t)
  <2>1. PICK g : Concatenates(g, s)
    BY DEF IsFlat
  <2> DEFINE f == [i \in 1..(n + 1) |-> IF i <= n THEN g[i]
                                       ELSE IF i = 1 THEN x ELSE g[i - 1] \o x]
  <2>2. \A i \in 1..(n + 1) : f[i] = IF i = 1 THEN t[i] ELSE f[i - 1] \o t[i]
    <3> SUFFICES ASSUME NEW i \in 1..(n + 1)
                 PROVE  f[i] = IF i = 1 THEN t[i] ELSE f[i - 1] \o t[i]
      OBVIOUS
    <3>1. CASE i <= n
      <4>1. g[i] = IF i = 1 THEN s[i] ELSE g[i - 1] \o s[i]
        BY <1>1, <2>1, <3>1, StepOfConcatenates DEF n
      <4>2. f[i] = g[i] /\ t[i] = s[i] /\ (i # 1 => f[i - 1] = g[i - 1])
        BY <1>1, <3>1
      <4> QED
        BY <4>1, <4>2
    <3>2. CASE i = n + 1
      <4>1. f[i] = IF i = 1 THEN x ELSE g[i - 1] \o x
        BY <1>1, <3>2
      <4>2. t[i] = x /\ (i # 1 => f[i - 1] = g[i - 1])
        BY <1>1, <3>2
      <4> QED
        BY <4>1, <4>2
    <3> QED
      BY <1>1, <3>1, <3>2
  <2>3. Concatenates(f, t)
    <3>1. f = [i \in 1..Len(t) |-> f[i]]
      BY <1>1
    <3>2. \A i \in 1..Len(t) : f[i] = IF i = 1 THEN t[i] ELSE f[i - 1] \o t[i]
      BY <1>1, <2>2
    <3> HIDE DEF f
    <3> QED
      BY <3>1, <3>2, ByStepsConcatenates
  <2> QED
    BY <2>3
<1>3. ASSUME NEW f, Concatenates(f, t)
      PROVE  f[Len(t)] = r \o x
  <2>1. \A i \in 1..(n + 1) : f[i] = IF i = 1 THEN t[i] ELSE f[i - 1] \o t[i]
    <3>1. \A i \in 1..Len(t) : f[i] = IF i = 1 THEN t[i] ELSE f[i - 1] \o t[i]
      BY <1>3, StepOfConcatenates, Zenon
    <3> QED
      BY <1>1, <3>1
  <2>2. CASE s = << >>
    <3>1. n = 0 /\ r = << >>
      BY <1>1, <2>2 DEF IsFlat
    <3>2. f[1] = x
      BY <1>1, <2>1, <3>1
    <3> QED
      BY <1>1, <3>1, <3>2
  <2>3. CASE s # << >>
    <3> DEFINE g == [i \in 1..n |-> f[i]]
    <3>1. \A i \in 1..n : g[i] = IF i = 1 THEN s[i] ELSE g[i - 1] \o s[i]
      BY <1>1, <2>1
    <3>2. Concatenates(g, s)
      BY <3>1 DEF Concatenates, n
    <3>3. g[n] = r
      BY <2>3, <3>2 DEF IsFlat, n
    <3>4. n \in 1..n /\ n + 1 \in 1..(n + 1) /\ n + 1 # 1 /\ (n + 1) - 1 = n
      BY <1>1, <2>3
    <3>5. f[n] = r
      BY <3>3, <3>4
    <3>6. f[n + 1] = f[n] \o t[n + 1]
      BY <2>1, <3>4
    <3> QED
      BY <1>1, <3>5, <3>6
  <2> QED
    BY <2>2, <2>3
<1> QED
  BY <1>1, <1>2, <1>3 DEF IsFlat, t

-----------------------------------------------------------------------------
(* The invariant, action by action.                                        *)

LEMMA CallInit == ASSUME Init PROVE CallInv
<1>1. TypeOK
  <2>1. << >> \in Seq(Times) /\ << >> \in Seq(Bytes) /\ << >> \in Seq(Chunks)
    OBVIOUS
  <2>2. 0 \in Times /\ 0 \in 0..RequestSize /\ 0 \in 0..MaxBytes /\ Len(<< >>) <= MaxResponseSize + 1
    BY Constants
  <2> QED
    BY <2>1, <2>2 DEF Init, TypeOK
<1>2. StreamInv /\ PhaseInv
  BY DEF Init, StreamInv, PhaseInv, Pending
<1>3. LimitInv
  BY Constants DEF Init, LimitInv
<1>4. TimeInv
  BY Constants DEF Init, TimeInv, ChunksAreNotEarly
<1>5. PromptInv
  BY Constants DEF Init, PromptInv, JustArrived
<1>6. ChunkInv
  BY NothingIsFlat DEF Init, ChunkInv, Data
<1> QED
  BY <1>1, <1>2, <1>3, <1>4, <1>5, <1>6 DEF CallInv

\* What the steps that read nothing leave as it is.
Quiet == UNCHANGED <<operation, prompt, now, arrivals, buffer, discarded, raw, chunks,
                     lastReceived, Pending>>

LEMMA QuietKeeps ==
    ASSUME CallInv, Quiet, outcome # "too-large"
    PROVE  /\ StreamInv' /\ TimeInv' /\ ChunkInv'
           /\ outcome' # "too-large" /\ pc' # "received" => LimitInv'
<1>1. StreamInv'
  <2>1. StreamInv /\ Pending' = Pending
    BY DEF CallInv, Quiet
  <2> HIDE DEF Pending
  <2> QED
    BY <2>1 DEF StreamInv, Quiet
<1>2. TimeInv'
  BY DEF CallInv, TimeInv, ChunksAreNotEarly, Quiet
<1>3. ChunkInv'
  BY DEF CallInv, ChunkInv, Data, Quiet
<1>4. outcome' # "too-large" /\ pc' # "received" => LimitInv'
  BY DEF CallInv, LimitInv, Quiet
<1> QED
  BY <1>1, <1>2, <1>3, <1>4

\* The steps that move the call along, and the ways out of it.
LEMMA MovesKeep ==
    ASSUME CallInv,
           Open \/ OpenFails \/ ResetFails \/ Transmit \/ TransmitFails \/ Check
               \/ StartRead \/ ReadFails
    PROVE  CallInv'
<1>1. Quiet /\ outcome # "too-large" /\ outcome' # "too-large" /\ pc' # "received"
  BY DEF CallInv, PhaseInv, Quiet, Pending, Open, OpenFails, ResetFails, Transmit,
         TransmitFails, Check, StartRead, ReadFails, Exit, portVars, loopVars
<1>2. TypeOK'
  <2>1. CASE StartRead
    <3>1. now \in 0..Ceiling
      BY Constants DEF CallInv, TypeOK
    <3>2. Min({now + ReadTimeout, Ceiling}) \in Times
      <4>1. now + ReadTimeout \in Int /\ now + ReadTimeout >= 0 /\ Ceiling \in Int /\ Ceiling >= 0
        BY <3>1, Constants
      <4>2. Min({now + ReadTimeout, Ceiling}) \in {now + ReadTimeout, Ceiling}
            /\ Min({now + ReadTimeout, Ceiling}) <= Ceiling
        BY <4>1, MinOfTwo
      <4> QED
        BY <4>1, <4>2, Constants
    <3> QED
      BY <2>1, <3>2 DEF CallInv, TypeOK, StartRead, portVars, Collecting
  <2>2. CASE Open \/ OpenFails \/ ResetFails \/ ReadFails
    BY <2>2 DEF CallInv, TypeOK, Open, OpenFails, ResetFails, ReadFails, Exit, portVars,
                loopVars, Collecting
  <2>3. CASE Transmit \/ TransmitFails
    <3>1. written' \in 0..RequestSize
      BY <2>3, Constants DEF Transmit, TransmitFails
    <3> QED
      BY <2>3, <3>1 DEF CallInv, TypeOK, Transmit, TransmitFails, Exit, loopVars, Collecting
  <2>4. CASE Check
    BY <2>4 DEF CallInv, TypeOK, Check, Exit, portVars, loopVars, Collecting
  <2> QED
    BY <2>1, <2>2, <2>3, <2>4
<1>3. PhaseInv'
  BY DEF CallInv, TypeOK, PhaseInv, Open, OpenFails, ResetFails, Transmit,
         TransmitFails, Check, StartRead, ReadFails, Exit, portVars, loopVars
<1>4. PromptInv'
  <2>1. CASE StartRead
    <3>1. readUntil' = Min({now + ReadTimeout, Ceiling})
      BY <2>1 DEF StartRead
    <3>2. prompt => readUntil' < Ceiling
      <4>1. now \in Nat
        BY Constants DEF CallInv, TypeOK
      <4> QED
        BY <2>1, <3>1, <4>1, MinOfTwo, Constants DEF CallInv, PromptInv, StartRead
    <3> QED
      BY <2>1, <3>2 DEF CallInv, PhaseInv, PromptInv, StartRead, portVars
  <2>2. CASE Check
    <3>1. now \in Nat /\ lastReceived \in Int
      BY Constants DEF CallInv, TypeOK
    <3>2. Expired => now >= TotalTimeout \/ (lastReceived \notin {NotYet, now})
      BY <3>1, Constants DEF Expired, IdleTooLong
    <3>3. ~Expired => now < TotalTimeout
      BY <3>1, Constants DEF Expired
    <3> QED
      BY <2>2, <3>2, <3>3, <1>1
         DEF CallInv, PhaseInv, PromptInv, JustArrived, Check, Exit, Quiet, portVars, loopVars
  <2>3. CASE Open \/ OpenFails \/ ResetFails \/ Transmit \/ TransmitFails \/ ReadFails
    BY <2>3, <1>1 DEF CallInv, PhaseInv, PromptInv, JustArrived, Open, OpenFails, ResetFails,
         Transmit, TransmitFails, ReadFails, Exit, Quiet
  <2> QED
    BY <2>1, <2>2, <2>3
<1> QED
  BY <1>1, <1>2, <1>3, <1>4, QuietKeeps DEF CallInv

LEMMA ResetKeeps == ASSUME CallInv, Reset PROVE CallInv'
<1>1. /\ pc = "opened" /\ outcome = "none" /\ outcome' = "none" /\ pc' = "settling"
      /\ raw = << >> /\ chunks = << >> /\ lastReceived = NotYet
  BY DEF CallInv, TypeOK, PhaseInv, Reset
<1>2. Len(arrivals) \in 0..MaxBytes
  BY Constants DEF CallInv, TypeOK, TimeInv
<1>3. TypeOK'
  BY <1>1, <1>2 DEF CallInv, TypeOK, Reset, loopVars
<1>4. StreamInv'
  BY <1>1, <1>2 DEF CallInv, StreamInv, Reset, Pending, loopVars
<1>5. PhaseInv' /\ LimitInv'
  BY <1>1 DEF CallInv, PhaseInv, LimitInv, Reset, loopVars
<1>6. TimeInv'
  BY DEF CallInv, TimeInv, ChunksAreNotEarly, Reset, loopVars
<1>7. PromptInv'
  BY <1>1 DEF CallInv, PromptInv, Reset, loopVars
<1>8. ChunkInv'
  BY <1>1 DEF CallInv, ChunkInv, Data, Reset, loopVars
<1> QED
  BY <1>3, <1>4, <1>5, <1>6, <1>7, <1>8 DEF CallInv

LEMMA ChunkFacts ==
    ASSUME TypeOK, NEW i \in 1..Len(chunks)
    PROVE  chunks[i].at \in 0..Ceiling /\ chunks[i].data \in Seq(Bytes) /\ Len(chunks[i].data) \in Nat
<1>1. chunks[i] \in Chunks
  BY DEF TypeOK
<1>2. chunks[i].at \in Times /\ chunks[i].data \in Seq(Bytes)
  BY <1>1 DEF Chunks
<1> QED
  BY <1>2, Constants

\* The numbers of the bytes that wait are those of arrivals.
LEMMA BufferIsNumbered ==
    ASSUME CallInv
    PROVE  /\ discarded + Len(raw) + Len(Pending) + Len(buffer) = Len(arrivals)
           /\ \A n \in 1..Len(buffer) : buffer[n] \in 1..Len(arrivals)
           /\ \A n \in 1..Len(Pending) : Pending[n] \in 1..Len(arrivals)
<1>1. /\ Len(raw) \in Nat /\ Len(buffer) \in Nat /\ Len(arrivals) \in Nat /\ discarded \in Nat
      /\ got \in Seq(Bytes) /\ << >> \in Seq(Bytes)
  BY Constants DEF CallInv, TypeOK
<1>2. Len(Pending) \in Nat
  BY <1>1 DEF Pending
<1> HIDE DEF Pending
<1> QED
  BY <1>1, <1>2 DEF CallInv, StreamInv

LEMMA ReadReturnsKeeps == ASSUME CallInv, ReadReturns PROVE CallInv'
<1> DEFINE n == Min({ReadSize, Len(buffer)})
<1>1. /\ pc = "reading" /\ outcome = "none" /\ outcome' = "none"
      /\ pc' = IF n = 0 THEN "looping" ELSE "received"
      /\ got' = SubSeq(buffer, 1, n) /\ buffer' = SubSeq(buffer, n + 1, Len(buffer))
      /\ UNCHANGED <<operation, prompt, open, now, arrivals, discarded, written,
                      readUntil, raw, chunks, lastReceived>>
  BY DEF CallInv, TypeOK, PhaseInv, ReadReturns
<1>2. buffer \in Seq(Bytes) /\ Len(buffer) \in Nat /\ raw \in Seq(Bytes) /\ Len(raw) \in Nat
  BY DEF CallInv, TypeOK
<1>3. ReadSize \in 1..(MaxResponseSize - Len(raw) + 1)
  BY <1>1, ReadSizeFacts DEF CallInv
<1>4. /\ n \in 0..Len(buffer) /\ n <= MaxResponseSize - Len(raw) + 1
      /\ n = 0 => Len(buffer) = 0
  <2>1. ReadSize \in Int /\ Len(buffer) \in Int /\ ReadSize >= 1
    BY <1>2, <1>3, Constants
  <2>2. n \in {ReadSize, Len(buffer)} /\ n <= ReadSize /\ n <= Len(buffer)
    BY <2>1, MinOfTwo
  <2> HIDE DEF n
  <2> QED
    BY <1>2, <1>3, <2>1, <2>2, Constants
<1>5. /\ got' \in Seq(Bytes) /\ Len(got') = n /\ \A i \in 1..n : got'[i] = buffer[i]
      /\ buffer' \in Seq(Bytes) /\ Len(buffer') = Len(buffer) - n
      /\ \A i \in 1..(Len(buffer) - n) : buffer'[i] = buffer[n + i]
  BY <1>1, <1>2, <1>4, SplitAt
<1> HIDE DEF n
<1>6. TypeOK'
  BY <1>1, <1>5 DEF CallInv, TypeOK, Collecting
<1>7. StreamInv'
  <2>1. Pending = << >> /\ Len(Pending) = 0
    BY <1>1 DEF Pending
  <2>2. Len(Pending') = n /\ \A i \in 1..n : Pending'[i] = buffer[i]
    BY <1>1, <1>4, <1>5 DEF Pending
  <2>3. /\ Len(raw) + Len(buffer) = Len(arrivals) - discarded
        /\ \A i \in 1..Len(raw) : raw[i] = discarded + i
        /\ \A i \in 1..Len(buffer) : buffer[i] = discarded + Len(raw) + i
    BY <1>2, <2>1, Constants DEF CallInv, TypeOK, StreamInv
  <2>4. discarded \in Nat /\ Len(arrivals) \in Nat
    BY Constants DEF CallInv, TypeOK
  <2>5. Len(raw') + Len(Pending') + Len(buffer') = Len(arrivals') - discarded'
    <3>1. /\ Len(raw') = Len(raw) /\ Len(Pending') = n /\ Len(buffer') = Len(buffer) - n
          /\ Len(arrivals') = Len(arrivals) /\ discarded' = discarded /\ n \in Nat
      BY <1>1, <1>2, <1>4, <1>5, <2>2
    <3>2. Len(raw) + n + (Len(buffer) - n) = Len(raw) + Len(buffer)
      BY <1>2, <3>1
    <3> QED
      BY <2>3, <3>1, <3>2, Zenon
  <2>6. \A i \in 1..Len(Pending') : Pending'[i] = discarded' + Len(raw') + i
    BY <1>1, <1>2, <1>4, <2>2, <2>3
  <2>7. \A i \in 1..Len(buffer') : buffer'[i] = discarded' + Len(raw') + Len(Pending') + i
    <3> SUFFICES ASSUME NEW i \in 1..Len(buffer')
                 PROVE  buffer'[i] = discarded' + Len(raw') + Len(Pending') + i
      OBVIOUS
    <3>1. i \in 1..(Len(buffer) - n) /\ n + i \in 1..Len(buffer)
      BY <1>2, <1>4, <1>5
    <3>2. buffer'[i] = discarded + Len(raw) + (n + i)
      BY <1>5, <2>3, <3>1
    <3> HIDE DEF Pending
    <3> QED
      BY <1>1, <1>2, <1>4, <2>2, <2>4, <3>1, <3>2
  <2> HIDE DEF Pending
  <2> QED
    BY <1>1, <2>3, <2>5, <2>6, <2>7 DEF StreamInv
<1>8. PhaseInv'
  BY <1>1 DEF CallInv, PhaseInv
<1>9. LimitInv'
  BY <1>1, <1>2, <1>4, <1>5, Constants DEF CallInv, LimitInv
<1>10. TimeInv' /\ ChunkInv'
  BY <1>1 DEF CallInv, TimeInv, ChunksAreNotEarly, ChunkInv, Data
<1>11. PromptInv'
  <2>1. pc' = "looping" => JustArrived'
    BY <1>1, <1>4, <1>5 DEF JustArrived
  <2> QED
    BY <1>1, <2>1 DEF CallInv, PromptInv
<1> QED
  BY <1>6, <1>7, <1>8, <1>9, <1>10, <1>11 DEF CallInv

LEMMA TickKeeps == ASSUME CallInv, Tick PROVE CallInv'
<1>1. /\ now \in Nat /\ now' = now + 1 /\ now < Ceiling
      /\ readUntil \in Nat /\ Len(buffer) \in Nat
      /\ UNCHANGED <<operation, prompt, pc, open, portVars, loopVars, outcome>>
  BY Constants DEF CallInv, TypeOK, Tick
<1>2. TypeOK'
  BY <1>1, Constants DEF CallInv, TypeOK, portVars, loopVars
<1>3. StreamInv' /\ PhaseInv' /\ LimitInv' /\ ChunkInv'
  BY <1>1 DEF CallInv, StreamInv, Pending, PhaseInv, LimitInv, ChunkInv, Data, portVars, loopVars
<1>4. TimeInv'
  <2>1. \A i \in 1..Len(arrivals) : arrivals[i] \in Nat
    BY Constants DEF CallInv, TypeOK
  <2>2. \A i \in 1..Len(chunks) : chunks[i].at \in Nat
    BY ChunkFacts, Constants DEF CallInv
  <2>3. TimeInv /\ UNCHANGED <<arrivals, chunks>>
    BY <1>1 DEF CallInv, portVars, loopVars
  <2>4. ChunksAreNotEarly'
    BY <2>3 DEF TimeInv, ChunksAreNotEarly
  <2> HIDE DEF ChunksAreNotEarly
  <2> QED
    BY <1>1, <2>1, <2>2, <2>3, <2>4 DEF TimeInv
<1>5. PromptInv'
  <2>1. prompt => pc = "reading" /\ now < readUntil /\ readUntil < Ceiling
    BY <1>1 DEF CallInv, PromptInv, Tick, ReadDue
  <2>2. pc = "reading" => outcome = "none"
    BY DEF CallInv, TypeOK, PhaseInv
  <2> QED
    BY <1>1, <2>1, <2>2, Constants DEF CallInv, PromptInv, portVars, loopVars
<1> QED
  BY <1>2, <1>3, <1>4, <1>5 DEF CallInv

LEMMA ArriveKeeps == ASSUME CallInv, Arrive PROVE CallInv'
<1> DEFINE last == Len(arrivals) + 1
<1>1. /\ open /\ outcome = "none" /\ pc \notin {"closed", "done"}
      /\ arrivals \in Seq(Times) /\ buffer \in Seq(Bytes) /\ now \in Times /\ now \in Nat
      /\ Len(arrivals) \in Nat /\ Len(buffer) \in Nat /\ last \in Bytes /\ last <= MaxBytes
      /\ arrivals' = Append(arrivals, now) /\ buffer' = Append(buffer, last)
      /\ UNCHANGED <<operation, prompt, pc, open, now, discarded, written, loopVars, outcome>>
      /\ Pending' = Pending
  BY Constants DEF CallInv, TypeOK, PhaseInv, Arrive, Pending, loopVars
<1>2. /\ arrivals' \in Seq(Times) /\ Len(arrivals') = last /\ arrivals'[last] = now
      /\ \A n \in 1..Len(arrivals) : arrivals'[n] = arrivals[n]
      /\ buffer' \in Seq(Bytes) /\ Len(buffer') = Len(buffer) + 1
      /\ \A n \in 1..Len(buffer) : buffer'[n] = buffer[n]
      /\ buffer'[Len(buffer) + 1] = last
  BY <1>1, Appended
<1>3. TypeOK'
  BY <1>1, <1>2 DEF CallInv, TypeOK, loopVars
<1>4. discarded \in Nat /\ Len(raw) \in Nat /\ Len(Pending) \in Nat
  BY Constants DEF CallInv, TypeOK, Pending
<1>5. StreamInv'
  <2>1. discarded + Len(raw) + Len(Pending) + Len(buffer) = Len(arrivals)
    BY BufferIsNumbered
  <2>2. Len(raw') + Len(Pending') + Len(buffer') = Len(arrivals') - discarded'
    <3>1. /\ Len(raw') = Len(raw) /\ Len(Pending') = Len(Pending)
          /\ Len(buffer') = Len(buffer) + 1
          /\ Len(arrivals') = Len(arrivals) + 1 /\ discarded' = discarded
      BY <1>1, <1>2 DEF loopVars
    <3> DEFINE a == Len(arrivals)
               b == Len(buffer)
               r == Len(raw)
               p == Len(Pending)
    <3>2. a \in Nat /\ b \in Nat /\ r \in Nat /\ p \in Nat /\ discarded + r + p + b = a
      BY <1>1, <1>4, <2>1
    <3> HIDE DEF a, b, r, p
    <3>3. r + p + (b + 1) = (a + 1) - discarded
      BY <1>4, <3>2
    <3> QED
      BY <3>1, <3>3, Zenon DEF a, b, r, p
  <2>3. \A n \in 1..Len(buffer') : buffer'[n] = discarded' + Len(raw') + Len(Pending') + n
    <3> SUFFICES ASSUME NEW n \in 1..Len(buffer')
                 PROVE  buffer'[n] = discarded' + Len(raw') + Len(Pending') + n
      OBVIOUS
    <3>1. CASE n \in 1..Len(buffer)
      BY <1>1, <1>2, <3>1 DEF CallInv, StreamInv, loopVars
    <3>2. CASE n = Len(buffer) + 1
      BY <1>1, <1>2, <1>4, <2>1, <3>2 DEF loopVars
    <3> QED
      BY <1>1, <1>2, <3>1, <3>2
  <2> HIDE DEF Pending
  <2> QED
    BY <1>1, <2>2, <2>3 DEF CallInv, StreamInv, loopVars
<1>6. PhaseInv' /\ LimitInv' /\ ChunkInv'
  BY <1>1 DEF CallInv, PhaseInv, LimitInv, ChunkInv, Data, loopVars
<1>7. TimeInv'
  <2>1. \A n \in 1..Len(arrivals') : arrivals'[n] <= now'
    BY <1>1, <1>2 DEF CallInv, TimeInv
  <2>2. \A i \in 1..Len(chunks) : \A n \in 1..Len(chunks[i].data) :
            arrivals'[chunks[i].data[n]] = arrivals[chunks[i].data[n]]
    BY <1>2 DEF CallInv, TimeInv
  <2>3. ChunksAreNotEarly'
    <3>1. chunks' = chunks /\ DOMAIN chunks = 1..Len(chunks)
      BY <1>1 DEF CallInv, TypeOK, loopVars
    <3>2. \A i \in 1..Len(chunks) : DOMAIN chunks[i].data = 1..Len(chunks[i].data)
      BY ChunkFacts DEF CallInv
    <3> QED
      BY <2>2, <3>1, <3>2 DEF CallInv, TimeInv, ChunksAreNotEarly
  <2>4. \A i \in 1..Len(chunks') :
            /\ chunks'[i].at <= now'
            /\ \A n \in 1..Len(chunks'[i].data) : chunks'[i].data[n] \in 1..Len(arrivals')
    BY <1>1, <1>2 DEF CallInv, TimeInv, loopVars
  <2> QED
    BY <1>1, <1>2, <2>1, <2>3, <2>4 DEF TimeInv
<1>8. PromptInv'
  <2>1. JustArrived => JustArrived'
    BY <1>1, <1>2, BufferIsNumbered DEF JustArrived
  <2> QED
    BY <1>1, <2>1 DEF CallInv, PromptInv, loopVars
<1> QED
  BY <1>3, <1>5, <1>6, <1>7, <1>8 DEF CallInv

LEMMA ReceiveKeeps == ASSUME CallInv, Receive PROVE CallInv'
<1>1. /\ pc = "received" /\ outcome = "none" /\ raw' = raw \o got
      /\ raw \in Seq(Bytes) /\ got \in Seq(Bytes) /\ buffer \in Seq(Bytes)
      /\ chunks \in Seq(Chunks) /\ now \in Times /\ now \in 0..Ceiling
      /\ UNCHANGED <<operation, prompt, now, portVars, readUntil, got>>
  BY Constants DEF CallInv, TypeOK, PhaseInv, Receive
<1>2. /\ raw' \in Seq(Bytes) /\ Len(raw') = Len(raw) + Len(got)
      /\ Len(raw) \in Nat /\ Len(got) \in Nat /\ Len(buffer) \in Nat
      /\ \A n \in 1..Len(raw) : raw'[n] = raw[n]
      /\ \A n \in (Len(raw) + 1)..(Len(raw) + Len(got)) : raw'[n] = got[n - Len(raw)]
  BY <1>1, Concatenated
<1>3. Len(got) \in 1..(MaxResponseSize - Len(raw) + 1) /\ Len(raw') <= MaxResponseSize + 1
  BY <1>1, <1>2, Constants DEF CallInv, LimitInv
<1>4. /\ Pending = got /\ pc' # "received" /\ Pending' = << >>
      /\ discarded \in Nat /\ Len(arrivals) \in Nat
  BY <1>1, Constants DEF CallInv, TypeOK, Receive, Exit, Pending
<1>5. StreamInv'
  <2>1. Len(raw') + Len(Pending') + Len(buffer') = Len(arrivals') - discarded'
    BY <1>1, <1>2, <1>4 DEF CallInv, StreamInv, portVars
  <2>2. \A n \in 1..Len(raw') : raw'[n] = discarded' + n
    <3> SUFFICES ASSUME NEW n \in 1..Len(raw')
                 PROVE  raw'[n] = discarded' + n
      OBVIOUS
    <3>1. CASE n \in 1..Len(raw)
      BY <1>1, <1>2, <3>1 DEF CallInv, StreamInv, portVars
    <3>2. CASE n \in (Len(raw) + 1)..(Len(raw) + Len(got))
      <4>1. n - Len(raw) \in 1..Len(got)
        BY <1>2, <3>2
      <4>2. got[n - Len(raw)] = discarded + Len(raw) + (n - Len(raw))
        BY <1>4, <4>1 DEF CallInv, StreamInv
      <4> QED
        BY <1>1, <1>2, <1>4, <3>2, <4>2 DEF portVars
    <3> QED
      BY <1>2, <3>1, <3>2
  <2>3. \A n \in 1..Len(buffer') : buffer'[n] = discarded' + Len(raw') + Len(Pending') + n
    <3>1. buffer' = buffer /\ discarded' = discarded /\ Len(Pending') = 0
      BY <1>1, <1>4 DEF portVars
    <3>2. \A n \in 1..Len(buffer) : buffer[n] = discarded + Len(raw) + Len(got) + n
      BY <1>4 DEF CallInv, StreamInv
    <3> QED
      BY <1>2, <1>4, <3>1, <3>2
  <2>4. \A n \in 1..Len(Pending') : Pending'[n] = discarded' + Len(raw') + n
    BY <1>4
  <2> HIDE DEF Pending
  <2> QED
    BY <2>1, <2>2, <2>3, <2>4 DEF StreamInv
<1>6. CASE Len(raw') > MaxResponseSize
  <2>1. /\ pc' = "done" /\ open' = FALSE /\ outcome' = "too-large"
        /\ UNCHANGED <<chunks, lastReceived>>
    BY <1>6 DEF Receive, Exit
  <2>2. TypeOK'
    BY <1>1, <1>2, <1>3, <2>1 DEF CallInv, TypeOK, portVars
  <2>3. PhaseInv' /\ LimitInv' /\ ChunkInv'
    BY <1>2, <1>3, <1>6, <2>1, Constants DEF PhaseInv, LimitInv, ChunkInv
  <2>4. TimeInv'
    BY <1>1, <2>1 DEF CallInv, TimeInv, ChunksAreNotEarly, portVars
  <2>5. PromptInv'
    BY <1>1, <2>1 DEF CallInv, PromptInv
  <2> QED
    BY <1>5, <2>2, <2>3, <2>4, <2>5 DEF CallInv
<1>7. CASE Len(raw') <= MaxResponseSize
  <2> DEFINE chunk == [at |-> now, data |-> got]
             n == Len(chunks) + 1
  <2>1. /\ pc' = "looping" /\ open' = open /\ outcome' = "none"
        /\ chunks' = Append(chunks, chunk) /\ lastReceived' = now
    BY <1>1, <1>2, <1>7, Constants DEF Receive
  <2>2. chunk \in Chunks
    BY <1>1 DEF Chunks
  <2>3. /\ chunks' \in Seq(Chunks) /\ Len(chunks') = n /\ n \in Nat \ {0}
        /\ \A i \in 1..Len(chunks) : chunks'[i] = chunks[i]
        /\ chunks'[n] = chunk
    BY <1>1, <2>1, <2>2, Appended
  <2>4. TypeOK'
    BY <1>1, <1>2, <1>3, <2>1, <2>3 DEF CallInv, TypeOK, portVars, Collecting
  <2>5. PhaseInv' /\ LimitInv'
    BY <1>1, <1>7, <2>1 DEF CallInv, PhaseInv, LimitInv
  <2>6. TimeInv'
    <3>1. UNCHANGED <<arrivals, now>>
      BY <1>1 DEF portVars
    <3>2. \A k \in 1..Len(got) : got[k] \in 1..Len(arrivals) /\ arrivals[got[k]] <= now
      BY <1>4, BufferIsNumbered DEF CallInv, TimeInv
    <3>3. ASSUME NEW i \in 1..n
          PROVE  /\ chunks'[i].at <= now
                 /\ \A k \in DOMAIN chunks'[i].data :
                        /\ chunks'[i].data[k] \in 1..Len(arrivals)
                        /\ arrivals[chunks'[i].data[k]] <= chunks'[i].at
                 /\ i > 1 => chunks'[i - 1].at <= chunks'[i].at
      <4>1. CASE i \in 1..Len(chunks)
        <5>1. DOMAIN chunks[i].data = 1..Len(chunks[i].data) /\ i \in DOMAIN chunks
          BY <1>1, <4>1, ChunkFacts DEF CallInv
        <5>2. chunks'[i] = chunks[i] /\ (i > 1 => chunks'[i - 1] = chunks[i - 1])
          BY <2>3, <4>1
        <5> QED
          BY <4>1, <5>1, <5>2 DEF CallInv, TimeInv, ChunksAreNotEarly
      <4>2. CASE i = n
        <5>1. chunks'[i].at = now /\ chunks'[i].data = got /\ DOMAIN got = 1..Len(got)
          BY <1>1, <2>3, <4>2
        <5>2. i > 1 => chunks'[i - 1].at <= now
          BY <2>3, <4>2 DEF CallInv, TimeInv
        <5> QED
          BY <1>1, <3>2, <5>1, <5>2
      <4> QED
        BY <2>3, <4>1, <4>2
    <3>4. \A i \in 1..n : DOMAIN chunks'[i].data = 1..Len(chunks'[i].data)
      <4> SUFFICES ASSUME NEW i \in 1..n
                   PROVE  DOMAIN chunks'[i].data = 1..Len(chunks'[i].data)
        OBVIOUS
      <4>1. chunks'[i] \in Chunks
        BY <2>3
      <4>2. chunks'[i].data \in Seq(Bytes)
        BY <4>1 DEF Chunks
      <4> QED
        BY <4>2
    <3>5. DOMAIN chunks' = 1..n
      BY <2>3
    <3>6. ChunksAreNotEarly'
      BY <3>1, <3>3, <3>5 DEF ChunksAreNotEarly
    <3> QED
      BY <2>3, <3>1, <3>3, <3>4, <3>6 DEF CallInv, TimeInv
  <2>7. PromptInv'
    BY <1>1, <2>1 DEF CallInv, PromptInv
  <2>8. ChunkInv'
    <3>1. Data \in Seq(Seq(Bytes))
      <4> DEFINE Q == Seq(Bytes)
      <4>1. \A i \in 1..Len(chunks) : chunks[i].data \in Q
        BY ChunkFacts DEF CallInv
      <4> HIDE DEF Q
      <4>2. Len(chunks) \in Nat /\ Data = [i \in 1..Len(chunks) |-> chunks[i].data]
        BY <1>1 DEF Data
      <4>3. Data \in Seq(Q)
        BY <4>1, <4>2
      <4> QED
        BY <4>3 DEF Q
    <3>2. Data' = Append(Data, got)
      <4> DEFINE m == Len(chunks)
      <4>1. m \in Nat /\ Data = [i \in 1..m |-> chunks[i].data] /\ Len(Data) = m
        BY <1>1 DEF Data
      <4>2. Data' = [i \in 1..(m + 1) |-> chunks'[i].data]
        BY <2>3 DEF Data
      <4>3. Append(Data, got) = [i \in 1..(m + 1) |-> IF i = m + 1 THEN got ELSE Data[i]]
        BY <4>1
      <4>4. \A i \in 1..(m + 1) : chunks'[i].data = IF i = m + 1 THEN got ELSE Data[i]
        BY <2>3, <4>1
      <4> QED
        BY <4>2, <4>3, <4>4
    <3>3. IsFlat(raw, Data)
      BY <1>1 DEF CallInv, ChunkInv
    <3>4. IsFlat(raw', Data')
      BY <1>1, <3>1, <3>2, <3>3, FlatExtends
    <3> QED
      BY <3>4 DEF ChunkInv
  <2> QED
    BY <1>5, <2>4, <2>5, <2>6, <2>7, <2>8 DEF CallInv
<1> QED
  BY <1>2, <1>3, <1>6, <1>7, Constants

LEMMA CallStep == ASSUME CallInv, [Next]_vars PROVE CallInv'
<1>1. CASE UNCHANGED vars
  <2>1. TypeOK' /\ StreamInv' /\ PhaseInv' /\ LimitInv'
    BY <1>1 DEF CallInv, TypeOK, StreamInv, Pending, PhaseInv, LimitInv,
                vars, portVars, loopVars
  <2>2. TimeInv' /\ PromptInv' /\ ChunkInv'
    BY <1>1 DEF CallInv, TimeInv, ChunksAreNotEarly, PromptInv, JustArrived, ChunkInv, Data,
                vars, portVars, loopVars
  <2> QED
    BY <2>1, <2>2 DEF CallInv
<1>2. CASE Step
  BY <1>2, MovesKeep, ResetKeeps, ReadReturnsKeeps, ReceiveKeeps DEF Step
<1> QED
  BY <1>1, <1>2, ArriveKeeps, TickKeeps DEF Next, Finished

-----------------------------------------------------------------------------
(* What a call promises.                                                   *)

\* The invariant behind the others: what is read, pending and waiting are the
\* numbers of the arrivals since the reset, the chunks make the response, and
\* the clock of a process that is not held up never leaves a read behind.
THEOREM CallInvariant == Spec => []CallInv
<1>1. Init => CallInv
  BY CallInit
<1>2. CallInv /\ [Next]_vars => CallInv'
  BY CallStep
<1> QED
  BY <1>1, <1>2, PTL DEF Spec

\* Every variable of a call keeps its type.
THEOREM CallTypeCorrect == Spec => []TypeOK
<1>1. CallInv => TypeOK
  BY DEF CallInv
<1> QED
  BY <1>1, CallInvariant, PTL

\* No byte since the reset is lost, repeated or moved, and the chunks of a
\* returned response cut it, whatever the sizes of the reads and the moments at
\* which bytes arrive.
THEOREM StreamIsWhole == Spec => []ResponseIsTheStream
<1>1. ASSUME CallInv PROVE ResponseIsTheStream
  <2>1. ASSUME pc \in Collecting \/ outcome \in {"returned", "read-error", "too-large"}
        PROVE  raw \o (IF pc = "received" THEN got ELSE << >>) \o buffer
                   = Numbered(discarded + 1, Len(arrivals))
    <3> DEFINE p == Pending
               rp == raw \o p
               all == rp \o buffer
               r == Len(raw)
               q == Len(p)
               b == Len(buffer)
               a == Len(arrivals)
    <3>1. /\ raw \in Seq(Bytes) /\ buffer \in Seq(Bytes)
          /\ got \in Seq(Bytes) /\ << >> \in Seq(Bytes)
          /\ a \in Nat /\ discarded \in Nat
      BY <1>1, Constants DEF CallInv, TypeOK
    <3>2. p \in Seq(Bytes)
      BY <3>1 DEF Pending
    <3>3. /\ discarded + r + q + b = a
          /\ \A n \in 1..r : raw[n] = discarded + n
          /\ \A n \in 1..q : p[n] = discarded + r + n
          /\ \A n \in 1..b : buffer[n] = discarded + r + q + n
      BY <1>1, BufferIsNumbered DEF CallInv, StreamInv
    <3> HIDE DEF p
    <3>4. /\ rp \in Seq(Bytes) /\ Len(rp) = r + q /\ r \in Nat /\ q \in Nat /\ b \in Nat
          /\ \A n \in 1..r : rp[n] = raw[n]
          /\ \A n \in (r + 1)..(r + q) : rp[n] = p[n - r]
      BY <3>1, <3>2, Concatenated
    <3> HIDE DEF rp
    <3>5. /\ all \in Seq(Bytes) /\ Len(all) = Len(rp) + b
          /\ \A n \in 1..Len(rp) : all[n] = rp[n]
          /\ \A n \in (Len(rp) + 1)..(Len(rp) + b) : all[n] = buffer[n - Len(rp)]
      <4>1. rp \in Seq(Bytes) /\ buffer \in Seq(Bytes)
        BY <3>1, <3>4
      <4> QED
        BY <4>1, Concatenated
    <3> HIDE DEF all, r, q, b, a
    <3>6. Len(all) = a - discarded
      BY <3>1, <3>3, <3>4, <3>5
    <3>7. \A n \in 1..(a - discarded) : all[n] = discarded + n
      <4> SUFFICES ASSUME NEW n \in 1..(a - discarded)
                   PROVE  all[n] = discarded + n
        OBVIOUS
      <4>1. CASE n \in 1..r
        BY <3>3, <3>4, <3>5, <4>1
      <4>2. CASE n \in (r + 1)..(r + q)
        <5>1. n - r \in 1..q /\ n \in 1..(r + q)
          BY <3>4, <4>2
        <5>2. p[n - r] = discarded + r + (n - r)
          BY <3>3, <5>1
        <5>3. all[n] = p[n - r]
          BY <3>4, <3>5, <4>2, <5>1
        <5> QED
          BY <3>1, <3>4, <4>2, <5>2, <5>3
      <4>3. CASE n \in (r + q + 1)..(r + q + b)
        <5>1. n - (r + q) \in 1..b
          BY <3>4, <4>3
        <5>2. buffer[n - (r + q)] = discarded + r + q + (n - (r + q))
          BY <3>3, <5>1
        <5>3. all[n] = buffer[n - (r + q)]
          BY <3>4, <3>5, <4>3
        <5> QED
          BY <3>1, <3>4, <4>3, <5>2, <5>3
      <4> QED
        BY <3>1, <3>3, <3>4, <4>1, <4>2, <4>3
    <3>8. Numbered(discarded + 1, a) = [n \in 1..(a - discarded) |-> discarded + n]
      BY <3>1 DEF Numbered
    <3>9. all = [n \in 1..(a - discarded) |-> discarded + n]
      BY <3>5, <3>6, <3>7
    <3> QED
      BY <3>8, <3>9 DEF all, rp, p, Pending, a
  <2>2. ASSUME outcome = "returned"
        PROVE  raw = FlattenSeq(Data)
    <3>1. chunks \in Seq(Chunks) /\ IsFlat(raw, Data)
      BY <1>1, <2>2 DEF CallInv, TypeOK, ChunkInv
    <3>2. Data \in Seq({chunks[i].data : i \in DOMAIN chunks})
      BY <3>1 DEF Data
    <3> QED
      BY <3>1, <3>2, FlatIsFlattened
  <2> QED
    BY <2>1, <2>2 DEF ResponseIsTheStream, Data
<1> QED
  BY <1>1, CallInvariant, PTL

\* A response is refused for its size exactly when a byte beyond the limit came.
THEOREM LimitIsExact == Spec => []SizeLimitIsExact
<1>1. CallInv => SizeLimitIsExact
  BY DEF CallInv, LimitInv, SizeLimitIsExact
<1> QED
  BY <1>1, CallInvariant, PTL

\* No chunk is stamped before the last of its bytes came, and stamps never go back.
THEOREM StampsAreNotEarly == Spec => []ChunksAreNotEarly
<1>1. CallInv => ChunksAreNotEarly
  BY DEF CallInv, TimeInv
<1> QED
  BY <1>1, CallInvariant, PTL

\* A process that is not held up overruns its total timeout by less than a read,
\* and leaves nothing unread behind when it stops for silence.
THEOREM StopsInTime == Spec => []StopsOnTime
<1>1. ASSUME CallInv PROVE StopsOnTime
  <2>1. buffer \in Seq(Bytes) /\ now \in Nat
    BY <1>1, Constants DEF CallInv, TypeOK
  <2>2. DOMAIN buffer = 1..Len(buffer)
    BY <2>1
  <2> QED
    BY <1>1, <2>1, <2>2, Constants DEF CallInv, PromptInv, JustArrived, StopsOnTime
<1> QED
  BY <1>1, CallInvariant, PTL
=============================================================================
