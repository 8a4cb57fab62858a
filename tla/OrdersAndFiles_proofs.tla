------------------------ MODULE OrdersAndFiles_proofs ------------------------
(***************************************************************************)
(* Proofs about the numbers and names that must not meet: order numbers in *)
(* SingleNoGenerator (for any threads, any maxInteger and any number of    *)
(* calls) and the addresses of files in OssFileOperator (for any uploads,  *)
(* requests, random names, number of retries and days).                    *)
(***************************************************************************)
EXTENDS SingleNoGenerator, OssFileOperator, SequenceTheorems, TLAPS

\* The counter that was kept stays for good, so what ReGet reads after it is the
\* one every other thread reads.
Kept ==
    \A t \in Threads :
        /\ pc[t] \in {"reget", "draw", "over", "redraw", "format"} => type \in Threads
        /\ pc[t] \in {"draw", "over", "redraw", "format"} => local[t] = type

Sound == TypeOK /\ Kept

-----------------------------------------------------------------------------

LEMMA InitSound == Init => Sound
  <1> SUFFICES ASSUME Init PROVE Sound
    OBVIOUS
  <1>1. drawn \in Seq(Nat)
    BY EmptySeq DEF Init
  <1>2. calls \in 0 .. MaxCalls
    BY MaxAssumption DEF Init
  <1> QED  BY <1>1, <1>2 DEF Init, Sound, TypeOK, Kept, PCs

\* What a number drawn does to the counter and to the history.
LEMMA DrawnTypes ==
  ASSUME TypeOK, NEW t \in Threads, local[t] \in Threads, GetAndIncrement(t)
  PROVE  /\ count' \in [Threads -> Nat]
         /\ increment' \in [Threads -> Nat]
         /\ drawn' \in Seq(Nat)
  <1>1. count[local[t]] \in Nat /\ count[local[t]] + 1 \in Nat
    BY DEF TypeOK
  <1>2. drawn' \in Seq(Nat)
    BY <1>1, AppendProperties DEF TypeOK, GetAndIncrement
  <1> QED  BY <1>1, <1>2 DEF TypeOK, GetAndIncrement

\* Everything that only moves a thread on, or installs the counter.
LEMMA EntrySteps ==
  ASSUME Sound, NEW t \in Threads, Call(t) \/ Get(t) \/ Install(t) \/ ReGet(t)
  PROVE  Sound'
  <1>1. CASE Call(t)
    BY <1>1, MaxAssumption DEF Sound, TypeOK, Kept, PCs, Call, GoTo
  <1>2. CASE Get(t)
    BY <1>2, NoneAssumption DEF Sound, TypeOK, Kept, PCs, Get, GoTo
  <1>3. CASE Install(t)
    <2>1. type' \in Threads /\ (type \in Threads => type' = type)
      BY <1>3, NoneAssumption DEF Sound, TypeOK, Install
    <2> QED  BY <1>3, <2>1 DEF Sound, TypeOK, Kept, PCs, Install, GoTo
  <1>4. CASE ReGet(t)
    BY <1>4 DEF Sound, TypeOK, Kept, PCs, ReGet, GoTo
  <1> QED  BY <1>1, <1>2, <1>3, <1>4

LEMMA CountingSteps ==
  ASSUME Sound, NEW t \in Threads, Draw(t) \/ Reset(t) \/ Redraw(t) \/ Format(t)
  PROVE  Sound'
  <1>1. CASE Draw(t)
    <2>1. local[t] \in Threads
      BY <1>1 DEF Sound, Kept, Draw
    <2>2. GetAndIncrement(t)
      BY <1>1 DEF Draw
    <2> QED  BY <1>1, <2>1, <2>2, DrawnTypes DEF Sound, TypeOK, Kept, PCs, Draw, GoTo
  <1>2. CASE Reset(t)
    <2>1. resetAt' \in [Threads -> Nat] /\ count' \in [Threads -> Nat]
      <3>1. Len(drawn) \in Nat
        BY LenProperties DEF Sound, TypeOK
      <3> QED  BY <1>2, <3>1 DEF Sound, TypeOK, Reset
    <2> QED  BY <1>2, <2>1 DEF Sound, TypeOK, Kept, PCs, Reset, GoTo
  <1>3. CASE Redraw(t)
    <2>1. local[t] \in Threads
      BY <1>3 DEF Sound, Kept, Redraw
    <2>2. GetAndIncrement(t)
      BY <1>3 DEF Redraw
    <2> QED  BY <1>3, <2>1, <2>2, DrawnTypes DEF Sound, TypeOK, Kept, PCs, Redraw, GoTo
  <1>4. CASE Format(t)
    BY <1>4 DEF Sound, TypeOK, Kept, PCs, Format, GoTo
  <1> QED  BY <1>1, <1>2, <1>3, <1>4

LEMMA SoundInvariant == Spec => []Sound
  <1>1. Sound /\ UNCHANGED vars => Sound'
    BY DEF vars, Sound, TypeOK, Kept
  <1>2. Sound /\ [Next]_vars => Sound'
    BY <1>1, EntrySteps, CountingSteps DEF Next, Step
  <1> QED  BY InitSound, <1>2, PTL DEF Spec

\* All variables keep their types; in particular no number drawn is negative.
THEOREM TypeCorrect == Spec => []TypeOK
  <1>1. Sound => TypeOK
    BY DEF Sound
  <1> QED  BY <1>1, SoundInvariant, PTL

\* However many threads find no counter and make one, all draw from the same.
THEOREM OneCounterHolds == Spec => []OneCounter
  <1>1. Sound => OneCounter
    BY NoneAssumption DEF Sound, Kept, OneCounter
  <1> QED  BY <1>1, SoundInvariant, PTL

-----------------------------------------------------------------------------

\* The value the next getAndIncrement returns.
Value == count[type]

\* Nothing is drawn before the counter is there, and no other is ever counted up.
OthersUnused ==
    /\ type = None => drawn = << >>
    /\ \A t \in Threads : t # type => count[t] = 0

\* The thread between set(0) and its getAndIncrement has the monitor, so whatever
\* the counter shows was drawn since.
ResetAlone ==
    \A t \in Threads : pc[t] = "redraw" =>
        monitor = t /\ Value = Len(drawn) - resetAt[t]

\* A number drawn at i that the counter has passed lies that many draws back; one
\* it has yet to reach will, when reached, lie more than maxInteger draws back.
Laps ==
    \A i \in 1 .. Len(drawn) :
        /\ drawn[i] < Value  => Len(drawn) + 1 - i >= Value - drawn[i]
        /\ drawn[i] >= Value => Len(drawn) + 1 - i + (drawn[i] - Value) > maxInteger

Spaced ==
    \A i, j \in 1 .. Len(drawn) : i < j /\ drawn[i] = drawn[j] => j - i > maxInteger

Orderly ==
    /\ Sound
    /\ OthersUnused
    /\ ResetAlone
    /\ redundant \/ type = None \/ (Laps /\ Spaced)

LEMMA InitOrderly == Init => Orderly
  BY InitSound, NoneAssumption DEF Init, Orderly, OthersUnused, ResetAlone

\* One number drawn.
LEMMA DrawOrderly ==
  ASSUME Orderly, NEW t \in Threads, Draw(t) \/ Redraw(t)
  PROVE  Orderly'
  <1>1. type \in Threads /\ local[t] = type /\ type' = type /\ redundant' = redundant
    BY DEF Orderly, Sound, Kept, Draw, Redraw
  <1>2. drawn \in Seq(Nat) /\ Len(drawn) \in Nat /\ Value \in Nat
    BY <1>1, LenProperties DEF Orderly, Sound, TypeOK, Value
  <1>3. /\ drawn' = Append(drawn, Value)
        /\ count' = [count EXCEPT ![type] = @ + 1]
    BY <1>1 DEF Draw, Redraw, GetAndIncrement, Value
  <1>4. /\ drawn' \in Seq(Nat)
        /\ Len(drawn') = Len(drawn) + 1
        /\ \A i \in 1 .. Len(drawn) : drawn'[i] = drawn[i]
        /\ drawn'[Len(drawn) + 1] = Value
    BY <1>2, <1>3, AppendProperties
  <1>5. Value' = Value + 1
    BY <1>1, <1>3 DEF Orderly, Sound, TypeOK, Value
  <1>6. Sound'
    BY CountingSteps DEF Orderly
  <1>7. OthersUnused'
    BY <1>1, <1>3, NoneAssumption DEF Orderly, Sound, TypeOK, OthersUnused
  <1>8. ResetAlone'
    <2> SUFFICES ASSUME NEW u \in Threads, pc'[u] = "redraw"
                 PROVE  monitor' = u /\ Value' = Len(drawn') - resetAt'[u]
      BY DEF ResetAlone
    <2>1. u # t /\ pc[u] = "redraw" /\ resetAt' = resetAt
      BY DEF Orderly, Sound, TypeOK, Draw, Redraw, GoTo
    <2>2. monitor = u /\ Value = Len(drawn) - resetAt[u] /\ resetAt[u] \in Nat
      BY <2>1 DEF Orderly, Sound, TypeOK, ResetAlone
    <2>3. Draw(t) /\ monitor' = monitor
      BY <2>1, <2>2 DEF Orderly, ResetAlone, Draw, Redraw
    <2> QED  BY <1>2, <1>4, <1>5, <2>1, <2>2, <2>3
  <1>9. redundant' \/ (Laps' /\ Spaced')
    <2> SUFFICES ASSUME Laps, Spaced  PROVE Laps' /\ Spaced'
      BY <1>1, NoneAssumption DEF Orderly
    <2>1. \A i \in 1 .. Len(drawn) : drawn[i] \in Nat
      BY <1>2, ElementOfSeq
    <2>2. Laps'
      <3> SUFFICES ASSUME NEW i \in 1 .. Len(drawn')
                   PROVE  /\ drawn'[i] < Value' =>
                               Len(drawn') + 1 - i >= Value' - drawn'[i]
                          /\ drawn'[i] >= Value' =>
                               Len(drawn') + 1 - i + (drawn'[i] - Value') > maxInteger
        BY DEF Laps
      <3>1. CASE i = Len(drawn) + 1
        BY <1>2, <1>4, <1>5, <3>1
      <3>2. CASE i \in 1 .. Len(drawn)
        <4>1. drawn'[i] = drawn[i] /\ drawn[i] \in Nat /\ i \in Nat
          BY <1>2, <1>4, <2>1, <3>2
        <4>2. /\ drawn[i] < Value  => Len(drawn) + 1 - i >= Value - drawn[i]
              /\ drawn[i] >= Value => Len(drawn) + 1 - i + (drawn[i] - Value) > maxInteger
          BY <3>2 DEF Laps
        <4>3. Len(drawn') = Len(drawn) + 1 /\ i <= Len(drawn)
          BY <1>2, <1>4, <3>2
        <4> QED  BY <1>2, <1>5, <4>1, <4>2, <4>3, MaxAssumption
      <3> QED  BY <1>2, <1>4, <3>1, <3>2
    <2>3. Spaced'
      <3> SUFFICES ASSUME NEW i \in 1 .. Len(drawn'), NEW j \in 1 .. Len(drawn'),
                          i < j, drawn'[i] = drawn'[j]
                   PROVE  j - i > maxInteger
        BY DEF Spaced
      <3>1. i \in 1 .. Len(drawn) /\ (j = Len(drawn) + 1 \/ j \in 1 .. Len(drawn))
        <4>1. Len(drawn') = Len(drawn) + 1
          BY <1>4
        <4> QED  BY <1>2, <4>1
      <3>2. drawn'[i] = drawn[i]
        BY <1>4, <3>1
      <3>3. CASE j = Len(drawn) + 1
        <4>1. drawn[i] = Value
          BY <1>4, <3>2, <3>3
        <4>2. Len(drawn) + 1 - i + (drawn[i] - Value) > maxInteger
          BY <1>2, <3>1, <4>1 DEF Laps
        <4> QED  BY <1>2, <3>1, <3>3, <4>1, <4>2
      <3>4. CASE j \in 1 .. Len(drawn)
        <4>1. drawn[i] = drawn[j]
          BY <1>4, <3>2, <3>4
        <4> QED  BY <3>1, <3>4, <4>1 DEF Spaced
      <3> QED  BY <3>1, <3>3, <3>4
    <2> QED  BY <2>2, <2>3
  <1> QED  BY <1>6, <1>7, <1>8, <1>9 DEF Orderly

\* set(0): unless it is redundant, the lap it ends is longer than maxInteger.
LEMMA ResetOrderly ==
  ASSUME Orderly, NEW t \in Threads, Reset(t)
  PROVE  Orderly'
  <1>1. type \in Threads /\ local[t] = type /\ type' = type /\ drawn' = drawn
    BY DEF Orderly, Sound, Kept, Reset
  <1>2. drawn \in Seq(Nat) /\ Len(drawn) \in Nat /\ Value \in Nat
    BY <1>1, LenProperties DEF Orderly, Sound, TypeOK, Value
  <1>3. Value' = 0 /\ count' = [count EXCEPT ![type] = 0]
    BY <1>1 DEF Orderly, Sound, TypeOK, Value, Reset
  <1>4. Sound'
    BY CountingSteps DEF Orderly
  <1>5. OthersUnused'
    BY <1>1, <1>3, NoneAssumption DEF Orderly, Sound, TypeOK, OthersUnused
  <1>6. ResetAlone'
    <2> SUFFICES ASSUME NEW u \in Threads, pc'[u] = "redraw"
                 PROVE  monitor' = u /\ Value' = Len(drawn') - resetAt'[u]
      BY DEF ResetAlone
    <2>1. monitor = None /\ monitor' = t /\ resetAt'[t] = Len(drawn)
      BY DEF Orderly, Sound, TypeOK, Reset
    <2>2. u = t
      BY <2>1, NoneAssumption DEF Orderly, Sound, TypeOK, ResetAlone, Reset, GoTo
    <2> QED  BY <1>1, <1>2, <1>3, <2>1, <2>2
  <1>7. redundant' \/ (Laps' /\ Spaced')
    <2> SUFFICES ASSUME ~redundant'  PROVE Laps' /\ Spaced'
      OBVIOUS
    <2>1. ~redundant /\ Value > maxInteger
      <3>1. ~redundant /\ ~(Value <= maxInteger)
        BY <1>1 DEF Reset, Value, Orderly, Sound, TypeOK
      <3> QED  BY <1>2, <3>1, MaxAssumption
    <2>2. Laps /\ Spaced
      BY <1>1, <2>1, NoneAssumption DEF Orderly
    <2>3. \A i \in 1 .. Len(drawn) : drawn[i] \in Nat
      BY <1>2, ElementOfSeq
    <2>4. Laps'
      <3> SUFFICES ASSUME NEW i \in 1 .. Len(drawn)
                   PROVE  drawn[i] >= 0 /\ Len(drawn) + 1 - i + drawn[i] > maxInteger
        BY <1>1, <1>3, <2>3, <1>2, MaxAssumption DEF Laps
      <3>1. drawn[i] \in Nat
        BY <2>3
      <3>2. /\ drawn[i] < Value  => Len(drawn) + 1 - i >= Value - drawn[i]
            /\ drawn[i] >= Value => Len(drawn) + 1 - i + (drawn[i] - Value) > maxInteger
        BY <2>2 DEF Laps
      <3> QED  BY <1>2, <2>1, <3>1, <3>2, MaxAssumption
    <2> QED  BY <1>1, <2>2, <2>4 DEF Spaced
  <1> QED  BY <1>4, <1>5, <1>6, <1>7 DEF Orderly

\* The other steps draw nothing; Install may bring the counter, still at 0.
LEMMA OtherOrderly ==
  ASSUME Orderly, NEW t \in Threads,
         Call(t) \/ Get(t) \/ Install(t) \/ ReGet(t) \/ Format(t)
  PROVE  Orderly'
  <1>1. Sound'
    BY EntrySteps, CountingSteps DEF Orderly
  <1>2. UNCHANGED <<count, monitor, drawn, resetAt, redundant>>
    BY DEF Call, Get, Install, ReGet, Format
  <1>3. \/ type' = type
        \/ type = None /\ type' \in Threads
    BY DEF Call, Get, Install, ReGet, Format
  <1>4. \A u \in Threads : pc'[u] = "redraw" => pc[u] = "redraw"
    BY DEF Orderly, Sound, TypeOK, Call, Get, Install, ReGet, Format, GoTo
  <1>5. CASE type' = type
    BY <1>1, <1>2, <1>4, <1>5
    DEF Orderly, OthersUnused, ResetAlone, Value, Laps, Spaced
  <1>6. CASE type = None /\ type' \in Threads
    <2>1. drawn = << >> /\ \A u \in Threads : count[u] = 0
      BY <1>6, NoneAssumption DEF Orderly, OthersUnused
    <2>2. \A u \in Threads : pc[u] # "redraw"
      BY <1>6, NoneAssumption DEF Orderly, Sound, Kept
    <2>3. Len(drawn') = 0
      BY <1>2, <2>1
    <2>4. Laps' /\ Spaced'
      BY <2>3 DEF Laps, Spaced
    <2>5. OthersUnused' /\ ResetAlone'
      BY <1>2, <1>4, <1>6, <2>1, <2>2, NoneAssumption DEF OthersUnused, ResetAlone
    <2> QED  BY <1>1, <2>4, <2>5 DEF Orderly
  <1> QED  BY <1>3, <1>5, <1>6

LEMMA OrderlyInvariant == Spec => []Orderly
  <1>1. Orderly /\ UNCHANGED vars => Orderly'
    BY DEF vars, Orderly, Sound, TypeOK, Kept, OthersUnused, ResetAlone, Value, Laps,
           Spaced
  <1>2. Orderly /\ [Next]_vars => Orderly'
    BY <1>1, DrawOrderly, ResetOrderly, OtherOrderly DEF Next, Step
  <1> QED  BY InitOrderly, <1>2, PTL DEF Spec

\* Equal numbers are more than maxInteger draws apart, unless a reset hit a counter
\* that another had already set back.
THEOREM EqualOnlyALapApartHolds == Spec => []EqualOnlyALapApart
  <1>1. Orderly => EqualOnlyALapApart
    <2>1. ASSUME Orderly, type = None  PROVE EqualOnlyALapApart
      <3>1. Len(drawn) = 0
        BY <2>1 DEF Orderly, OthersUnused
      <3> QED  BY <3>1 DEF EqualOnlyALapApart
    <2> QED  BY <2>1 DEF Orderly, Spaced, EqualOnlyALapApart
  <1> QED  BY <1>1, OrderlyInvariant, PTL

\* A seventh digit needs more than maxInteger draws within one reset.
THEOREM SixDigitsHolds == Spec => SixDigits
  <1>1. Orderly /\ [Next]_vars =>
          [\A t \in Threads :
              pc[t] # "format" /\ pc'[t] = "format" /\ increment'[t] > maxInteger
                => Len(drawn) - resetAt[t] > maxInteger]_vars
    <2> SUFFICES ASSUME Orderly, Next, NEW t \in Threads,
                        pc[t] # "format", pc'[t] = "format",
                        increment'[t] > maxInteger
                 PROVE  Len(drawn) - resetAt[t] > maxInteger
      OBVIOUS
    <2>1. Draw(t) \/ Redraw(t)
      BY DEF Next, Step, Call, Get, Install, ReGet, Draw, Reset, Redraw, Format, GoTo,
             Orderly, Sound, TypeOK
    <2>2. local[t] = type /\ type \in Threads /\ Value \in Nat
      BY <2>1 DEF Orderly, Sound, TypeOK, Kept, Draw, Redraw, Value
    <2>3. increment'[t] = Value
      BY <2>1, <2>2
      DEF Draw, Redraw, GetAndIncrement, Value, Orderly, Sound, TypeOK
    <2>4. Redraw(t)
      BY <2>1, <2>2, <2>3, MaxAssumption DEF Draw, Value, GoTo, Orderly, Sound, TypeOK
    <2>5. Value = Len(drawn) - resetAt[t]
      BY <2>4 DEF Redraw, Orderly, ResetAlone
    <2> QED  BY <2>3, <2>5
  <1> QED  BY <1>1, OrderlyInvariant, PTL DEF Spec, SixDigits

-----------------------------------------------------------------------------
(* OssFileOperator. *)

\* What an upload holds at its places: a key from the first draw on, and room for
\* one more retry before each retest.
Placed ==
    \A u \in Uploads :
        /\ stage[u] \in {"test", "while", "retest", "put"} => key[u] \in Keys
        /\ stage[u] = "retest" => retryTime[u] < MaxRetry
        /\ stage[u] = "put" => ~exist[u]
        /\ result[u] # Null => stage[u] = "done"

\* A key taken for free is free, unless the test failed or somebody was quicker.
Tested ==
    \A u \in Uploads :
        stage[u] \in {"while", "put"} /\ ~exist[u] =>
            bucket[key[u]] = Null \/ blind[u] \/ raced[u]

\* The address returned is that of the key, under which the file or one that
\* overtook it lies.
Returned ==
    \A u \in Uploads : result[u] # Null =>
        /\ result[u].key = key[u] /\ result[u].slashes = 1 /\ key[u] \in Keys
        /\ bucket[key[u]] # Null
        /\ \/ bucket[key[u]].by = u
           \/ blind[bucket[key[u]].by]
           \/ raced[bucket[key[u]].by]

\* Whoever has an object in the bucket is done.
Ended == \A k \in Keys : bucket[k] # Null => stage[bucket[k].by] = "done"

Filed == OssTypeOK /\ Placed /\ Tested /\ Returned /\ Ended

-----------------------------------------------------------------------------

LEMMA OssInitFiled == OssInit => Filed
  BY NumbersAssumption DEF OssInit, Filed, OssTypeOK, Placed, Tested, Returned, Ended, Stages,
     FileOperateResults

LEMMA KeyDrawn ==
  ASSUME OssTypeOK, NEW u \in Uploads, NEW r \in Randoms
  PROVE  buildFileOssKey(request[u], r) \in Keys
  BY DEF OssTypeOK, buildFileOssKey, Keys

\* A key drawn: Begin and Again.
LEMMA DrawStep ==
  ASSUME Filed, NEW u \in Uploads, Begin(u) \/ Again(u)
  PROVE  Filed'
  <1>1. /\ stage[u] \in {"idle", "while"}
        /\ stage' \in [Uploads -> Stages]
        /\ stage'[u] = "test" \/ (stage'[u] = "retest" /\ retryTime[u] < MaxRetry)
        /\ \A v \in Uploads \ {u} : stage'[v] = stage[v]
    BY DEF Filed, OssTypeOK, Stages, Begin, Again, DrawKey
  <1>2. /\ key' \in [Uploads -> Keys \cup {Null}] /\ key'[u] \in Keys
        /\ \A v \in Uploads \ {u} : key'[v] = key[v]
    BY KeyDrawn DEF Filed, OssTypeOK, Begin, Again, DrawKey
  <1>3. UNCHANGED <<environment, exist, retryTime, result, history>>
    BY DEF Begin, Again, DrawKey
  <1>4. OssTypeOK'
    BY <1>1, <1>2, <1>3 DEF Filed, OssTypeOK, environment, history
  <1>5. Placed' /\ Tested' /\ Returned'
    BY <1>1, <1>2, <1>3
    DEF Filed, Placed, Tested, Returned, environment, history
  <1>6. Ended'
    BY <1>1, <1>3 DEF Filed, OssTypeOK, Ended, Objects, environment
  <1> QED  BY <1>4, <1>5, <1>6 DEF Filed

LEMMA TestStep ==
  ASSUME Filed, NEW u \in Uploads, Test(u) \/ Retest(u)
  PROVE  Filed'
  <1>1. /\ stage[u] \in {"test", "retest"} /\ stage'[u] = "while" /\ stage' \in [Uploads -> Stages]
        /\ \A v \in Uploads \ {u} : stage'[v] = stage[v]
    BY DEF Filed, OssTypeOK, Stages, Test, Retest
  <1>2. UNCHANGED <<environment, key, result>>
    BY DEF Test, Retest
  <1>3. /\ exist' \in [Uploads -> BOOLEAN] /\ blind' \in [Uploads -> BOOLEAN]
        /\ raced' \in [Uploads -> BOOLEAN]
        /\ \A v \in Uploads \ {u} :
              exist'[v] = exist[v] /\ blind'[v] = blind[v] /\ raced'[v] = raced[v]
        /\ exist'[u] = (bucket[key[u]] # Null) \/ blind'[u]
    BY DEF Filed, OssTypeOK, Test, Retest, Answered, history
  <1>4. retryTime' \in [Uploads -> 0 .. MaxRetry]
    <2>1. CASE Test(u)
      BY <2>1 DEF Test, Filed, OssTypeOK
    <2>2. CASE Retest(u)
      <3>1. retryTime[u] \in 0 .. MaxRetry /\ retryTime[u] < MaxRetry
        BY <2>2 DEF Retest, Filed, OssTypeOK, Placed
      <3>2. retryTime[u] + 1 \in 0 .. MaxRetry
        BY <3>1, NumbersAssumption
      <3> QED  BY <2>2, <3>2 DEF Retest, Filed, OssTypeOK
    <2> QED  BY <2>1, <2>2
  <1>5. OssTypeOK'
    BY <1>1, <1>2, <1>3, <1>4 DEF Filed, OssTypeOK, environment
  <1>6. Placed'
    <2>1. \A v \in Uploads \ {u} : retryTime'[v] = retryTime[v]
      BY DEF Filed, OssTypeOK, Test, Retest
    <2> QED  BY <1>1, <1>2, <1>3, <2>1 DEF Filed, Placed
  <1>7. Tested'
    BY <1>1, <1>2, <1>3 DEF Filed, Tested, environment
  <1>8. Returned' /\ Ended'
    <2>1. \A k \in Keys : bucket[k] # Null => bucket[k].by \in Uploads \ {u}
      BY <1>1 DEF Filed, OssTypeOK, Ended, Objects
    <2> QED  BY <1>1, <1>2, <1>3, <2>1 DEF Filed, Returned, Ended, environment
  <1> QED  BY <1>5, <1>6, <1>7, <1>8 DEF Filed

LEMMA LeaveOrFailStep ==
  ASSUME Filed, NEW u \in Uploads, Leave(u) \/ Fail(u)
  PROVE  Filed'
  <1>1. /\ stage[u] # "done" /\ stage' \in [Uploads -> Stages]
        /\ stage'[u] = "done" \/ (stage'[u] = "put" /\ stage[u] = "while" /\ ~exist[u])
        /\ \A v \in Uploads \ {u} : stage'[v] = stage[v]
    BY DEF Filed, OssTypeOK, Stages, Leave, Fail
  <1>2. UNCHANGED <<environment, key, exist, retryTime, result, history>>
    BY DEF Leave, Fail
  <1>3. OssTypeOK'
    BY <1>1, <1>2 DEF Filed, OssTypeOK, environment, history
  <1>4. Placed' /\ Tested' /\ Returned'
    BY <1>1, <1>2 DEF Filed, Placed, Tested, Returned, environment, history
  <1>5. Ended'
    BY <1>1, <1>2 DEF Filed, OssTypeOK, Ended, Objects, environment
  <1> QED  BY <1>3, <1>4, <1>5 DEF Filed

\* The one step that changes the bucket.
LEMMA PutStep ==
  ASSUME Filed, NEW u \in Uploads, Put(u)
  PROVE  Filed'
  <1> DEFINE object == [by |-> u, acl |-> IF request[u].isPrivate THEN "Private"
                                                               ELSE "PublicRead"]
  <1>1. /\ key[u] \in Keys /\ stage[u] = "put" /\ ~exist[u] /\ result[u] = Null
        /\ bucket[key[u]] = Null \/ blind[u] \/ raced[u]
    BY DEF Filed, Placed, Tested, Put
  <1>2. object \in Objects /\ object # Null /\ object.by = u
    <2>1. object \in Objects /\ object.by = u
      BY DEF Objects
    <2> QED  BY <2>1, NullAssumption
  <1> HIDE DEF object
  <1>3. /\ bucket' = [bucket EXCEPT ![key[u]] = object]
        /\ bucket'[key[u]] = object
        /\ \A k \in Keys \ {key[u]} : bucket'[k] = bucket[k]
        /\ bucket' \in [Keys -> Objects \cup {Null}]
    BY <1>1, <1>2 DEF Filed, OssTypeOK, Put, object
  <1>4. /\ stage' \in [Uploads -> Stages] /\ stage'[u] = "done"
        /\ \A v \in Uploads \ {u} : stage'[v] = stage[v]
    BY DEF Filed, OssTypeOK, Stages, Put
  <1>5. UNCHANGED <<endpoint, day, request, key, exist, retryTime, blind>>
    BY DEF Put
  <1>6. /\ raced' \in [Uploads -> BOOLEAN]
        /\ \A v \in Uploads : raced[v] => raced'[v]
        /\ \A v \in Uploads \ {u} :
              stage[v] \in {"while", "put"} /\ key[v] = key[u] => raced'[v]
    <2>1. \A v \in Uploads : raced[v] \in BOOLEAN
      BY DEF Filed, OssTypeOK
    <2> QED  BY <2>1, Zenon DEF Put
  <1>7. /\ result' \in [Uploads -> FileOperateResults]
        /\ \A v \in Uploads \ {u} : result'[v] = result[v]
        /\ result'[u] # Null => result'[u].key = key[u] /\ result'[u].slashes = 1
    <2>1. buildOssFilePath(key[u]) \in Addresses
      BY <1>1 DEF Filed, OssTypeOK, buildOssFilePath, Addresses
    <2>2. \/ result' = result
          \/ result' = [result EXCEPT ![u] = buildOssFilePath(key[u])]
      BY DEF Put
    <2> QED  BY <1>1, <2>1, <2>2 DEF Filed, OssTypeOK, buildOssFilePath, FileOperateResults
  <1>8. OssTypeOK'
    BY <1>3, <1>4, <1>5, <1>6, <1>7 DEF Filed, OssTypeOK
  <1>9. Placed'
    BY <1>4, <1>5, <1>7 DEF Filed, Placed
  <1>10. Tested'
    <2> SUFFICES ASSUME NEW v \in Uploads, stage'[v] \in {"while", "put"}, ~exist'[v]
                 PROVE  bucket'[key'[v]] = Null \/ blind'[v] \/ raced'[v]
      BY DEF Tested
    <2>1. v # u /\ stage[v] \in {"while", "put"} /\ ~exist[v] /\ key'[v] = key[v]
      BY <1>4, <1>5
    <2>2. key[v] \in Keys /\ (bucket[key[v]] = Null \/ blind[v] \/ raced[v])
      BY <2>1 DEF Filed, Placed, Tested
    <2> QED  BY <1>3, <1>5, <1>6, <2>1, <2>2
  <1>11. Returned'
    <2> SUFFICES ASSUME NEW v \in Uploads, result'[v] # Null
                 PROVE  /\ result'[v].key = key'[v] /\ result'[v].slashes = 1
                        /\ key'[v] \in Keys /\ bucket'[key'[v]] # Null
                        /\ \/ bucket'[key'[v]].by = v
                           \/ blind'[bucket'[key'[v]].by]
                           \/ raced'[bucket'[key'[v]].by]
      BY DEF Returned
    <2>1. CASE v = u
      BY <1>1, <1>2, <1>3, <1>5, <1>7, <2>1
    <2>2. CASE v # u
      <3>1. /\ result'[v] = result[v] /\ key'[v] = key[v]
            /\ result[v].key = key[v] /\ result[v].slashes = 1 /\ key[v] \in Keys
            /\ bucket[key[v]] # Null
            /\ \/ bucket[key[v]].by = v
               \/ blind[bucket[key[v]].by]
               \/ raced[bucket[key[v]].by]
        BY <1>5, <1>7, <2>2 DEF Filed, Returned
      <3>2. bucket[key[v]].by \in Uploads
        BY <3>1 DEF Filed, OssTypeOK, Objects
      <3>3. CASE key[v] = key[u]
        BY <1>1, <1>2, <1>3, <1>5, <1>6, <3>1, <3>3
      <3>4. CASE key[v] # key[u]
        BY <1>3, <1>5, <1>6, <3>1, <3>2, <3>4
      <3> QED  BY <3>3, <3>4
    <2> QED  BY <2>1, <2>2
  <1>12. Ended'
    <2>1. \A k \in Keys : bucket[k] # Null => bucket[k].by \in Uploads
      BY DEF Filed, OssTypeOK, Objects
    <2> QED  BY <1>2, <1>3, <1>4, <2>1 DEF Filed, Ended
  <1> QED  BY <1>8, <1>9, <1>10, <1>11, <1>12 DEF Filed

LEMMA FiledInvariant == OssSpec => []Filed
  <1>1. Filed /\ UNCHANGED ossVars => Filed'
    BY DEF ossVars, Filed, OssTypeOK, Placed, Tested, Returned, Ended
  <1>2. Filed /\ NextDay => Filed'
    <2> SUFFICES ASSUME Filed, NextDay PROVE Filed'
      OBVIOUS
    <2>1. day' \in 0 .. MaxDay
      BY NumbersAssumption DEF Filed, OssTypeOK, NextDay
    <2>2. UNCHANGED <<endpoint, bucket, request, stage, key, exist, retryTime, result,
                      blind, raced>>
      BY DEF NextDay, locals, history
    <2> QED  BY <2>1, <2>2 DEF Filed, OssTypeOK, Placed, Tested, Returned, Ended
  <1>3. Filed /\ [OssNext]_ossVars => Filed'
    BY <1>1, <1>2, DrawStep, TestStep, LeaveOrFailStep, PutStep DEF OssNext, Upload
  <1> QED  BY OssInitFiled, <1>3, PTL DEF OssSpec

\* All variables keep their types.
THEOREM OssTypeCorrect == OssSpec => []OssTypeOK
  <1>1. Filed => OssTypeOK
    BY DEF Filed
  <1> QED  BY <1>1, FiledInvariant, PTL

\* A file stays under its address unless it is replaced by an upload whose test
\* failed or came too early.
THEOREM AddressKeptHolds == OssSpec => []AddressKept
  <1>1. Filed => AddressKept
    BY DEF Filed, Returned, AddressKept
  <1> QED  BY <1>1, FiledInvariant, PTL

\* With an endpoint that does not end in "/", the temporary URL for an address names
\* the file uploaded to it.
THEOREM StsUrlNamesTheFileHolds ==
  ASSUME "slash" \notin Endpoints
  PROVE  OssSpec => []StsUrlNamesTheFile
  <1>1. Filed => StsUrlNamesTheFile
    <2> SUFFICES ASSUME Filed, NEW u \in Uploads, NEW m \in ExpireTimes,
                        result[u] # Null
                 PROVE  LET url == generateStsUrl(result[u], m) IN
                        url.key = key[u] /\ bucket[url.key] # Null
      BY DEF StsUrlNamesTheFile
    <2>1. result[u].key = key[u] /\ result[u].slashes = 1 /\ bucket[key[u]] # Null
      BY DEF Filed, Returned
    <2>2. endpoint # "slash"
      BY DEF Filed, OssTypeOK
    <2> QED  BY <2>1, <2>2 DEF generateStsUrl, fileKey
  <1> QED  BY <1>1, FiledInvariant, PTL

LEMMA ModAtMost ==
  ASSUME NEW x \in Nat, NEW w \in Nat \ {0}
  PROVE  x % w <= x /\ x % w \in Nat
  OBVIOUS

\* Whatever the width of an int, the overflow only ever shortens a URL's life.
THEOREM NeverOutlivesHolds == OssSpec => []NeverOutlives
  <1>1. NeverOutlives
    <2> SUFFICES ASSUME NEW m \in ExpireTimes
                 PROVE  intMillis(m) <= m * Minute
      BY DEF NeverOutlives, generateStsUrl
    <2>1. m \in Nat /\ Minute \in Nat /\ Word \in Nat \ {0}
      BY NumbersAssumption
    <2>2. m * Minute \in Nat
      BY <2>1
    <2> DEFINE x == (m * Minute) % Word
    <2>3. x <= m * Minute /\ x \in Nat
      BY <2>1, <2>2, ModAtMost
    <2>4. intMillis(m) = IF 2 * x >= Word THEN x - Word ELSE x
      BY DEF intMillis
    <2> HIDE DEF x
    <2> QED  BY <2>1, <2>2, <2>3, <2>4
  <1> QED  BY <1>1, PTL
=============================================================================
