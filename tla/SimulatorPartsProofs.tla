----------------------- MODULE SimulatorPartsProofs -----------------------
(***************************************************************************)
(* Proofs about the parts of the simulator that are programs of their own: *)
(* each part has an inductive invariant; a step of another part leaves its *)
(* variables alone.                                                        *)
(***************************************************************************)
EXTENDS SimulatorParts, Lemmas, FiniteSetTheorems

-----------------------------------------------------------------------------
(* Calls of the Hawkes library                                               *)

Place == {"idle", "load", "search", "register", "native", "copy", "free times",
          "free marks", "fallback", "python"}

BridgeTypes ==
  /\ env \in {"unset", "missing", "present"}
  /\ built \in BOOLEAN /\ lib \in BOOLEAN /\ bridgeError \in BOOLEAN
  /\ registry \in Seq(Callers)
  /\ bridgeHeap \subseteq [owner : Callers, buffer : {"times", "marks"}]
  /\ lastError \in [Callers -> BOOLEAN]
  /\ bridgePc \in [Callers -> Place]
  /\ call \in [Callers -> [sampler : BOOLEAN, valid : BOOLEAN]]
  /\ marks \in [Callers -> Seq({0, 1})]
  /\ count \in [Callers -> Int]
  /\ outcome \in [Callers -> {"none", "returned", "raised"}]
  /\ paths \subseteq {"native", "python"}

\* What the search for the library found holds for good: a thread that is past
\* it knows the answer, and no later search gives another.
OneAnswer ==
  /\ lib => env = "present" \/ (env = "unset" /\ built)
  /\ bridgeError => env = "unset" /\ ~lib
  /\ "native" \in paths => lib
  /\ "python" \in paths => bridgeError
  /\ \A c \in Callers :
       /\ bridgePc[c] = "search" /\ bridgeError => ~built
       /\ bridgePc[c] \in {"register", "native", "copy", "free times", "free marks"} => lib
       /\ bridgePc[c] \in {"fallback", "python"} => bridgeError

\* A thread is registered at most once, and while native code may call its
\* sampler.
RegisteredOnce ==
  \A i, j \in 1..Len(registry) : registry[i] = registry[j] => i = j

CallbackKept ==
  \A c \in Callers :
    (bridgePc[c] = "native" /\ call[c].sampler)
      <=> \E i \in 1..Len(registry) : registry[i] = c

\* What a thread was told is what its parameters deserve.
JustifiedFor(c) ==
  /\ bridgePc[c] # "idle" => outcome[c] = "none"
  /\ bridgePc[c] = "copy" =>
       (count[c] < 0 <=> ~call[c].valid) /\ (count[c] < 0 <=> lastError[c])
  /\ bridgePc[c] \in {"free times", "free marks"} => call[c].valid
  /\ outcome[c] = "returned" => call[c].valid \/ bridgeError
Justified == \A c \in Callers : JustifiedFor(c)

BridgeInv ==
  /\ BridgeTypes /\ OneAnswer /\ RegisteredOnce /\ CallbackKept
  /\ Bridge!BuffersAreFreed /\ Justified

\* The library's operators are the same ones in the instance.
LEMMA InBridge ==
  /\ \A S : Bridge!Cardinality(S) = Cardinality(S)
  /\ \A q : Bridge!ToSet(q) = ToSet(q)
  /\ \A q, k : Bridge!RemoveAt(q, k) = RemoveAt(q, k)
<1>1. \A S : Bridge!Cardinality(S) = Cardinality(S)  BY DEF Bridge!Cardinality, Cardinality
<1>2. \A q : Bridge!ToSet(q) = ToSet(q)  BY DEF Bridge!ToSet, ToSet
<1>3. \A q, k : Bridge!RemoveAt(q, k) = RemoveAt(q, k)  BY DEF Bridge!RemoveAt, RemoveAt
<1>4. QED  BY <1>1, <1>2, <1>3

\* No call has begun.
LEMMA BridgeStarts ==
  ASSUME Bridge!Init
  PROVE  BridgeInv
<1>1. BridgeTypes
  <2>1. <<>> \in Seq(Callers) /\ <<>> \in Seq({0, 1})  OBVIOUS
  <2>2. marks \in [Callers -> Seq({0, 1})] /\ registry \in Seq(Callers)
    BY <2>1 DEF Bridge!Init
  <2>3. call \in [Callers -> [sampler : BOOLEAN, valid : BOOLEAN]]
    BY DEF Bridge!Init
  <2>4. /\ lastError \in [Callers -> BOOLEAN] /\ bridgePc \in [Callers -> Place]
        /\ count \in [Callers -> Int]
        /\ outcome \in [Callers -> {"none", "returned", "raised"}]
    BY DEF Bridge!Init, Place
  <2>5. /\ env \in {"unset", "missing", "present"}
        /\ built \in BOOLEAN /\ lib \in BOOLEAN /\ bridgeError \in BOOLEAN
        /\ bridgeHeap = {} /\ paths = {}
    BY DEF Bridge!Init
  <2>6. QED  BY <2>2, <2>3, <2>4, <2>5 DEF BridgeTypes
<1>2. Len(registry) = 0  BY DEF Bridge!Init
<1>3. OneAnswer  BY DEF Bridge!Init, OneAnswer
<1>4. RegisteredOnce /\ CallbackKept
  BY <1>2 DEF Bridge!Init, RegisteredOnce, CallbackKept
<1>5. Bridge!BuffersAreFreed /\ Justified
  BY DEF Bridge!Init, Bridge!BuffersAreFreed, Justified, JustifiedFor
<1>6. QED  BY <1>1, <1>3, <1>4, <1>5 DEF BridgeInv

\* A call begins.
LEMMA BeginKeeps ==
  ASSUME BridgeInv, NEW c \in Callers, Bridge!Begin(c)
  PROVE  BridgeInv'
<1>1. BridgeTypes'
  <2>1. call' \in [Callers -> [sampler : BOOLEAN, valid : BOOLEAN]]
    <3>1. PICK k \in [sampler : BOOLEAN, valid : BOOLEAN] : call' = [call EXCEPT ![c] = k]
      BY DEF Bridge!Begin
    <3>2. QED  BY <3>1 DEF BridgeInv, BridgeTypes
  <2>2. marks' \in [Callers -> Seq({0, 1})]
    <3>1. <<>> \in Seq({0, 1})  OBVIOUS
    <3>2. QED  BY <3>1 DEF BridgeInv, BridgeTypes, Bridge!Begin
  <2>3. bridgePc' \in [Callers -> Place] /\ outcome' \in [Callers -> {"none", "returned", "raised"}]
    BY DEF BridgeInv, BridgeTypes, Place, Bridge!Begin, Bridge!Goto
  <2>4. QED  BY <2>1, <2>2, <2>3 DEF BridgeInv, BridgeTypes, Bridge!Begin, Bridge!globals
<1>2. OneAnswer'
  BY DEF BridgeInv, BridgeTypes, OneAnswer, Bridge!Begin, Bridge!Goto, Bridge!Ends, Bridge!globals
<1>3. RegisteredOnce'
  BY DEF BridgeInv, RegisteredOnce, Bridge!Begin, Bridge!Goto, Bridge!Ends, Bridge!globals
<1>4. CallbackKept'
  BY DEF BridgeInv, BridgeTypes, CallbackKept, Bridge!Begin, Bridge!Goto, Bridge!Ends, Bridge!globals
<1>5. Bridge!BuffersAreFreed'
  BY DEF BridgeInv, BridgeTypes, Bridge!BuffersAreFreed, Bridge!Begin, Bridge!Goto, Bridge!Ends, Bridge!globals
<1>6. Justified'
  <2>1. PICK k : call' = [call EXCEPT ![c] = k]  BY DEF Bridge!Begin
  <2>2. ASSUME NEW d \in Callers
        PROVE  /\ bridgePc'[d] = IF d = c THEN "load" ELSE bridgePc[d]
               /\ outcome'[d] = IF d = c THEN "none" ELSE outcome[d]
               /\ d # c => call'[d] = call[d]
               /\ count'[d] = count[d] /\ lastError'[d] = lastError[d] /\ bridgeError' = bridgeError
    BY <2>1 DEF BridgeInv, BridgeTypes, Bridge!Begin, Bridge!Goto, Bridge!globals
  <2>3. SUFFICES ASSUME NEW d \in Callers PROVE JustifiedFor(d)'  BY DEF Justified
  <2>4. CASE d = c  BY <2>2, <2>4 DEF JustifiedFor
  <2>5. CASE d # c
    <3>1. JustifiedFor(d)  BY DEF BridgeInv, Justified
    <3>2. QED  BY <2>2, <2>5, <3>1 DEF JustifiedFor
  <2>6. QED  BY <2>4, <2>5
<1>7. QED  BY <1>1, <1>2, <1>3, <1>4, <1>5, <1>6 DEF BridgeInv

\* The library is built.
LEMMA BuildKeeps ==
  ASSUME BridgeInv, Bridge!Build
  PROVE  BridgeInv'
<1>1. BridgeTypes'
  BY DEF BridgeInv, BridgeTypes, Place, Bridge!Build, Bridge!Goto, Bridge!Ends, Bridge!globals
<1>2. OneAnswer'
  BY DEF BridgeInv, BridgeTypes, OneAnswer, Bridge!Build, Bridge!Goto, Bridge!Ends, Bridge!globals
<1>3. RegisteredOnce'
  BY DEF BridgeInv, RegisteredOnce, Bridge!Build, Bridge!Goto, Bridge!Ends, Bridge!globals
<1>4. CallbackKept'
  BY DEF BridgeInv, BridgeTypes, CallbackKept, Bridge!Build, Bridge!Goto, Bridge!Ends, Bridge!globals
<1>5. Bridge!BuffersAreFreed'
  BY DEF BridgeInv, BridgeTypes, Bridge!BuffersAreFreed, Bridge!Build, Bridge!Goto, Bridge!Ends, Bridge!globals
<1>6. Justified'
  BY DEF BridgeInv, BridgeTypes, Justified, JustifiedFor, OneAnswer, Bridge!Build, Bridge!Goto, Bridge!Ends, Bridge!globals
<1>7. QED  BY <1>1, <1>2, <1>3, <1>4, <1>5, <1>6 DEF BridgeInv

\* What an earlier call found is kept.
LEMMA LoadKeeps ==
  ASSUME BridgeInv, NEW c \in Callers, Bridge!LoadCached(c)
  PROVE  BridgeInv'
<1>1. BridgeTypes'
  BY DEF BridgeInv, BridgeTypes, Place, Bridge!LoadCached, Bridge!Goto, Bridge!Ends, Bridge!globals, Bridge!KnownMissing
<1>2. OneAnswer'
  BY DEF BridgeInv, BridgeTypes, OneAnswer, Bridge!LoadCached, Bridge!Goto, Bridge!Ends, Bridge!globals, Bridge!KnownMissing
<1>3. RegisteredOnce'
  BY DEF BridgeInv, RegisteredOnce, Bridge!LoadCached, Bridge!Goto, Bridge!Ends, Bridge!globals, Bridge!KnownMissing
<1>4. CallbackKept'
  BY DEF BridgeInv, BridgeTypes, CallbackKept, Bridge!LoadCached, Bridge!Goto, Bridge!Ends, Bridge!globals, Bridge!KnownMissing
<1>5. Bridge!BuffersAreFreed'
  BY DEF BridgeInv, BridgeTypes, Bridge!BuffersAreFreed, Bridge!LoadCached, Bridge!Goto, Bridge!Ends, Bridge!globals, Bridge!KnownMissing
<1>6. Justified'
  BY DEF BridgeInv, BridgeTypes, Justified, JustifiedFor, OneAnswer, Bridge!LoadCached, Bridge!Goto, Bridge!Ends, Bridge!globals, Bridge!KnownMissing
<1>7. QED  BY <1>1, <1>2, <1>3, <1>4, <1>5, <1>6 DEF BridgeInv

\* The search ends.
LEMMA SearchKeeps ==
  ASSUME BridgeInv, NEW c \in Callers, Bridge!Search(c)
  PROVE  BridgeInv'
<1>1. BridgeTypes'
  BY DEF BridgeInv, BridgeTypes, Place, Bridge!Search, Bridge!Goto, Bridge!Ends, Bridge!globals
<1>2. OneAnswer'
  BY DEF BridgeInv, BridgeTypes, OneAnswer, Bridge!Search, Bridge!Goto, Bridge!Ends, Bridge!globals
<1>3. RegisteredOnce'
  BY DEF BridgeInv, RegisteredOnce, Bridge!Search, Bridge!Goto, Bridge!Ends, Bridge!globals
<1>4. CallbackKept'
  BY DEF BridgeInv, BridgeTypes, CallbackKept, Bridge!Search, Bridge!Goto, Bridge!Ends, Bridge!globals
<1>5. Bridge!BuffersAreFreed'
  BY DEF BridgeInv, BridgeTypes, Bridge!BuffersAreFreed, Bridge!Search, Bridge!Goto, Bridge!Ends, Bridge!globals
<1>6. Justified'
  BY DEF BridgeInv, BridgeTypes, Justified, JustifiedFor, OneAnswer, Bridge!Search, Bridge!Goto, Bridge!Ends, Bridge!globals
<1>7. QED  BY <1>1, <1>2, <1>3, <1>4, <1>5, <1>6 DEF BridgeInv

\* A sampler is registered.
LEMMA RegisterKeeps ==
  ASSUME BridgeInv, NEW c \in Callers, Bridge!Register(c)
  PROVE  BridgeInv'
<1> DEFINE sampled == call[c].sampler
<1>0. /\ registry \in Seq(Callers) /\ Len(registry) \in Nat
      /\ Append(registry, c) \in Seq(Callers) /\ Len(Append(registry, c)) = Len(registry) + 1
      /\ \A i \in 1..(Len(registry) + 1) :
           Append(registry, c)[i] = IF i <= Len(registry) THEN registry[i] ELSE c
  BY DEF BridgeInv, BridgeTypes
<1>a. ~\E i \in 1..Len(registry) : registry[i] = c
  BY DEF BridgeInv, CallbackKept, Bridge!Register
<1>b. registry' = IF sampled THEN Append(registry, c) ELSE registry  BY DEF Bridge!Register
<1> HIDE DEF sampled
<1>1. BridgeTypes'
  <2>1. registry' \in Seq(Callers)  BY <1>0, <1>b
  <2>2. QED  BY <2>1 DEF BridgeInv, BridgeTypes, Place, Bridge!Register, Bridge!Goto, Bridge!globals
<1>2. OneAnswer'
  BY DEF BridgeInv, BridgeTypes, OneAnswer, Bridge!Register, Bridge!Goto, Bridge!Ends, Bridge!globals
<1>3. RegisteredOnce'
  BY <1>0, <1>a, <1>b DEF BridgeInv, RegisteredOnce
<1>4. CallbackKept'
  <2>1. ASSUME NEW d \in Callers
        PROVE  (\E i \in 1..Len(registry') : registry'[i] = d)
                 <=> (\E i \in 1..Len(registry) : registry[i] = d) \/ (sampled /\ d = c)
    BY <1>0, <1>b
  <2>2. ASSUME NEW d \in Callers
        PROVE  /\ bridgePc'[d] = "native" <=> bridgePc[d] = "native" \/ d = c
               /\ call'[d].sampler = call[d].sampler
               /\ bridgePc[c] # "native"
    BY DEF BridgeInv, BridgeTypes, Bridge!Register, Bridge!Goto
  <2>3. QED  BY <1>a, <2>1, <2>2 DEF BridgeInv, CallbackKept, sampled
<1>5. Bridge!BuffersAreFreed'
  BY DEF BridgeInv, BridgeTypes, Bridge!BuffersAreFreed, Bridge!Register, Bridge!Goto, Bridge!Ends, Bridge!globals
<1>6. Justified'
  BY DEF BridgeInv, BridgeTypes, Justified, JustifiedFor, OneAnswer, Bridge!Register, Bridge!Goto, Bridge!Ends, Bridge!globals
<1>7. QED  BY <1>1, <1>2, <1>3, <1>4, <1>5, <1>6 DEF BridgeInv

\* Native code draws a mark.
LEMMA DrawNativeKeeps ==
  ASSUME BridgeInv, NEW c \in Callers, Bridge!DrawNative(c)
  PROVE  BridgeInv'
<1>1. BridgeTypes'
  <2>1. PICK mark \in {0, 1} : marks' = [marks EXCEPT ![c] = Append(@, mark)]
    BY DEF Bridge!DrawNative
  <2>2. Append(marks[c], mark) \in Seq({0, 1})  BY DEF BridgeInv, BridgeTypes
  <2>3. marks' \in [Callers -> Seq({0, 1})]  BY <2>1, <2>2 DEF BridgeInv, BridgeTypes
  <2>4. QED  BY <2>3 DEF BridgeInv, BridgeTypes, Bridge!DrawNative, Bridge!globals
<1>2. OneAnswer'
  BY DEF BridgeInv, BridgeTypes, OneAnswer, Bridge!DrawNative, Bridge!Goto, Bridge!Ends, Bridge!globals
<1>3. RegisteredOnce'
  BY DEF BridgeInv, RegisteredOnce, Bridge!DrawNative, Bridge!Goto, Bridge!Ends, Bridge!globals
<1>4. CallbackKept'
  BY DEF BridgeInv, BridgeTypes, CallbackKept, Bridge!DrawNative, Bridge!Goto, Bridge!Ends, Bridge!globals
<1>5. Bridge!BuffersAreFreed'
  BY DEF BridgeInv, BridgeTypes, Bridge!BuffersAreFreed, Bridge!DrawNative, Bridge!Goto, Bridge!Ends, Bridge!globals
<1>6. Justified'
  BY DEF BridgeInv, BridgeTypes, Justified, JustifiedFor, OneAnswer, Bridge!DrawNative, Bridge!Goto, Bridge!Ends, Bridge!globals
<1>7. QED  BY <1>1, <1>2, <1>3, <1>4, <1>5, <1>6 DEF BridgeInv

\* The native call returns.
LEMMA ReturnKeeps ==
  ASSUME BridgeInv, NEW c \in Callers, Bridge!Return(c)
  PROVE  BridgeInv'
<1> DEFINE sampled == call[c].sampler
           n == Len(registry)
           own == CHOOSE k \in DOMAIN registry : registry[k] = c
<1>0. registry \in Seq(Callers) /\ n \in Nat /\ DOMAIN registry = 1..n
  BY DEF BridgeInv, BridgeTypes
<1>a. registry' = IF sampled THEN RemoveAt(registry, own) ELSE registry
  BY InBridge DEF Bridge!Return, Bridge!Released
<1>b. sampled => own \in 1..n /\ registry[own] = c
  <2>1. sampled => \E i \in DOMAIN registry : registry[i] = c
    BY <1>0 DEF BridgeInv, CallbackKept, Bridge!Return
  <2>2. QED  BY <1>0, <2>1
<1>c. \A i, j \in 1..n : registry[i] = registry[j] => i = j
  BY DEF BridgeInv, RegisteredOnce
<1>d. \A d \in Callers : (bridgePc[d] = "native" /\ call[d].sampler) <=> \E i \in 1..n : registry[i] = d
  BY DEF BridgeInv, CallbackKept
<1> HIDE DEF own, n
<1>e. sampled => /\ registry' \in Seq(Callers) /\ Len(registry') = n - 1
                 /\ \A i \in 1..(n - 1) :
                      registry'[i] = IF i < own THEN registry[i] ELSE registry[i + 1]
  BY <1>0, <1>a, <1>b, RemoveAtIs DEF n
<1>f. ASSUME NEW d \in Callers
      PROVE  /\ bridgePc'[d] = IF d = c THEN "copy" ELSE bridgePc[d]
             /\ d # c => lastError'[d] = lastError[d]
             /\ count'[d] = IF d # c THEN count[d] ELSE IF call[c].valid THEN Len(marks[c]) ELSE -1
             /\ call' = call /\ outcome' = outcome /\ bridgeError' = bridgeError
  BY DEF BridgeInv, BridgeTypes, Bridge!Return, Bridge!Goto, Bridge!ErrorSentinel, Bridge!globals
<1>g. bridgePc[c] = "native" /\ Len(marks[c]) \in Nat /\ (call[c].valid => Len(marks[c]) >= 0)
  BY DEF BridgeInv, BridgeTypes, Bridge!Return
<1>1. BridgeTypes'
  <2>1. registry' \in Seq(Callers)  BY <1>0, <1>a, <1>e
  <2>2. count' \in [Callers -> Int]
    BY <1>g DEF BridgeInv, BridgeTypes, Bridge!Return, Bridge!ErrorSentinel
  <2>3. bridgeHeap' \subseteq [owner : Callers, buffer : {"times", "marks"}]
    <3>1. Bridge!Buffers(c) \subseteq [owner : Callers, buffer : {"times", "marks"}]
      BY DEF Bridge!Buffers
    <3>2. QED  BY <3>1 DEF BridgeInv, BridgeTypes, Bridge!Return
  <2>4. lastError' \in [Callers -> BOOLEAN]  BY DEF BridgeInv, BridgeTypes, Bridge!Return
  <2>5. QED
    BY <2>1, <2>2, <2>3, <2>4
       DEF BridgeInv, BridgeTypes, Place, Bridge!Return, Bridge!Goto, Bridge!globals
<1>2. OneAnswer'
  BY DEF BridgeInv, BridgeTypes, OneAnswer, Bridge!Return, Bridge!Goto, Bridge!Ends, Bridge!globals, Bridge!ErrorSentinel, Bridge!Buffers
<1>3. RegisteredOnce'
  <2>1. CASE sampled
    <3> SUFFICES ASSUME NEW i \in 1..(n - 1), NEW j \in 1..(n - 1), registry'[i] = registry'[j]
                 PROVE  i = j
      BY <1>0, <1>e, <2>1 DEF RegisteredOnce
    <3> DEFINE at(m) == IF m < own THEN m ELSE m + 1
    <3>1. at(i) \in 1..n /\ at(j) \in 1..n  BY <1>0
    <3>2. registry'[i] = registry[at(i)] /\ registry'[j] = registry[at(j)]  BY <1>e, <2>1
    <3>3. at(i) = at(j)  BY <1>c, <3>1, <3>2
    <3>4. QED  BY <1>0, <1>b, <2>1, <3>3
  <2>2. CASE ~sampled  BY <1>a, <2>2 DEF BridgeInv, RegisteredOnce
  <2>3. QED  BY <2>1, <2>2
<1>4. CallbackKept'
  <2>1. CASE sampled
    <3>1. ASSUME NEW d \in Callers, NEW i \in 1..Len(registry'), registry'[i] = d
          PROVE  (\E m \in 1..n : registry[m] = d) /\ d # c
      <4> DEFINE m == IF i < own THEN i ELSE i + 1
      <4>1. m \in 1..n /\ m # own  BY <1>0, <1>b, <1>e, <2>1
      <4>2. registry[m] = d  BY <1>0, <1>e, <2>1, <3>1
      <4> HIDE DEF m
      <4>3. QED  BY <1>b, <1>c, <2>1, <4>1, <4>2
    <3>2. ASSUME NEW d \in Callers, NEW m \in 1..n, registry[m] = d, d # c
          PROVE  \E i \in 1..Len(registry') : registry'[i] = d
      <4> DEFINE i == IF m < own THEN m ELSE m - 1
      <4>1. m # own  BY <1>b, <2>1, <3>2
      <4>2. i \in 1..(n - 1) /\ m = IF i < own THEN i ELSE i + 1  BY <1>0, <1>b, <2>1, <4>1
      <4>3. registry'[i] = d  BY <1>e, <2>1, <3>2, <4>2
      <4> HIDE DEF i
      <4>4. QED  BY <1>e, <2>1, <4>2, <4>3
    <3>3. ASSUME NEW d \in Callers
          PROVE  (\E i \in 1..Len(registry') : registry'[i] = d)
                   <=> (\E m \in 1..n : registry[m] = d) /\ d # c
      BY <3>1, <3>2
    <3>4. QED  BY <1>d, <1>f, <3>3 DEF CallbackKept
  <2>2. CASE ~sampled
    <3>1. registry' = registry /\ ~\E i \in 1..n : registry[i] = c
      BY <1>a, <1>d, <2>2
    <3>2. QED  BY <1>d, <1>f, <3>1 DEF CallbackKept, n
  <2>3. QED  BY <2>1, <2>2
<1>5. Bridge!BuffersAreFreed'
  <2>1. ASSUME NEW b \in bridgeHeap'
        PROVE  \/ b \in bridgeHeap /\ b.owner \in Callers /\ b.owner # c
               \/ b.owner = c /\ call[c].valid /\ Len(marks[c]) > 0
    <3>1. CASE b \in bridgeHeap
      <4>1. b.owner \in Callers /\ b.owner # c
        BY <1>g, <3>1 DEF BridgeInv, BridgeTypes, Bridge!BuffersAreFreed
      <4>2. QED  BY <3>1, <4>1
    <3>2. CASE b \notin bridgeHeap
      <4>1. call[c].valid /\ b \in Bridge!Buffers(c)  BY <2>1, <3>2 DEF Bridge!Return
      <4>2. marks[c] # <<>> /\ b.owner = c  BY <4>1 DEF Bridge!Buffers
      <4>3. marks[c] \in Seq({0, 1})  BY DEF BridgeInv, BridgeTypes
      <4>4. QED  BY <4>1, <4>2, <4>3
    <3>3. QED  BY <3>1, <3>2
  <2>2. QED  BY <1>f, <1>g, <2>1 DEF BridgeInv, Bridge!BuffersAreFreed
<1>6. Justified'
  <2>1. SUFFICES ASSUME NEW d \in Callers PROVE JustifiedFor(d)'  BY DEF Justified
  <2>2. JustifiedFor(d)  BY DEF BridgeInv, Justified
  <2>3. CASE d # c  BY <1>f, <2>2, <2>3 DEF JustifiedFor
  <2>4. CASE d = c
    <3>1. outcome'[c] = "none" /\ bridgePc'[c] = "copy"  BY <1>f, <1>g, <2>2, <2>4 DEF JustifiedFor
    <3>2. count'[c] < 0 <=> ~call[c].valid
      <4>1. count'[c] = IF call[c].valid THEN Len(marks[c]) ELSE -1  BY <1>f
      <4>2. QED  BY <1>g, <4>1
    <3>3. (lastError'[c] <=> ~call[c].valid) /\ call' = call
      BY DEF BridgeInv, BridgeTypes, Bridge!Return
    <3>4. QED  BY <2>4, <3>1, <3>2, <3>3 DEF JustifiedFor
  <2>5. QED  BY <2>3, <2>4
<1>7. QED  BY <1>1, <1>2, <1>3, <1>4, <1>5, <1>6 DEF BridgeInv

\* The arrays are copied.
LEMMA CopyKeeps ==
  ASSUME BridgeInv, NEW c \in Callers, Bridge!Copy(c)
  PROVE  BridgeInv'
<1>1. BridgeTypes'
  BY DEF BridgeInv, BridgeTypes, Place, Bridge!Copy, Bridge!Goto, Bridge!Ends, Bridge!globals
<1>2. OneAnswer'
  BY DEF BridgeInv, BridgeTypes, OneAnswer, Bridge!Copy, Bridge!Goto, Bridge!Ends, Bridge!globals
<1>3. RegisteredOnce'
  BY DEF BridgeInv, RegisteredOnce, Bridge!Copy, Bridge!Goto, Bridge!Ends, Bridge!globals
<1>4. CallbackKept'
  <2>1. ASSUME NEW d \in Callers
        PROVE  (bridgePc'[d] = "native" <=> bridgePc[d] = "native") /\ call' = call /\ registry' = registry
    BY DEF BridgeInv, BridgeTypes, Bridge!Copy, Bridge!Goto, Bridge!Ends
  <2>2. QED  BY <2>1 DEF BridgeInv, CallbackKept
<1>5. Bridge!BuffersAreFreed'
  BY DEF BridgeInv, BridgeTypes, Bridge!BuffersAreFreed, Bridge!Copy, Bridge!Goto, Bridge!Ends, Bridge!globals
<1>6. Justified'
  <2>1. /\ bridgePc[c] = "copy" /\ count[c] \in Int
        /\ count[c] < 0 <=> ~call[c].valid
    BY DEF BridgeInv, BridgeTypes, Justified, JustifiedFor, Bridge!Copy
  <2>2. CASE count[c] > 0
    <3>1. ASSUME NEW d \in Callers
          PROVE  bridgePc'[d] = (IF d = c THEN "free times" ELSE bridgePc[d]) /\ outcome' = outcome
      BY <2>2 DEF BridgeInv, BridgeTypes, Bridge!Copy, Bridge!Goto
    <3>2. call[c].valid  BY <2>1, <2>2
    <3>3. QED  BY <2>1, <3>1, <3>2 DEF BridgeInv, Justified, JustifiedFor, Bridge!Copy, Bridge!globals
  <2>3. CASE ~(count[c] > 0)
    <3>1. ASSUME NEW d \in Callers
          PROVE  /\ bridgePc'[d] = IF d = c THEN "idle" ELSE bridgePc[d]
                 /\ outcome'[d] = IF d = c THEN IF count[c] < 0 THEN "raised" ELSE "returned"
                                  ELSE outcome[d]
      BY <2>3 DEF BridgeInv, BridgeTypes, Bridge!Copy, Bridge!Ends, Bridge!Goto
    <3>2. QED  BY <2>1, <3>1 DEF BridgeInv, Justified, JustifiedFor, Bridge!Copy, Bridge!globals
  <2>4. QED  BY <2>2, <2>3
<1>7. QED  BY <1>1, <1>2, <1>3, <1>4, <1>5, <1>6 DEF BridgeInv

\* The first buffer is freed.
LEMMA FreeTimesKeeps ==
  ASSUME BridgeInv, NEW c \in Callers, Bridge!Free(c, "times")
  PROVE  BridgeInv'
<1>1. BridgeTypes'
  BY DEF BridgeInv, BridgeTypes, Place, Bridge!Free, Bridge!Goto, Bridge!Ends, Bridge!globals, Bridge!FreeAt
<1>2. OneAnswer'
  BY DEF BridgeInv, BridgeTypes, OneAnswer, Bridge!Free, Bridge!Goto, Bridge!Ends, Bridge!globals, Bridge!FreeAt
<1>3. RegisteredOnce'
  BY DEF BridgeInv, RegisteredOnce, Bridge!Free, Bridge!Goto, Bridge!Ends, Bridge!globals, Bridge!FreeAt
<1>4. CallbackKept'
  <2>1. ASSUME NEW d \in Callers
        PROVE  (bridgePc'[d] = "native" <=> bridgePc[d] = "native") /\ call' = call /\ registry' = registry
    BY DEF BridgeInv, BridgeTypes, Bridge!Free, Bridge!FreeAt, Bridge!Goto, Bridge!Ends
  <2>2. QED  BY <2>1 DEF BridgeInv, CallbackKept
<1>5. Bridge!BuffersAreFreed'
  <2>1. ASSUME NEW d \in Callers
        PROVE  bridgePc'[d] = (IF d = c THEN "free marks" ELSE bridgePc[d]) /\ count' = count
    BY DEF BridgeInv, BridgeTypes, Bridge!Free, Bridge!Goto
  <2>2. ASSUME NEW b \in bridgeHeap'
        PROVE  /\ b \in bridgeHeap /\ b.owner \in Callers
               /\ b.owner = c => b.buffer = "marks"
    <3>1. b \in bridgeHeap /\ b # [owner |-> c, buffer |-> "times"]  BY <2>2 DEF Bridge!Free
    <3>2. b \in [owner : Callers, buffer : {"times", "marks"}]
      BY <3>1 DEF BridgeInv, BridgeTypes
    <3>3. b = [owner |-> b.owner, buffer |-> b.buffer] /\ b.buffer \in {"times", "marks"}  BY <3>2
    <3>4. QED  BY <3>1, <3>2, <3>3
  <2>3. QED  BY <2>1, <2>2 DEF BridgeInv, Bridge!BuffersAreFreed
<1>6. Justified'
  BY DEF BridgeInv, BridgeTypes, Justified, JustifiedFor, OneAnswer, Bridge!Free, Bridge!Goto, Bridge!Ends, Bridge!globals, Bridge!FreeAt
<1>7. QED  BY <1>1, <1>2, <1>3, <1>4, <1>5, <1>6 DEF BridgeInv

\* The second buffer is freed.
LEMMA FreeMarksKeeps ==
  ASSUME BridgeInv, NEW c \in Callers, Bridge!Free(c, "marks")
  PROVE  BridgeInv'
<1>1. BridgeTypes'
  BY DEF BridgeInv, BridgeTypes, Place, Bridge!Free, Bridge!Goto, Bridge!Ends, Bridge!globals, Bridge!FreeAt
<1>2. OneAnswer'
  BY DEF BridgeInv, BridgeTypes, OneAnswer, Bridge!Free, Bridge!Goto, Bridge!Ends, Bridge!globals, Bridge!FreeAt
<1>3. RegisteredOnce'
  BY DEF BridgeInv, RegisteredOnce, Bridge!Free, Bridge!Goto, Bridge!Ends, Bridge!globals, Bridge!FreeAt
<1>4. CallbackKept'
  <2>1. ASSUME NEW d \in Callers
        PROVE  (bridgePc'[d] = "native" <=> bridgePc[d] = "native") /\ call' = call /\ registry' = registry
    BY DEF BridgeInv, BridgeTypes, Bridge!Free, Bridge!FreeAt, Bridge!Goto, Bridge!Ends
  <2>2. QED  BY <2>1 DEF BridgeInv, CallbackKept
<1>5. Bridge!BuffersAreFreed'
  <2>1. ASSUME NEW d \in Callers
        PROVE  bridgePc'[d] = (IF d = c THEN "idle" ELSE bridgePc[d]) /\ count' = count
    BY DEF BridgeInv, BridgeTypes, Bridge!Free, Bridge!Ends, Bridge!Goto
  <2>2. bridgePc[c] = "free marks"  BY DEF Bridge!Free, Bridge!FreeAt
  <2>3. ASSUME NEW b \in bridgeHeap'
        PROVE  b \in bridgeHeap /\ b.owner \in Callers /\ b.owner # c
    <3>1. b \in bridgeHeap /\ b # [owner |-> c, buffer |-> "marks"]  BY <2>3 DEF Bridge!Free
    <3>2. b \in [owner : Callers, buffer : {"times", "marks"}]
      BY <3>1 DEF BridgeInv, BridgeTypes
    <3>3. b = [owner |-> b.owner, buffer |-> b.buffer] /\ b.buffer \in {"times", "marks"}  BY <3>2
    <3>4. b.owner = c => b.buffer = "marks"  BY <2>2, <3>1 DEF BridgeInv, Bridge!BuffersAreFreed
    <3>5. QED  BY <3>1, <3>2, <3>3, <3>4
  <2>4. QED  BY <2>1, <2>3 DEF BridgeInv, Bridge!BuffersAreFreed
<1>6. Justified'
  BY DEF BridgeInv, BridgeTypes, Justified, JustifiedFor, OneAnswer, Bridge!Free, Bridge!Goto, Bridge!Ends, Bridge!globals, Bridge!FreeAt
<1>7. QED  BY <1>1, <1>2, <1>3, <1>4, <1>5, <1>6 DEF BridgeInv

\* The simulation falls back on Python.
LEMMA FallbackKeeps ==
  ASSUME BridgeInv, NEW c \in Callers, Bridge!Fallback(c)
  PROVE  BridgeInv'
<1>1. BridgeTypes'
  BY DEF BridgeInv, BridgeTypes, Place, Bridge!Fallback, Bridge!Goto, Bridge!Ends, Bridge!globals
<1>2. OneAnswer'
  BY DEF BridgeInv, BridgeTypes, OneAnswer, Bridge!Fallback, Bridge!Goto, Bridge!Ends, Bridge!globals
<1>3. RegisteredOnce'
  BY DEF BridgeInv, RegisteredOnce, Bridge!Fallback, Bridge!Goto, Bridge!Ends, Bridge!globals
<1>4. CallbackKept'
  BY DEF BridgeInv, BridgeTypes, CallbackKept, Bridge!Fallback, Bridge!Goto, Bridge!Ends, Bridge!globals
<1>5. Bridge!BuffersAreFreed'
  BY DEF BridgeInv, BridgeTypes, Bridge!BuffersAreFreed, Bridge!Fallback, Bridge!Goto, Bridge!Ends, Bridge!globals
<1>6. Justified'
  BY DEF BridgeInv, BridgeTypes, Justified, JustifiedFor, OneAnswer, Bridge!Fallback, Bridge!Goto, Bridge!Ends, Bridge!globals
<1>7. QED  BY <1>1, <1>2, <1>3, <1>4, <1>5, <1>6 DEF BridgeInv

\* Python draws a mark.
LEMMA DrawPythonKeeps ==
  ASSUME BridgeInv, NEW c \in Callers, Bridge!DrawPython(c)
  PROVE  BridgeInv'
<1>1. BridgeTypes'
  <2>1. Append(marks[c], 1) \in Seq({0, 1})  BY DEF BridgeInv, BridgeTypes
  <2>2. marks' \in [Callers -> Seq({0, 1})]
    BY <2>1 DEF BridgeInv, BridgeTypes, Bridge!DrawPython
  <2>3. bridgePc' \in [Callers -> Place] /\ outcome' \in [Callers -> {"none", "returned", "raised"}]
    BY DEF BridgeInv, BridgeTypes, Place, Bridge!DrawPython, Bridge!Ends, Bridge!Goto
  <2>4. QED  BY <2>2, <2>3 DEF BridgeInv, BridgeTypes, Bridge!DrawPython, Bridge!globals
<1>2. OneAnswer'
  BY DEF BridgeInv, BridgeTypes, OneAnswer, Bridge!DrawPython, Bridge!Goto, Bridge!Ends, Bridge!globals
<1>3. RegisteredOnce'
  BY DEF BridgeInv, RegisteredOnce, Bridge!DrawPython, Bridge!Goto, Bridge!Ends, Bridge!globals
<1>4. CallbackKept'
  BY DEF BridgeInv, BridgeTypes, CallbackKept, Bridge!DrawPython, Bridge!Goto, Bridge!Ends, Bridge!globals
<1>5. Bridge!BuffersAreFreed'
  BY DEF BridgeInv, BridgeTypes, Bridge!BuffersAreFreed, Bridge!DrawPython, Bridge!Goto, Bridge!Ends, Bridge!globals
<1>6. Justified'
  BY DEF BridgeInv, BridgeTypes, Justified, JustifiedFor, OneAnswer, Bridge!DrawPython, Bridge!Goto, Bridge!Ends, Bridge!globals
<1>7. QED  BY <1>1, <1>2, <1>3, <1>4, <1>5, <1>6 DEF BridgeInv

\* The Python simulation ends.
LEMMA EndPythonKeeps ==
  ASSUME BridgeInv, NEW c \in Callers, Bridge!EndPython(c)
  PROVE  BridgeInv'
<1>1. BridgeTypes'
  BY DEF BridgeInv, BridgeTypes, Place, Bridge!EndPython, Bridge!Goto, Bridge!Ends, Bridge!globals
<1>2. OneAnswer'
  BY DEF BridgeInv, BridgeTypes, OneAnswer, Bridge!EndPython, Bridge!Goto, Bridge!Ends, Bridge!globals
<1>3. RegisteredOnce'
  BY DEF BridgeInv, RegisteredOnce, Bridge!EndPython, Bridge!Goto, Bridge!Ends, Bridge!globals
<1>4. CallbackKept'
  BY DEF BridgeInv, BridgeTypes, CallbackKept, Bridge!EndPython, Bridge!Goto, Bridge!Ends, Bridge!globals
<1>5. Bridge!BuffersAreFreed'
  BY DEF BridgeInv, BridgeTypes, Bridge!BuffersAreFreed, Bridge!EndPython, Bridge!Goto, Bridge!Ends, Bridge!globals
<1>6. Justified'
  BY DEF BridgeInv, BridgeTypes, Justified, JustifiedFor, OneAnswer, Bridge!EndPython, Bridge!Goto, Bridge!Ends, Bridge!globals
<1>7. QED  BY <1>1, <1>2, <1>3, <1>4, <1>5, <1>6 DEF BridgeInv

\* Every step of the threads, and of the one who builds the library.
LEMMA BridgeSteps ==
  ASSUME BridgeInv, [Bridge!Next]_bridgeVars
  PROVE  BridgeInv'
<1>1. CASE UNCHANGED bridgeVars
  <2>1. BridgeTypes'  BY <1>1 DEF bridgeVars, BridgeInv, BridgeTypes
  <2>2. OneAnswer'  BY <1>1 DEF bridgeVars, BridgeInv, OneAnswer
  <2>3. RegisteredOnce' /\ CallbackKept'
    BY <1>1 DEF bridgeVars, BridgeInv, RegisteredOnce, CallbackKept
  <2>4. Bridge!BuffersAreFreed'  BY <1>1 DEF bridgeVars, BridgeInv, Bridge!BuffersAreFreed
  <2>5. Justified'  BY <1>1 DEF bridgeVars, BridgeInv, Justified, JustifiedFor
  <2>6. QED  BY <2>1, <2>2, <2>3, <2>4, <2>5 DEF BridgeInv
<1>2. CASE Bridge!Build  BY <1>2, BuildKeeps
<1>3. ASSUME NEW c \in Callers,
             \/ Bridge!Begin(c) \/ Bridge!LoadCached(c) \/ Bridge!Search(c)
             \/ Bridge!Register(c) \/ Bridge!DrawNative(c) \/ Bridge!Return(c)
             \/ Bridge!Copy(c) \/ Bridge!Free(c, "times") \/ Bridge!Free(c, "marks")
             \/ Bridge!Fallback(c) \/ Bridge!DrawPython(c) \/ Bridge!EndPython(c)
      PROVE  BridgeInv'
  BY <1>3, BeginKeeps, LoadKeeps, SearchKeeps, RegisterKeeps, DrawNativeKeeps, ReturnKeeps,
     CopyKeeps, FreeTimesKeeps, FreeMarksKeeps, FallbackKeeps, DrawPythonKeeps, EndPythonKeeps
<1>4. QED  BY <1>1, <1>2, <1>3 DEF Bridge!Next

\* The invariant makes calls sound.
LEMMA BridgeSound ==
  ASSUME BridgeInv
  PROVE  CallsAreSound
<1>1. Bridge!BuffersAreFreed  BY DEF BridgeInv
<1>2. Bridge!CallbackAlive
  <2>1. ToSet(registry) = {registry[i] : i \in 1..Len(registry)}
    BY DEF BridgeInv, BridgeTypes, ToSet
  <2>2. ASSUME NEW c \in Callers
        PROVE  c \in ToSet(registry) <=> \E i \in 1..Len(registry) : registry[i] = c
    BY <2>1
  <2>3. ASSUME NEW c \in Callers
        PROVE  (bridgePc[c] = "native" /\ call[c].sampler) <=> c \in Bridge!ToSet(registry)
    <3>1. Bridge!ToSet(registry) = ToSet(registry)  BY InBridge
    <3>2. (bridgePc[c] = "native" /\ call[c].sampler) <=> \E i \in 1..Len(registry) : registry[i] = c
      BY DEF BridgeInv, CallbackKept
    <3>3. QED  BY <2>2, <3>1, <3>2
  <2>4. QED  BY <2>3 DEF Bridge!CallbackAlive
<1>3. Bridge!OnePath
  <2>1. paths \subseteq {"native", "python"} /\ ~("native" \in paths /\ "python" \in paths)
    BY DEF BridgeInv, BridgeTypes, OneAnswer
  <2>2. PICK p : paths = {} \/ paths = {p}  BY <2>1
  <2>3. Cardinality(paths) = 0 \/ Cardinality(paths) = 1
    BY <2>2, FS_EmptySet, FS_Singleton
  <2>4. Bridge!Cardinality(paths) = Cardinality(paths)  BY InBridge
  <2>5. QED  BY <2>3, <2>4 DEF Bridge!OnePath
<1>4. Bridge!RefusalIsRaised
  BY DEF BridgeInv, Justified, JustifiedFor, OneAnswer, Bridge!RefusalIsRaised
<1>5. QED  BY <1>1, <1>2, <1>3, <1>4 DEF CallsAreSound, Bridge!CallsAreSound

-----------------------------------------------------------------------------
(* The execution engine that tunes itself                                    *)

EngineInput == [latency : Int, pnl : Int, volatility : Nat]

\* The library's operators are the same ones in the instance.
LEMMA InAdaptive ==
  /\ \A S : Adaptive!Max(S) = Max(S)
  /\ \A q, w : Adaptive!Latest(q, w) = Latest(q, w)
  /\ \A q : Adaptive!Total(q) = Total(q)
<1>1. \A S : Adaptive!Max(S) = Max(S)  BY DEF Adaptive!Max, Max
<1>2. \A q, w : Adaptive!Latest(q, w) = Latest(q, w)  BY DEF Adaptive!Latest, Latest
<1>3. \A q : Adaptive!Total(q) = Total(q)
  BY DEF Adaptive!Total, Total, Adaptive!Running, Running
<1>4. QED  BY <1>1, <1>2, <1>3

-----------------------------------------------------------------------------
(* Windows and their sums *)

Squares(values) == [k \in 1..Len(values) |-> values[k] * values[k]]

\* The squares of a sequence that goes on, or starts one later.
LEMMA SquaresFollow ==
  ASSUME NEW s \in Seq(Int), NEW v \in Int
  PROVE  /\ Squares(s) \in Seq(Int) /\ v * v \in Int
         /\ Squares(Append(s, v)) = Append(Squares(s), v * v)
         /\ s # <<>> => Squares(Tail(s)) = Tail(Squares(s))
<1> DEFINE n == Len(s)
           more == Append(s, v)
<1>1. /\ n \in Nat /\ \A k \in 1..n : s[k] \in Int
      /\ Len(more) = n + 1 /\ more[n + 1] = v /\ \A k \in 1..n : more[k] = s[k]
  OBVIOUS
<1>2. v * v \in Int /\ \A k \in 1..n : s[k] * s[k] \in Int
  <2>1. ASSUME NEW a \in Int PROVE a * a \in Int  OBVIOUS
  <2>2. QED  BY <1>1, <2>1
<1> HIDE DEF n, more
<1> DEFINE square == v * v
           Sq(k) == s[k] * s[k]
<1>3. /\ Squares(s) = [k \in 1..n |-> Sq(k)] /\ \A k \in 1..n : Sq(k) \in Int
      /\ square \in Int
  BY <1>2 DEF Squares, n
<1>4. /\ Squares(more) = [k \in 1..(n + 1) |-> more[k] * more[k]]
      /\ \A k \in 1..n : more[k] * more[k] = Sq(k)
      /\ more[n + 1] * more[n + 1] = square
  BY <1>1 DEF Squares
<1>5. /\ Squares(s) \in Seq(Int) /\ Len(Squares(s)) = n
      /\ \A k \in 1..n : Squares(s)[k] = Sq(k)
  <2> HIDE DEF Sq
  <2>1. QED  BY <1>1, <1>3
<1>6. /\ Squares(more) \in Seq(Int) /\ Len(Squares(more)) = n + 1
      /\ Squares(more)[n + 1] = square
      /\ \A k \in 1..n : Squares(more)[k] = Sq(k)
  <2> DEFINE Mq(k) == more[k] * more[k]
  <2>1. /\ Squares(more) = [k \in 1..(n + 1) |-> Mq(k)]
        /\ \A k \in 1..n : Mq(k) = Sq(k)
        /\ Mq(n + 1) = square
    BY <1>4
  <2> HIDE DEF Mq, Sq, square
  <2>2. \A k \in 1..(n + 1) : Mq(k) \in Int
    <3>1. \A k \in 1..(n + 1) : k \in 1..n \/ k = n + 1  BY <1>1
    <3>2. QED  BY <1>3, <2>1, <3>1
  <2>3. n + 1 \in 1..(n + 1) /\ \A k \in 1..n : k \in 1..(n + 1)  BY <1>1
  <2>4. Squares(more) \in Seq(Int) /\ Len(Squares(more)) = n + 1  BY <1>1, <2>1, <2>2
  <2>5. QED  BY <2>1, <2>3, <2>4
<1>7. Squares(more) = Append(Squares(s), square)
  <2> DEFINE a == Squares(s)
             b == Squares(more)
  <2>1. /\ a \in Seq(Int) /\ b \in Seq(Int) /\ Len(b) = Len(a) + 1 /\ b[Len(a) + 1] = square
        /\ \A k \in 1..Len(a) : b[k] = a[k]
    BY <1>5, <1>6
  <2> HIDE DEF a, b, square
  <2>2. b = Append(a, square)  BY <1>3, <2>1, AppendIs
  <2>3. QED  BY <2>2 DEF a, b
<1>8. ASSUME s # <<>> PROVE Squares(Tail(s)) = Tail(Squares(s))
  <2>1. /\ Tail(s) \in Seq(Int) /\ Len(Tail(s)) = n - 1
        /\ \A k \in 1..(n - 1) : Tail(s)[k] = s[k + 1]
    BY <1>1, <1>8, HeadTailProperties DEF n
  <2>2. n >= 1  BY <1>1, <2>1
  <2>3. /\ Squares(s) # <<>>
        /\ Tail(Squares(s)) \in Seq(Int) /\ Len(Tail(Squares(s))) = n - 1
        /\ \A k \in 1..(n - 1) : Tail(Squares(s))[k] = Squares(s)[k + 1]
    <3> DEFINE q == Squares(s)
    <3>1. q \in Seq(Int) /\ Len(q) = n  BY <1>5
    <3> HIDE DEF q
    <3>2. q # <<>>  BY <1>1, <2>2, <3>1
    <3>3. QED  BY <3>1, <3>2, HeadTailProperties DEF q
  <2>4. \A k \in 1..(n - 1) : k + 1 \in 1..n  BY <1>1
  <2>5. Squares(Tail(s)) = [k \in 1..(n - 1) |-> Sq(k + 1)]
    BY <2>1 DEF Squares
  <2>6. \A k \in 1..(n - 1) : Tail(Squares(s))[k] = Sq(k + 1)
    <3> HIDE DEF Sq
    <3>1. QED  BY <1>5, <2>3, <2>4
  <2>7. /\ Squares(Tail(s)) \in Seq(Int) /\ Len(Squares(Tail(s))) = n - 1
        /\ \A k \in 1..(n - 1) : Squares(Tail(s))[k] = Sq(k + 1)
    <3>1. \A k \in 1..(n - 1) : Sq(k + 1) \in Int  BY <1>3, <2>4
    <3> HIDE DEF Sq
    <3>2. n - 1 \in Nat  BY <1>1, <2>2
    <3>3. QED  BY <2>5, <3>1, <3>2
  <2> HIDE DEF Sq
  <2> DEFINE a == Squares(Tail(s))
             b == Tail(Squares(s))
  <2>8. /\ a \in Seq(Int) /\ b \in Seq(Int) /\ Len(a) = Len(b)
        /\ \A k \in 1..Len(a) : a[k] = b[k]
    BY <2>3, <2>6, <2>7
  <2> HIDE DEF a, b
  <2>9. a = b  BY <2>8, SeqEqual
  <2>10. QED  BY <2>9 DEF a, b
<1>9. QED  BY <1>3, <1>5, <1>7, <1>8 DEF more

\* A window over a series: its latest values and the sums of them and of their
\* squares.
WindowOver(w, s) ==
  /\ w.values = Latest(s, EngineWindow)
  /\ w.sum = Total(w.values)
  /\ w.sumsq = Total(Squares(w.values))

\* Adding a value keeps a window over the series that goes on with it.
LEMMA AddFollows ==
  ASSUME NEW s \in Seq(Int), NEW v \in Int, NEW w, WindowOver(w, s)
  PROVE  WindowOver(Adaptive!Add(w, v), Append(s, v))
<1> DEFINE l == Latest(s, EngineWindow)
           more == Append(l, v)
           r == Adaptive!Add(w, v)
           square == v * v
<1>1. EngineWindow \in Nat /\ EngineWindow # 0  BY EngineAssumption
<1>2. /\ more \in Seq(Int) /\ more # <<>>
      /\ Latest(Append(s, v), EngineWindow) = IF Len(more) > EngineWindow THEN Tail(more) ELSE more
  BY <1>1, LatestNumbers
<1>3. l \in Seq(Int)  BY <1>1, LatestIs
<1>4. w.values = l /\ w.sum = Total(l) /\ w.sumsq = Total(Squares(l))
  BY DEF WindowOver
<1>5. IF Len(more) <= EngineWindow
      THEN /\ r.values = more /\ r.sum = w.sum + v /\ r.sumsq = w.sumsq + square
      ELSE /\ r.values = Tail(more) /\ r.sum = (w.sum + v) - more[1]
           /\ r.sumsq = (w.sumsq + square) - more[1] * more[1]
  <2> DEFINE added == [values |-> Append(w.values, v), sum |-> w.sum + v,
                       sumsq |-> w.sumsq + v * v]
             first == added.values[1]
             cut == [values |-> Tail(added.values), sum |-> added.sum - first,
                     sumsq |-> added.sumsq - first * first]
  <2>1. r = IF Len(added.values) <= EngineWindow THEN added ELSE cut
    BY DEF Adaptive!Add, Adaptive!Trimmed
  <2>2. added.values = more /\ added.sum = w.sum + v /\ added.sumsq = w.sumsq + square
    BY <1>4
  <2>3. /\ cut.values = Tail(added.values) /\ cut.sum = added.sum - added.values[1]
        /\ cut.sumsq = added.sumsq - added.values[1] * added.values[1]
    OBVIOUS
  <2> HIDE DEF added, cut, r, more, square
  <2>4. /\ cut.values = Tail(more) /\ cut.sum = (w.sum + v) - more[1]
        /\ cut.sumsq = (w.sumsq + square) - more[1] * more[1]
    <3>1. cut.values = Tail(more)  BY <2>2, <2>3, Zenon
    <3>2. cut.sum = (w.sum + v) - more[1]  BY <2>2, <2>3, Zenon
    <3>3. cut.sumsq = (w.sumsq + square) - more[1] * more[1]  BY <2>2, <2>3, Zenon
    <3>4. QED  BY <3>1, <3>2, <3>3
  <2>5. CASE Len(more) <= EngineWindow  BY <2>1, <2>2, <2>5
  <2>6. CASE ~(Len(more) <= EngineWindow)  BY <2>1, <2>2, <2>4, <2>6
  <2>7. QED  BY <2>5, <2>6
<1>6. /\ Squares(l) \in Seq(Int) /\ square \in Int
      /\ Squares(more) = Append(Squares(l), square)
  BY <1>3, SquaresFollow
<1> HIDE DEF r, square, l
<1>7. /\ Total(more) = w.sum + v /\ Total(l) \in Int
  BY <1>3, <1>4, TotalAppend
<1>8. /\ Total(Squares(more)) = w.sumsq + square /\ Total(Squares(l)) \in Int
  BY <1>4, <1>6, TotalAppend
<1> HIDE DEF more
<1>9. Len(more) \in Nat  BY <1>2
<1>10. CASE Len(more) <= EngineWindow
  <2>1. r.values = more /\ r.sum = w.sum + v /\ r.sumsq = w.sumsq + square
    BY <1>5, <1>10
  <2>2. Latest(Append(s, v), EngineWindow) = more  BY <1>1, <1>2, <1>9, <1>10
  <2>3. QED  BY <1>7, <1>8, <2>1, <2>2 DEF WindowOver, r
<1>11. CASE ~(Len(more) <= EngineWindow)
  <2> DEFINE first == more[1]
             square1 == more[1] * more[1]
  <2>1. r.values = Tail(more) /\ r.sum = (w.sum + v) - first /\ r.sumsq = (w.sumsq + square) - square1
    BY <1>5, <1>11
  <2>2. Latest(Append(s, v), EngineWindow) = Tail(more)  BY <1>1, <1>2, <1>9, <1>11
  <2>a. w.sum \in Int /\ w.sumsq \in Int /\ first \in Int
    <3>1. w.sum \in Int /\ w.sumsq \in Int  BY <1>4, <1>7, <1>8
    <3>2. 1 \in 1..Len(more)  BY <1>2
    <3>3. QED  BY <1>2, <3>1, <3>2
  <2>3. Total(Tail(more)) = (w.sum + v) - first
    <3>1. Total(Tail(more)) = Total(more) - first  BY <1>2, TotalTail
    <3> HIDE DEF first
    <3>2. QED  BY <1>7, <2>a, <3>1
  <2>4. Total(Squares(Tail(more))) = (w.sumsq + square) - square1
    <3>1. /\ Squares(more) \in Seq(Int) /\ Squares(Tail(more)) = Tail(Squares(more))
      <4>1. 0 \in Int  OBVIOUS
      <4>2. QED  BY <1>2, <4>1, SquaresFollow
    <3>2. Squares(more) # <<>> /\ Squares(more)[1] = square1
      <4>1. 1 \in 1..Len(more)  BY <1>2
      <4>2. Squares(more)[1] = square1  BY <4>1 DEF Squares
      <4>3. Len(Squares(more)) = Len(more)  BY <1>9 DEF Squares
      <4>4. QED  BY <1>9, <3>1, <4>1, <4>2, <4>3
    <3> HIDE DEF square1
    <3>3. Total(Tail(Squares(more))) = Total(Squares(more)) - square1
      BY <3>1, <3>2, TotalTail
    <3>4. square1 \in Int
      <4> HIDE DEF first
      <4>1. first * first \in Int  BY <2>a
      <4>2. QED  BY <4>1 DEF square1, first
    <3>5. Total(Squares(Tail(more))) = Total(Squares(more)) - square1  BY <3>1, <3>3
    <3>6. QED  BY <1>8, <3>5, Zenon
  <2>5. QED  BY <2>1, <2>2, <2>3, <2>4 DEF WindowOver, r
<1>12. QED  BY <1>10, <1>11

\* What a window holds, once there is something to hold.
LEMMA WindowHolds ==
  ASSUME NEW s \in Seq(Int), s # <<>>, NEW w, WindowOver(w, s)
  PROVE  /\ w.values \in Seq(Int) /\ Len(w.values) \in Nat /\ Len(w.values) >= 1
         /\ w.values = Latest(s, EngineWindow)
         /\ w.sum \in Int /\ w.sumsq \in Int
<1>1. EngineWindow \in Nat /\ EngineWindow >= 1  BY EngineAssumption
<1>2. Len(s) \in Nat /\ Len(s) >= 1  OBVIOUS
<1> DEFINE l == Latest(s, EngineWindow)
<1>3. l \in Seq(Int) /\ Len(l) = IF Len(s) < EngineWindow THEN Len(s) ELSE EngineWindow
  BY <1>1, LatestIs
<1>4. w.values = l  BY DEF WindowOver
<1> HIDE DEF l
<1>5. Len(l) \in Nat /\ Len(l) >= 1  BY <1>1, <1>2, <1>3
<1>6. w.sum \in Int  BY <1>3, <1>4, TotalType DEF WindowOver
<1>7. w.sumsq \in Int
  <2>1. 0 \in Int  OBVIOUS
  <2>2. Squares(l) \in Seq(Int)  BY <1>3, <2>1, SquaresFollow
  <2>3. QED  BY <1>4, <2>2, TotalType DEF WindowOver
<1>8. QED  BY <1>3, <1>4, <1>5, <1>6, <1>7 DEF l

\* The variance is not negative, and zero when all values are the same.
LEMMA VarianceIs ==
  ASSUME NEW s \in Seq(Int), s # <<>>, NEW w, WindowOver(w, s)
  PROVE  /\ Adaptive!Variance(w) \in Nat
         /\ (\A k \in 1..Len(w.values) : w.values[k] = w.values[1]) => Adaptive!Variance(w) = 0
<1> DEFINE n == Len(w.values)
           e == w.values[1]
           spread == n * w.sumsq - w.sum * w.sum
<1>1. /\ w.values \in Seq(Int) /\ n \in Nat /\ n >= 1 /\ w.sum \in Int /\ w.sumsq \in Int
  BY WindowHolds
<1>2. spread \in Int
  <2>1. n * w.sumsq \in Int /\ w.sum * w.sum \in Int  BY <1>1
  <2>2. QED  BY <2>1
<1>3. Adaptive!Variance(w) = IF n < 2 THEN 0 ELSE Max({0, spread})
  BY InAdaptive DEF Adaptive!Variance, Adaptive!Count
<1>4. Max({0, spread}) = IF 0 >= spread THEN 0 ELSE spread
  <2> HIDE DEF spread
  <2>1. 0 \in Int  OBVIOUS
  <2>2. QED  BY <1>2, <2>1, TheLarger
<1>5. Adaptive!Variance(w) \in Nat
  <2> HIDE DEF spread, n
  <2>1. QED  BY <1>1, <1>2, <1>3, <1>4
<1>6. ASSUME \A k \in 1..n : w.values[k] = e PROVE Adaptive!Variance(w) = 0
  <2> DEFINE v == w.values
             square == e * e
  <2>1. e \in Int /\ square \in Int
    <3>1. 1 \in 1..n  BY <1>1
    <3>2. e \in Int  BY <1>1, <3>1
    <3>3. QED  BY <3>2
  <2>2. Total(v) = n * e
    <3> HIDE DEF e
    <3>1. QED  BY <1>1, <1>6, <2>1, TotalConstant
  <2>3. Total(Squares(v)) = n * square
    <3> DEFINE q == Squares(v)
    <3>1. 0 \in Int  OBVIOUS
    <3>2. q \in Seq(Int)  BY <1>1, <3>1, SquaresFollow
    <3>3. Len(q) = n  BY <1>1 DEF Squares
    <3>4. \A k \in 1..n : q[k] = square
      <4>1. ASSUME NEW k \in 1..n PROVE q[k] = square
        <5>1. q[k] = v[k] * v[k]  BY DEF Squares
        <5>2. v[k] = e  BY <1>6
        <5>3. QED  BY <5>1, <5>2
      <4>2. QED  BY <4>1
    <3> HIDE DEF q, square
    <3>5. Total(q) = n * square  BY <2>1, <3>2, <3>3, <3>4, TotalConstant
    <3>6. QED  BY <3>5 DEF q
  <2>4. w.sum = n * e /\ w.sumsq = n * square  BY <2>2, <2>3 DEF WindowOver
  <2>5. spread = 0
    <3> HIDE DEF n, e
    <3>1. n * (n * (e * e)) = (n * e) * (n * e)  BY <1>1, <2>1
    <3>2. n * (n * (e * e)) \in Int
      <4>1. n * (e * e) \in Int  BY <1>1, <2>1
      <4>2. QED  BY <1>1, <4>1
    <3>3. QED  BY <2>4, <3>1, <3>2
  <2> HIDE DEF spread
  <2>6. QED  BY <1>3, <1>4, <2>5
<1>7. QED  BY <1>5, <1>6

-----------------------------------------------------------------------------
(* Fractions *)

\* A fraction that is at most the base is clamped to one, and so is one that is
\* at least the base.
LEMMA ClampedKeepsOrder ==
  ASSUME NEW n \in Int, NEW d \in Nat \ {0}
  PROVE  LET c == Adaptive!Clamped(<<n, d>>) IN
         /\ n <= Base * d => Adaptive!AtMost(c, <<Base, 1>>)
         /\ Base * d <= n => Adaptive!AtMost(<<Base, 1>>, c)
<1> DEFINE c == Adaptive!Clamped(<<n, d>>)
<1>1. /\ Base \in Int /\ Lowest \in Int /\ Highest \in Int
      /\ Lowest <= Base /\ Base <= Highest
  BY EngineAssumption
<1>2. Base * d \in Int /\ Lowest * d \in Int /\ Highest * d \in Int  BY <1>1
<1>3. \A a, b \in Int, x, y \in Int : Adaptive!AtMost(<<a, b>>, <<x, y>>) <=> a * y <= x * b
  BY DEF Adaptive!AtMost
<1>4. /\ Adaptive!AtMost(<<n, d>>, <<Lowest, 1>>) <=> n <= Lowest * d
      /\ Adaptive!AtMost(<<Highest, 1>>, <<n, d>>) <=> Highest * d <= n
  <2>1. n * 1 = n  OBVIOUS
  <2>2. QED  BY <1>1, <1>3, <2>1
<1>5. c = IF n <= Lowest * d THEN <<Lowest, 1>>
          ELSE IF Highest * d <= n THEN <<Highest, 1>> ELSE <<n, d>>
  BY <1>4 DEF Adaptive!Clamped
<1> HIDE DEF c
<1>6. /\ \A x, y \in Int : x <= y <=> Adaptive!AtMost(<<x, 1>>, <<y, 1>>)
      /\ Adaptive!AtMost(<<n, d>>, <<Base, 1>>) <=> n <= Base * d
      /\ Adaptive!AtMost(<<Base, 1>>, <<n, d>>) <=> Base * d <= n
  <2>1. n * 1 = n /\ \A x \in Int : x * 1 = x  OBVIOUS
  <2>2. QED  BY <1>1, <1>3, <2>1
<1>7. ASSUME n <= Base * d PROVE Adaptive!AtMost(c, <<Base, 1>>)
  <2>1. CASE n <= Lowest * d  BY <1>1, <1>5, <1>6, <2>1
  <2>2. CASE ~(n <= Lowest * d) /\ Highest * d <= n
    <3>1. Highest * d <= Base * d  BY <1>2, <1>7, <2>2
    <3>2. Highest <= Base  BY <1>1, <3>1, ProductCancel
    <3>3. QED  BY <1>1, <1>5, <1>6, <2>2, <3>2
  <2>3. CASE ~(n <= Lowest * d) /\ ~(Highest * d <= n)
    BY <1>5, <1>6, <1>7, <2>3
  <2>4. QED  BY <2>1, <2>2, <2>3
<1>8. ASSUME Base * d <= n PROVE Adaptive!AtMost(<<Base, 1>>, c)
  <2>1. CASE n <= Lowest * d
    <3>1. Base * d <= Lowest * d  BY <1>2, <1>8, <2>1
    <3>2. Base <= Lowest  BY <1>1, <3>1, ProductCancel
    <3>3. QED  BY <1>1, <1>5, <1>6, <2>1, <3>2
  <2>2. CASE ~(n <= Lowest * d) /\ Highest * d <= n  BY <1>1, <1>5, <1>6, <2>2
  <2>3. CASE ~(n <= Lowest * d) /\ ~(Highest * d <= n)
    BY <1>5, <1>6, <1>8, <2>3
  <2>4. QED  BY <2>1, <2>2, <2>3
<1>9. QED  BY <1>7, <1>8 DEF c

\* The product of two positive numbers is one.
LEMMA PositiveProduct ==
  ASSUME NEW a \in Nat \ {0}, NEW b \in Nat \ {0}
  PROVE  a * b \in Nat \ {0}
<1>1. a * b \in Int  OBVIOUS
<1>2. 1 * b <= a * b  BY ProductOrder
<1>3. QED  BY <1>1, <1>2

\* The fraction the aggressiveness is clamped from: the base, less for variance
\* and volatility, and the boost d / b of a drift.
LEMMA AggressivenessOrder ==
  ASSUME NEW x \in Nat \ {0}, NEW spread \in Nat, NEW y \in Nat \ {0}, NEW shake \in Nat,
         NEW d \in Int, NEW b \in Nat \ {0}
  PROVE  LET f == Adaptive!Plus(
                    Adaptive!Times(Adaptive!Times(<<Base, 1>>, <<x, x + spread>>), <<y, y + shake>>),
                    <<d, b>>) IN
         /\ d <= 0 => Adaptive!AtMost(Adaptive!Clamped(f), <<Base, 1>>)
         /\ d >= 0 /\ spread = 0 /\ shake = 0 =>
              Adaptive!AtMost(<<Base, 1>>, Adaptive!Clamped(f))
<1> DEFINE num == (Base * x) * y
           den == (x + spread) * (y + shake)
           f == <<num * b + d * den, den * b>>
<1>1. Base \in Nat  BY EngineAssumption
<1>2. Adaptive!Plus(
        Adaptive!Times(Adaptive!Times(<<Base, 1>>, <<x, x + spread>>), <<y, y + shake>>),
        <<d, b>>) = f
  <2>1. 1 * (x + spread) = x + spread  OBVIOUS
  <2>2. Adaptive!Times(<<Base, 1>>, <<x, x + spread>>) = <<Base * x, x + spread>>
    BY <2>1 DEF Adaptive!Times
  <2>3. Adaptive!Times(<<Base * x, x + spread>>, <<y, y + shake>>) = <<num, den>>
    BY DEF Adaptive!Times
  <2> HIDE DEF num, den
  <2>4. Adaptive!Plus(<<num, den>>, <<d, b>>) = f  BY DEF Adaptive!Plus
  <2>5. QED  BY <2>2, <2>3, <2>4
<1>3. x + spread \in Nat \ {0} /\ y + shake \in Nat \ {0}  OBVIOUS
<1>4. den \in Nat \ {0}  BY <1>3, PositiveProduct
<1>5. Base * x \in Nat  BY <1>1
<1>6. num \in Int
  <2> DEFINE z == Base * x
  <2>1. z \in Nat  BY <1>5
  <2> HIDE DEF z
  <2>2. z * y \in Int  BY <2>1
  <2>3. QED  BY <2>2 DEF z
<1>7. num <= Base * den
  <2>1. x * y <= den
    <3>1. x * y <= (x + spread) * y  BY <1>3, ProductOrder
    <3>2. y * (x + spread) <= (y + shake) * (x + spread)  BY <1>3, ProductOrder
    <3>3. /\ y * (x + spread) = (x + spread) * y
          /\ (y + shake) * (x + spread) = (x + spread) * (y + shake)
      OBVIOUS
    <3>4. x * y \in Int /\ (x + spread) * y \in Int /\ den \in Int  BY <1>4
    <3> DEFINE p == x * y
               q == (x + spread) * y
    <3>5. p <= q /\ q <= den /\ p \in Int /\ q \in Int  BY <3>1, <3>2, <3>3, <3>4
    <3> HIDE DEF p, q, den
    <3>6. p <= den  BY <1>4, <3>5
    <3>7. QED  BY <3>6 DEF p
  <2> DEFINE p == x * y
  <2>2. p \in Int  OBVIOUS
  <2>3. num = p * Base  BY <1>1
  <2> HIDE DEF p, num, den
  <2>4. p <= den  BY <2>1 DEF p
  <2>5. p * Base <= den * Base  BY <1>1, <1>4, <2>2, <2>4, ProductOrder
  <2>6. den * Base = Base * den  BY <1>1, <1>4
  <2>7. QED  BY <2>3, <2>5, <2>6
<1>8. spread = 0 /\ shake = 0 => num = Base * den
  <2>1. ASSUME spread = 0, shake = 0 PROVE num = Base * den
    <3>1. den = x * y  BY <2>1
    <3>2. (Base * x) * y = Base * (x * y)  BY <1>1
    <3>3. QED  BY <3>1, <3>2
  <2>2. QED  BY <2>1
<1> HIDE DEF num, den
<1> DEFINE boosted == num * b
           drift == d * den
           under == den * b
           ceiling == Base * under
<1>9. /\ boosted \in Int /\ drift \in Int /\ under \in Nat \ {0} /\ ceiling \in Int
  <2>1. boosted \in Int  BY <1>6
  <2>2. drift \in Int  BY <1>4
  <2>3. under \in Nat \ {0}  BY <1>4, PositiveProduct
  <2> HIDE DEF under
  <2>4. ceiling \in Int  BY <1>1, <2>3
  <2>5. QED  BY <2>1, <2>2, <2>3, <2>4
<1>10. boosted <= ceiling
  <2>1. Base * den \in Int  BY <1>1, <1>4
  <2>2. num * b <= (Base * den) * b  BY <1>6, <1>7, <2>1, ProductOrder
  <2>3. (Base * den) * b = Base * (den * b)  BY <1>1, <1>4
  <2>4. QED  BY <2>2, <2>3
<1>11. spread = 0 /\ shake = 0 => boosted = ceiling
  <2>1. ASSUME num = Base * den PROVE boosted = ceiling
    <3>1. (Base * den) * b = Base * (den * b)  BY <1>1, <1>4
    <3>2. QED  BY <2>1, <3>1
  <2>2. QED  BY <1>8, <2>1
<1>12. (d <= 0 => drift <= 0) /\ (d >= 0 => drift >= 0)
  <2>1. ASSUME d <= 0 PROVE drift <= 0
    <3>1. d * den <= 0 * den  BY <1>4, <2>1, ProductOrder
    <3>2. 0 * den = 0  BY <1>4
    <3>3. QED  BY <3>1, <3>2
  <2>2. ASSUME d >= 0 PROVE drift >= 0
    <3>1. 0 * den <= d * den  BY <1>4, <2>2, ProductOrder
    <3>2. 0 * den = 0  BY <1>4
    <3>3. QED  BY <3>1, <3>2
  <2>3. QED  BY <2>1, <2>2
<1>13. f = <<boosted + drift, under>>  OBVIOUS
<1> HIDE DEF f, boosted, drift, under
<1> DEFINE n == boosted + drift
<1>14. /\ n \in Int
       /\ d <= 0 => n <= ceiling
       /\ d >= 0 /\ spread = 0 /\ shake = 0 => ceiling <= n
  <2> HIDE DEF ceiling
  <2>1. QED  BY <1>9, <1>10, <1>11, <1>12
<1> HIDE DEF n
<1>15. /\ n <= Base * under => Adaptive!AtMost(Adaptive!Clamped(<<n, under>>), <<Base, 1>>)
       /\ Base * under <= n => Adaptive!AtMost(<<Base, 1>>, Adaptive!Clamped(<<n, under>>))
  BY <1>9, <1>14, ClampedKeepsOrder
<1>16. QED  BY <1>2, <1>13, <1>14, <1>15 DEF n

\* The fraction the risk limit is clamped from.
LEMMA RiskOrder ==
  ASSUME NEW y \in Nat \ {0}, NEW shake \in Nat,
         NEW d \in Int, NEW b \in Nat \ {0}, -b <= d
  PROVE  LET f == Adaptive!Times(
                    Adaptive!Times(<<Base, 1>>, Adaptive!Plus(<<1, 1>>, <<d, b>>)),
                    <<y, y + shake>>) IN
         /\ d <= 0 => Adaptive!AtMost(Adaptive!Clamped(f), <<Base, 1>>)
         /\ d >= 0 /\ shake = 0 => Adaptive!AtMost(<<Base, 1>>, Adaptive!Clamped(f))
<1> DEFINE top == (Base * (b + d)) * y
           under == b * (y + shake)
           f == <<top, under>>
<1>1. Base \in Nat  BY EngineAssumption
<1>2. Adaptive!Times(Adaptive!Times(<<Base, 1>>, Adaptive!Plus(<<1, 1>>, <<d, b>>)),
                     <<y, y + shake>>) = f
  <2>1. 1 * b = b /\ d * 1 = d  OBVIOUS
  <2>2. Adaptive!Plus(<<1, 1>>, <<d, b>>) = <<b + d, b>>  BY <2>1 DEF Adaptive!Plus
  <2>3. Adaptive!Times(<<Base, 1>>, <<b + d, b>>) = <<Base * (b + d), b>>
    BY <2>1 DEF Adaptive!Times
  <2>4. Adaptive!Times(<<Base * (b + d), b>>, <<y, y + shake>>) = f
    BY DEF Adaptive!Times
  <2> HIDE DEF f
  <2>5. QED  BY <2>2, <2>3, <2>4
<1>3. b + d \in Nat /\ y + shake \in Nat \ {0}  OBVIOUS
<1>4. under \in Nat \ {0}  BY <1>3, PositiveProduct
<1> DEFINE p == (b + d) * y
<1>5. p \in Int /\ top = p * Base /\ top \in Int
  <2> DEFINE z == b + d
  <2>1. z \in Nat  BY <1>3
  <2> HIDE DEF z
  <2>2. z * y \in Int  BY <2>1
  <2>3. (Base * z) * y = (z * y) * Base  BY <1>1, <2>1
  <2> DEFINE q == z * y
  <2> HIDE DEF q
  <2>4. q \in Int  BY <2>2 DEF q
  <2>5. q * Base \in Int  BY <1>1, <2>4
  <2>6. (Base * z) * y = q * Base  BY <2>3 DEF q
  <2>7. p = q  BY DEF q, z
  <2>8. QED  BY <2>4, <2>5, <2>6, <2>7 DEF z
<1>6. d <= 0 => p <= under
  <2>1. ASSUME d <= 0 PROVE p <= under
    <3>1. (b + d) * y <= b * y
      <4>1. b + d <= b /\ b + d \in Int /\ b \in Int /\ y \in Nat  BY <2>1
      <4>2. QED  BY <4>1, ProductOrder
    <3>2. y * b <= (y + shake) * b
      <4>1. y <= y + shake /\ y \in Int /\ y + shake \in Int /\ b \in Nat  OBVIOUS
      <4>2. QED  BY <4>1, ProductOrder
    <3>3. y * b = b * y /\ (y + shake) * b = under  OBVIOUS
    <3> DEFINE q == b * y
    <3>4. q \in Int /\ p <= q /\ q <= under  BY <3>1, <3>2, <3>3
    <3> HIDE DEF q, p, under
    <3>5. QED  BY <1>4, <1>5, <3>4
  <2>2. QED  BY <2>1
<1>7. d >= 0 /\ shake = 0 => under <= p
  <2>1. ASSUME d >= 0, shake = 0 PROVE under <= p
    <3>1. b * y <= (b + d) * y
      <4>1. b <= b + d /\ b + d \in Int /\ b \in Int /\ y \in Nat  BY <2>1
      <4>2. QED  BY <4>1, ProductOrder
    <3>2. under = b * y  BY <2>1
    <3>3. QED  BY <3>1, <3>2
  <2>2. QED  BY <2>1
<1> HIDE DEF p, under, top
<1>8. d <= 0 => top <= Base * under
  <2>1. ASSUME p <= under PROVE top <= Base * under
    <3>1. p * Base <= under * Base  BY <1>1, <1>4, <1>5, <2>1, ProductOrder
    <3>2. under * Base = Base * under  BY <1>1, <1>4
    <3>3. QED  BY <1>5, <3>1, <3>2
  <2>2. QED  BY <1>6, <2>1
<1>9. d >= 0 /\ shake = 0 => Base * under <= top
  <2>1. ASSUME under <= p PROVE Base * under <= top
    <3>1. under * Base <= p * Base  BY <1>1, <1>4, <1>5, <2>1, ProductOrder
    <3>2. under * Base = Base * under  BY <1>1, <1>4
    <3>3. QED  BY <1>5, <3>1, <3>2
  <2>2. QED  BY <1>7, <2>1
<1>10. /\ top <= Base * under => Adaptive!AtMost(Adaptive!Clamped(<<top, under>>), <<Base, 1>>)
       /\ Base * under <= top => Adaptive!AtMost(<<Base, 1>>, Adaptive!Clamped(<<top, under>>))
  BY <1>4, <1>5, ClampedKeepsOrder
<1>11. QED  BY <1>2, <1>8, <1>9, <1>10

-----------------------------------------------------------------------------
(* The engine *)

Observed(kind) ==
  [k \in 1..Len(inputs) |-> CASE kind = "latency" -> inputs[k].latency
                              [] kind = "pnl" -> inputs[k].pnl
                              [] OTHER -> inputs[k].volatility]

AdaptiveInv ==
  /\ inputs \in Seq(EngineInput)
  /\ WindowOver(latency, Observed("latency"))
  /\ WindowOver(pnl, Observed("pnl"))
  /\ WindowOver(volatility, Observed("volatility"))
  /\ Adaptive!ControlsFollowConditions

\* The columns of the inputs.
LEMMA ObservedIs ==
  ASSUME inputs \in Seq(EngineInput)
  PROVE  /\ Observed("latency") \in Seq(Int) /\ Len(Observed("latency")) = Len(inputs)
         /\ Observed("pnl") \in Seq(Int) /\ Len(Observed("pnl")) = Len(inputs)
         /\ Observed("volatility") \in Seq(Nat) /\ Len(Observed("volatility")) = Len(inputs)
         /\ Adaptive!ObservedLatency = Observed("latency")
         /\ Adaptive!ObservedPnl = Observed("pnl")
         /\ Adaptive!ObservedVolatility = Observed("volatility")
<1> DEFINE n == Len(inputs)
<1>1. n \in Nat /\ DOMAIN inputs = 1..n  OBVIOUS
<1>2. \A k \in 1..n : /\ inputs[k].latency \in Int /\ inputs[k].pnl \in Int
                      /\ inputs[k].volatility \in Nat
  <2>1. \A k \in 1..n : inputs[k] \in EngineInput  OBVIOUS
  <2>2. QED  BY <2>1 DEF EngineInput
<1>3. /\ Observed("latency") = [k \in 1..n |-> inputs[k].latency]
      /\ Observed("pnl") = [k \in 1..n |-> inputs[k].pnl]
      /\ Observed("volatility") = [k \in 1..n |-> inputs[k].volatility]
  BY DEF Observed
<1>4. /\ Adaptive!ObservedLatency = Observed("latency")
      /\ Adaptive!ObservedPnl = Observed("pnl")
      /\ Adaptive!ObservedVolatility = Observed("volatility")
  BY <1>1, <1>3 DEF Adaptive!ObservedLatency, Adaptive!ObservedPnl, Adaptive!ObservedVolatility
<1> HIDE DEF n
<1>5. Observed("latency") \in Seq(Int) /\ Len(Observed("latency")) = n  BY <1>1, <1>2, <1>3
<1>6. Observed("pnl") \in Seq(Int) /\ Len(Observed("pnl")) = n  BY <1>1, <1>2, <1>3
<1>7. Observed("volatility") \in Seq(Nat) /\ Len(Observed("volatility")) = n
  BY <1>1, <1>2, <1>3
<1>8. QED  BY <1>4, <1>5, <1>6, <1>7 DEF n

\* One more input adds to every column.
LEMMA ObservedGrows ==
  ASSUME inputs \in Seq(EngineInput), NEW r \in EngineInput, inputs' = Append(inputs, r)
  PROVE  /\ inputs' \in Seq(EngineInput) /\ inputs' # <<>>
         /\ Observed("latency")' = Append(Observed("latency"), r.latency)
         /\ Observed("pnl")' = Append(Observed("pnl"), r.pnl)
         /\ Observed("volatility")' = Append(Observed("volatility"), r.volatility)
<1> DEFINE n == Len(inputs)
<1>1. /\ n \in Nat /\ inputs' \in Seq(EngineInput) /\ Len(inputs') = n + 1
      /\ inputs'[n + 1] = r /\ \A k \in 1..n : inputs'[k] = inputs[k]
  OBVIOUS
<1>2. r.latency \in Int /\ r.pnl \in Int /\ r.volatility \in Nat  BY DEF EngineInput
<1>3. /\ \A k \in 1..(n + 1) : /\ Observed("latency")'[k] = inputs'[k].latency
                              /\ Observed("pnl")'[k] = inputs'[k].pnl
                              /\ Observed("volatility")'[k] = inputs'[k].volatility
      /\ \A k \in 1..n : /\ Observed("latency")[k] = inputs[k].latency
                         /\ Observed("pnl")[k] = inputs[k].pnl
                         /\ Observed("volatility")[k] = inputs[k].volatility
  BY <1>1 DEF Observed
<1>4. /\ Observed("latency") \in Seq(Int) /\ Len(Observed("latency")) = n
      /\ Observed("pnl") \in Seq(Int) /\ Len(Observed("pnl")) = n
      /\ Observed("volatility") \in Seq(Nat) /\ Len(Observed("volatility")) = n
  BY ObservedIs
<1>5. /\ Observed("latency")' \in Seq(Int) /\ Len(Observed("latency")') = n + 1
      /\ Observed("pnl")' \in Seq(Int) /\ Len(Observed("pnl")') = n + 1
      /\ Observed("volatility")' \in Seq(Nat) /\ Len(Observed("volatility")') = n + 1
  <2>1. \A k \in 1..(n + 1) : inputs'[k] \in EngineInput  BY <1>1
  <2>2. \A k \in 1..(n + 1) : /\ inputs'[k].latency \in Int /\ inputs'[k].pnl \in Int
                              /\ inputs'[k].volatility \in Nat
    BY <2>1 DEF EngineInput
  <2>3. /\ Observed("latency")' = [k \in 1..(n + 1) |-> inputs'[k].latency]
        /\ Observed("pnl")' = [k \in 1..(n + 1) |-> inputs'[k].pnl]
        /\ Observed("volatility")' = [k \in 1..(n + 1) |-> inputs'[k].volatility]
    BY <1>1 DEF Observed
  <2> HIDE DEF n
  <2>4. Observed("latency")' \in Seq(Int) /\ Len(Observed("latency")') = n + 1
    <3> DEFINE q == Observed("latency")'
    <3>1. q = [k \in 1..(n + 1) |-> q[k]] /\ \A k \in 1..(n + 1) : q[k] \in Int
      BY <2>2, <2>3
    <3>2. n + 1 \in Nat  BY <1>1
    <3> DEFINE m == n + 1
    <3> HIDE DEF q, m
    <3>3. q \in Seq(Int) /\ Len(q) = m
      <4>1. q = [k \in 1..m |-> q[k]] /\ (\A k \in 1..m : q[k] \in Int) /\ m \in Nat
        BY <3>1, <3>2 DEF m
      <4>2. QED  BY <4>1
    <3>4. QED  BY <3>3 DEF q, m
  <2>5. Observed("pnl")' \in Seq(Int) /\ Len(Observed("pnl")') = n + 1
    <3> DEFINE q == Observed("pnl")'
    <3>1. q = [k \in 1..(n + 1) |-> q[k]] /\ \A k \in 1..(n + 1) : q[k] \in Int
      BY <2>2, <2>3
    <3>2. n + 1 \in Nat  BY <1>1
    <3> DEFINE m == n + 1
    <3> HIDE DEF q, m
    <3>3. q \in Seq(Int) /\ Len(q) = m
      <4>1. q = [k \in 1..m |-> q[k]] /\ (\A k \in 1..m : q[k] \in Int) /\ m \in Nat
        BY <3>1, <3>2 DEF m
      <4>2. QED  BY <4>1
    <3>4. QED  BY <3>3 DEF q, m
  <2>6. Observed("volatility")' \in Seq(Nat) /\ Len(Observed("volatility")') = n + 1
    <3> DEFINE q == Observed("volatility")'
    <3>1. q = [k \in 1..(n + 1) |-> q[k]] /\ \A k \in 1..(n + 1) : q[k] \in Nat
      BY <2>2, <2>3
    <3>2. n + 1 \in Nat  BY <1>1
    <3> DEFINE m == n + 1
    <3> HIDE DEF q, m
    <3>3. q \in Seq(Nat) /\ Len(q) = m
      <4>1. q = [k \in 1..m |-> q[k]] /\ (\A k \in 1..m : q[k] \in Nat) /\ m \in Nat
        BY <3>1, <3>2 DEF m
      <4>2. QED  BY <4>1
    <3>4. QED  BY <3>3 DEF q, m
  <2>7. QED  BY <2>4, <2>5, <2>6
<1> HIDE DEF n
<1>6. n + 1 \in 1..(n + 1) /\ \A k \in 1..n : k \in 1..(n + 1)  BY <1>1
<1>7. Observed("latency")' = Append(Observed("latency"), r.latency)
  <2>1. Observed("latency")'[n + 1] = r.latency  BY <1>1, <1>3, <1>6
  <2>2. \A k \in 1..n : Observed("latency")'[k] = Observed("latency")[k]
    BY <1>1, <1>3, <1>6
  <2> DEFINE a == Observed("latency")
             b == Observed("latency")'
             e == r.latency
  <2>3. /\ a \in Seq(Int) /\ b \in Seq(Int) /\ Len(b) = Len(a) + 1 /\ b[Len(a) + 1] = e
        /\ \A k \in 1..Len(a) : b[k] = a[k]
    BY <1>4, <1>5, <2>1, <2>2
  <2>4. e \in Int  BY <1>2
  <2> HIDE DEF a, b, e
  <2>5. b = Append(a, e)  BY <2>3, <2>4, AppendIs
  <2>6. QED  BY <2>5 DEF a, b, e
<1>8. Observed("pnl")' = Append(Observed("pnl"), r.pnl)
  <2>1. Observed("pnl")'[n + 1] = r.pnl  BY <1>1, <1>3, <1>6
  <2>2. \A k \in 1..n : Observed("pnl")'[k] = Observed("pnl")[k]
    BY <1>1, <1>3, <1>6
  <2> DEFINE a == Observed("pnl")
             b == Observed("pnl")'
             e == r.pnl
  <2>3. /\ a \in Seq(Int) /\ b \in Seq(Int) /\ Len(b) = Len(a) + 1 /\ b[Len(a) + 1] = e
        /\ \A k \in 1..Len(a) : b[k] = a[k]
    BY <1>4, <1>5, <2>1, <2>2
  <2>4. e \in Int  BY <1>2
  <2> HIDE DEF a, b, e
  <2>5. b = Append(a, e)  BY <2>3, <2>4, AppendIs
  <2>6. QED  BY <2>5 DEF a, b, e
<1>9. Observed("volatility")' = Append(Observed("volatility"), r.volatility)
  <2>1. Observed("volatility")'[n + 1] = r.volatility  BY <1>1, <1>3, <1>6
  <2>2. \A k \in 1..n : Observed("volatility")'[k] = Observed("volatility")[k]
    BY <1>1, <1>3, <1>6
  <2> DEFINE a == Observed("volatility")
             b == Observed("volatility")'
             e == r.volatility
  <2>3. /\ a \in Seq(Nat) /\ b \in Seq(Nat) /\ Len(b) = Len(a) + 1 /\ b[Len(a) + 1] = e
        /\ \A k \in 1..Len(a) : b[k] = a[k]
    BY <1>4, <1>5, <2>1, <2>2
  <2>4. e \in Nat  BY <1>2
  <2> HIDE DEF a, b, e
  <2>5. b = Append(a, e)  BY <2>3, <2>4, AppendIs
  <2>6. QED  BY <2>5 DEF a, b, e
<1>10. inputs' # <<>>
  <2>1. Len(inputs') # 0  BY <1>1
  <2>2. QED  BY <2>1
<1>11. QED  BY <1>1, <1>7, <1>8, <1>9, <1>10

\* Nothing has been executed.
LEMMA AdaptiveStarts ==
  ASSUME Adaptive!Init
  PROVE  AdaptiveInv
<1>1. /\ inputs = <<>>
      /\ \A w \in {latency, pnl, volatility} : w.values = <<>> /\ w.sum = 0 /\ w.sumsq = 0
  BY DEF Adaptive!Init, Adaptive!Empty
<1>2. inputs \in Seq(EngineInput) /\ Len(inputs) = 0  BY <1>1
<1>3. \A kind : Observed(kind) = <<>>  BY <1>2 DEF Observed
<1>4. Latest(<<>>, EngineWindow) = <<>>
  <2>1. EngineWindow \in Nat /\ 0 < EngineWindow /\ Len(<<>>) = 0  BY EngineAssumption
  <2>2. QED  BY <2>1 DEF Latest
<1>5. Total(<<>>) = 0  BY TotalEmpty
<1>6. Squares(<<>>) = <<>>  BY DEF Squares
<1>7. \A w \in {latency, pnl, volatility} : WindowOver(w, <<>>)
  BY <1>1, <1>4, <1>5, <1>6 DEF WindowOver
<1>8. Adaptive!ControlsFollowConditions  BY <1>1 DEF Adaptive!ControlsFollowConditions
<1>9. QED  BY <1>2, <1>3, <1>7, <1>8 DEF AdaptiveInv

\* A window's count, and its drift.
LEMMA DriftIs ==
  ASSUME NEW s \in Seq(Int), s # <<>>, NEW w, WindowOver(w, s)
  PROVE  LET n == Len(w.values)
             d == Adaptive!Drift(w)
             b == Scale * Adaptive!Max({1, Adaptive!Count(w) - 1}) + Adaptive!Magnitude(d) IN
         /\ n \in Nat \ {0} /\ d \in Int
         /\ d > 0 => w.values[n] > w.values[1]
         /\ d < 0 => w.values[n] < w.values[1]
         /\ b \in Nat \ {0} /\ -b <= d
<1> DEFINE n == Len(w.values)
           d == Adaptive!Drift(w)
           first == w.values[1]
           last == w.values[n]
           size == Max({1, n - 1})
           b == Scale * size + Adaptive!Magnitude(d)
<1>1. w.values \in Seq(Int) /\ n \in Nat /\ n >= 1  BY WindowHolds
<1>2. first \in Int /\ last \in Int
  <2>1. 1 \in 1..n /\ n \in 1..n  BY <1>1
  <2>2. QED  BY <1>1, <2>1
<1>3. d = IF n < 2 THEN 0 ELSE last - first
  BY DEF Adaptive!Drift, Adaptive!Count
<1> HIDE DEF d, first, last
<1>4. d \in Int /\ (d > 0 => last > first) /\ (d < 0 => last < first)
  BY <1>1, <1>2, <1>3
<1> HIDE DEF n
<1>5. size \in Nat \ {0}
  <2>1. 1 \in Int /\ n - 1 \in Int  BY <1>1
  <2>2. size = IF 1 >= n - 1 THEN 1 ELSE n - 1  BY <2>1, TheLarger
  <2> HIDE DEF size
  <2>3. QED  BY <1>1, <2>2
<1>6. Scale * size \in Nat \ {0}
  <2>1. Scale \in Nat \ {0}  BY EngineAssumption
  <2> HIDE DEF size
  <2>2. QED  BY <1>5, <2>1, PositiveProduct
<1>7. b \in Nat \ {0} /\ -b <= d
  <2> DEFINE unit == Scale * size
  <2>1. unit \in Nat \ {0}  BY <1>6
  <2> HIDE DEF unit
  <2>2. Adaptive!Magnitude(d) = IF d < 0 THEN -d ELSE d  BY DEF Adaptive!Magnitude
  <2>3. unit + Adaptive!Magnitude(d) \in Nat \ {0} /\ -(unit + Adaptive!Magnitude(d)) <= d
    BY <1>4, <2>1, <2>2
  <2>4. QED  BY <2>3 DEF unit
<1>8. b = Scale * Adaptive!Max({1, Adaptive!Count(w) - 1}) + Adaptive!Magnitude(d)
  BY InAdaptive DEF Adaptive!Count, n
<1>9. QED  BY <1>1, <1>4, <1>7, <1>8 DEF n, d, first, last

\* An execution: windows first, then the controls from them.
LEMMA ExecuteKeeps ==
  ASSUME AdaptiveInv, NEW l \in Latencies, NEW p \in PnlDeltas, NEW v \in Volatilities,
         Adaptive!Execute(l, p, v)
  PROVE  AdaptiveInv'
<1> DEFINE r == [latency |-> l, pnl |-> p, volatility |-> v]
           lat == Adaptive!Add(latency, l)
           gain == Adaptive!Add(pnl, p)
           vol == Adaptive!Add(volatility, v)
<1>1. l \in Int /\ p \in Int /\ v \in Nat /\ v \in Int  BY EngineAssumption
<1>2. r \in EngineInput /\ r.latency = l /\ r.pnl = p /\ r.volatility = v
  BY <1>1 DEF EngineInput
<1>3. inputs \in Seq(EngineInput)  BY DEF AdaptiveInv
<1>4. /\ inputs' = Append(inputs, r)
      /\ latency' = lat /\ pnl' = gain /\ volatility' = vol
  BY DEF Adaptive!Execute
<1> DEFINE steady == Adaptive!Calm(Adaptive!Variance(lat), Adaptive!Count(lat) * Adaptive!Count(lat))
           quiet == Adaptive!Calm(vol.sum, Adaptive!Count(vol))
           boost == Adaptive!Boost(gain)
<1>5. /\ aggressiveness' =
           Adaptive!Clamped(Adaptive!Plus(
             Adaptive!Times(Adaptive!Times(<<Base, 1>>, steady), quiet), boost))
      /\ risk' =
           Adaptive!Clamped(Adaptive!Times(
             Adaptive!Times(<<Base, 1>>, Adaptive!Plus(<<1, 1>>, boost)), quiet))
  BY DEF Adaptive!Execute
<1> HIDE DEF r, lat, gain, vol
<1>6. /\ inputs' \in Seq(EngineInput) /\ inputs' # <<>>
      /\ Observed("latency")' = Append(Observed("latency"), l)
      /\ Observed("pnl")' = Append(Observed("pnl"), p)
      /\ Observed("volatility")' = Append(Observed("volatility"), v)
  BY <1>2, <1>3, <1>4, ObservedGrows
<1>7. /\ Observed("latency") \in Seq(Int) /\ Observed("pnl") \in Seq(Int)
      /\ Observed("volatility") \in Seq(Nat) /\ Observed("volatility") \in Seq(Int)
  BY <1>3, ObservedIs
<1>8. /\ WindowOver(latency', Observed("latency")')
      /\ WindowOver(pnl', Observed("pnl")')
      /\ WindowOver(volatility', Observed("volatility")')
  <2>1. /\ WindowOver(latency, Observed("latency"))
        /\ WindowOver(pnl, Observed("pnl"))
        /\ WindowOver(volatility, Observed("volatility"))
    BY DEF AdaptiveInv
  <2>2. WindowOver(lat, Append(Observed("latency"), l))
    BY <1>1, <1>7, <2>1, AddFollows DEF lat
  <2>3. WindowOver(gain, Append(Observed("pnl"), p))
    BY <1>1, <1>7, <2>1, AddFollows DEF gain
  <2>4. WindowOver(vol, Append(Observed("volatility"), v))
    BY <1>1, <1>7, <2>1, AddFollows DEF vol
  <2>5. QED  BY <1>4, <1>6, <2>2, <2>3, <2>4
<1>9. /\ Observed("latency")' \in Seq(Int) /\ Observed("latency")' # <<>>
      /\ Observed("pnl")' \in Seq(Int) /\ Observed("pnl")' # <<>>
      /\ Observed("volatility")' \in Seq(Nat) /\ Observed("volatility")' \in Seq(Int)
      /\ Observed("volatility")' # <<>>
  <2>1. ASSUME NEW S, NEW s \in Seq(S), NEW e \in S
        PROVE  Append(s, e) \in Seq(S) /\ Append(s, e) # <<>>
    <3>1. Append(s, e) \in Seq(S) /\ Len(Append(s, e)) = Len(s) + 1 /\ Len(s) \in Nat
      OBVIOUS
    <3>2. Len(Append(s, e)) # 0  BY <3>1
    <3>3. QED  BY <3>1, <3>2
  <2>2. Observed("latency")' \in Seq(Int) /\ Observed("latency")' # <<>>
    BY <1>1, <1>6, <1>7, <2>1
  <2>3. Observed("pnl")' \in Seq(Int) /\ Observed("pnl")' # <<>>
    BY <1>1, <1>6, <1>7, <2>1
  <2>4. Observed("volatility")' \in Seq(Nat) /\ Observed("volatility")' # <<>>
    BY <1>1, <1>6, <1>7, <2>1
  <2>5. Observed("volatility")' \in Seq(Int)  BY <1>1, <1>6, <1>7, <2>1
  <2>6. QED  BY <2>2, <2>3, <2>4, <2>5
<1>10. Adaptive!ControlsFollowConditions'
  <2> DEFINE n == Len(latency'.values)
             c == Len(volatility'.values)
             spread == Adaptive!Variance(lat)
             shake == volatility'.sum
             d == Adaptive!Drift(gain)
             b == Scale * Adaptive!Max({1, Adaptive!Count(gain) - 1}) + Adaptive!Magnitude(d)
             x == Scale * (n * n)
             y == Scale * c
             even == \A k \in DOMAIN latency'.values : latency'.values[k] = latency'.values[1]
  <2>1. Scale \in Nat \ {0}  BY EngineAssumption
  <2>2. n \in Nat \ {0} /\ DOMAIN latency'.values = 1..n
    <3>1. latency'.values \in Seq(Int) /\ n \in Nat /\ n >= 1  BY <1>8, <1>9, WindowHolds
    <3>2. QED  BY <3>1
  <2>3. c \in Nat \ {0}
    <3>1. c \in Nat /\ c >= 1  BY <1>8, <1>9, WindowHolds
    <3>2. QED  BY <3>1
  <2>4. spread \in Nat /\ (even => spread = 0)
    <3>1. WindowOver(lat, Observed("latency")')  BY <1>4, <1>8
    <3>2. /\ spread \in Nat
          /\ (\A k \in 1..Len(lat.values) : lat.values[k] = lat.values[1]) => spread = 0
      BY <1>9, <3>1, VarianceIs
    <3>3. QED  BY <1>4, <2>2, <3>2
  <2>5. shake \in Nat
    <3> DEFINE s == Observed("volatility")'
               w == volatility'
    <3>1. EngineWindow \in Nat /\ s \in Seq(Nat)  BY <1>9, EngineAssumption
    <3> HIDE DEF s, w
    <3>2. Latest(s, EngineWindow) \in Seq(Nat)  BY <3>1, LatestIs
    <3>3. w.sum = Total(w.values) /\ w.values = Latest(s, EngineWindow)
      BY <1>8 DEF WindowOver, s, w
    <3>4. w.sum \in Nat  BY <3>2, <3>3, TotalAtLeastZero
    <3>5. QED  BY <3>4 DEF w
  <2>6. /\ d \in Int /\ b \in Nat \ {0} /\ -b <= d
        /\ d > 0 => gain.values[Len(gain.values)] > gain.values[1]
        /\ d < 0 => gain.values[Len(gain.values)] < gain.values[1]
    <3>1. WindowOver(gain, Observed("pnl")')  BY <1>4, <1>8
    <3>2. QED  BY <1>9, <3>1, DriftIs
  <2>7. x \in Nat \ {0} /\ y \in Nat \ {0}
    <3> HIDE DEF n, c
    <3>1. n * n \in Nat \ {0}  BY <2>2, PositiveProduct
    <3> DEFINE nn == n * n
    <3>2. nn \in Nat \ {0}  BY <3>1
    <3> HIDE DEF nn
    <3>3. Scale * nn \in Nat \ {0}  BY <2>1, <3>2, PositiveProduct
    <3>4. Scale * c \in Nat \ {0}  BY <2>1, <2>3, PositiveProduct
    <3>5. QED  BY <3>3, <3>4 DEF nn
  <2>8. steady = <<x, x + spread>> /\ quiet = <<y, y + shake>> /\ boost = <<d, b>>
    <3>1. Adaptive!Count(lat) = n /\ Adaptive!Count(vol) = c /\ vol.sum = shake
      BY <1>4 DEF Adaptive!Count
    <3>2. steady = <<x, x + spread>>  BY <3>1 DEF Adaptive!Calm
    <3>3. quiet = <<y, y + shake>>  BY <3>1 DEF Adaptive!Calm
    <3>4. boost = <<d, b>>  BY DEF Adaptive!Boost
    <3>5. QED  BY <3>2, <3>3, <3>4
  <2> HIDE DEF x, y, spread, shake, d, b, steady, quiet, boost
  <2>9. /\ d <= 0 => Adaptive!AtMost(aggressiveness', <<Base, 1>>)
        /\ d >= 0 /\ spread = 0 /\ shake = 0 => Adaptive!AtMost(<<Base, 1>>, aggressiveness')
    BY <1>5, <2>4, <2>5, <2>6, <2>7, <2>8, AggressivenessOrder
  <2>10. /\ d <= 0 => Adaptive!AtMost(risk', <<Base, 1>>)
         /\ d >= 0 /\ shake = 0 => Adaptive!AtMost(<<Base, 1>>, risk')
    BY <1>5, <2>5, <2>6, <2>7, <2>8, RiskOrder
  <2> DEFINE latestPnl == Adaptive!Latest(Adaptive!ObservedPnl', EngineWindow)
             favourable == latestPnl[Len(latestPnl)] > latestPnl[1]
             adverse == latestPnl[Len(latestPnl)] < latestPnl[1]
  <2>11. latestPnl = gain.values
    <3>1. Adaptive!ObservedPnl' = Observed("pnl")'
      <4>1. (inputs \in Seq(EngineInput))'  BY <1>6
      <4>2. (Adaptive!ObservedPnl = Observed("pnl"))'  BY <4>1, ObservedIs, PTL
      <4>3. QED  BY <4>2
    <3>2. gain.values = Latest(Observed("pnl")', EngineWindow)
      BY <1>4, <1>8 DEF WindowOver
    <3>3. QED  BY <3>1, <3>2, InAdaptive
  <2>12. (~favourable => d <= 0) /\ (~adverse => d >= 0)
    <3> HIDE DEF latestPnl
    <3>1. QED  BY <2>6, <2>11
  <2> HIDE DEF latestPnl
  <2>13. /\ ~favourable => /\ Adaptive!AtMost(aggressiveness', <<Base, 1>>)
                           /\ Adaptive!AtMost(risk', <<Base, 1>>)
         /\ ~adverse /\ shake = 0 => Adaptive!AtMost(<<Base, 1>>, risk')
         /\ ~adverse /\ shake = 0 /\ even => Adaptive!AtMost(<<Base, 1>>, aggressiveness')
    <3> HIDE DEF favourable, adverse, even
    <3>1. QED  BY <2>4, <2>9, <2>10, <2>12
  <2>14. QED
    BY <2>13 DEF Adaptive!ControlsFollowConditions, Adaptive!AtMost, latestPnl, shake
<1>11. QED  BY <1>6, <1>8, <1>10 DEF AdaptiveInv

\* Every step of the engine.
LEMMA AdaptiveSteps ==
  ASSUME AdaptiveInv, [Adaptive!Next]_adaptiveVars
  PROVE  AdaptiveInv'
<1>1. CASE UNCHANGED adaptiveVars
  <2>1. Adaptive!ControlsFollowConditions'
    BY <1>1 DEF adaptiveVars, AdaptiveInv, Adaptive!ControlsFollowConditions,
                Adaptive!ObservedPnl, Adaptive!AtMost
  <2>2. QED  BY <1>1, <2>1 DEF adaptiveVars, AdaptiveInv, Observed, WindowOver
<1>2. CASE Adaptive!Next  BY <1>2, ExecuteKeeps DEF Adaptive!Next
<1>3. QED  BY <1>1, <1>2

\* The invariant makes the controls justified.
LEMMA AdaptiveSound ==
  ASSUME AdaptiveInv
  PROVE  ControlsAreJustified
<1>1. inputs \in Seq(EngineInput)  BY DEF AdaptiveInv
<1>2. ASSUME NEW w, NEW s \in Seq(Int), WindowOver(w, s)
      PROVE  Adaptive!Holds(w, Adaptive!Latest(s, EngineWindow))
  <2> DEFINE v == Latest(s, EngineWindow)
  <2>1. v \in Seq(Int)
    <3>1. EngineWindow \in Nat  BY EngineAssumption
    <3>2. QED  BY <3>1, LatestIs
  <2>2. w.values = v /\ w.sum = Total(v) /\ w.sumsq = Total(Squares(v))
    BY <1>2 DEF WindowOver
  <2>3. Squares(v) = [k \in DOMAIN v |-> v[k] * v[k]]
    <3>1. DOMAIN v = 1..Len(v)  BY <2>1
    <3> HIDE DEF v
    <3>2. QED  BY <3>1 DEF Squares
  <2> HIDE DEF v
  <2>4. Adaptive!Holds(w, v)  BY <2>2, <2>3, InAdaptive DEF Adaptive!Holds
  <2>5. QED  BY <2>4, InAdaptive DEF v
<1>3. Adaptive!SumsMatchWindows
  <2>1. Observed("volatility") \in Seq(Int)  BY <1>1, ObservedIs
  <2>2. QED
    BY <1>1, <1>2, <2>1, ObservedIs DEF AdaptiveInv, Adaptive!SumsMatchWindows
<1>4. QED  BY <1>3 DEF AdaptiveInv, ControlsAreJustified, Adaptive!ControlsAreJustified

-----------------------------------------------------------------------------
(* The strategy that follows volatility                                      *)

StepRecord == [signal : Regimes, active : Regimes, latency : Int,
               before : Int, executed : Int]

RegimeTypes ==
  /\ idx \in Nat /\ pendingSince \in Nat /\ strategyPosition \in Int
  /\ currentRegime \in Regimes /\ pendingRegime \in Regimes
  /\ adaptationLags \in Seq(Int)
  /\ fills \in Nat /\ filled \in Int
  /\ records \in Seq(StepRecord)

\* The pending regime has been signalled ever since it is pending, and the
\* current one is that of the last step.
SignalsPersist ==
  /\ Len(records) = idx /\ attempts = idx /\ pendingSince <= idx
  /\ \A k \in (pendingSince + 1)..idx : records[k].signal = pendingRegime
  /\ idx > 0 => records[idx].active = currentRegime

\* What RegimeIsConfirmed says of one change.
ChangeIsConfirmed(k) ==
  records[k].active # records[k - 1].active =>
    /\ k > ConfirmationSteps
    /\ \A j \in (k - ConfirmationSteps)..k : records[j].signal = records[k].active
ChangesAreConfirmed ==
  /\ \A k \in 2..Len(records) : ChangeIsConfirmed(k)
  /\ \A k \in 1..Len(adaptationLags) : adaptationLags[k] >= ConfirmationSteps

\* What ExecutionMeetsCap says of one step.
Size(x) == IF x < 0 THEN -x ELSE x
WithinCap(r) ==
  LET cap == RiskCap[r.active] IN
  r.executed # 0 =>
    /\ -cap <= r.before + r.executed /\ r.before + r.executed <= cap
    /\ Size(r.executed) > OrderQty[r.active] => r.before < -cap \/ r.before > cap
CapsHold == \A k \in 1..Len(records) : WithinCap(records[k])

\* The columns of the records.
LatencyColumn == [k \in 1..Len(records) |-> records[k].latency]
ExecutedColumn == [k \in 1..Len(records) |-> records[k].executed]
SizeColumn == [k \in 1..Len(records) |-> Size(records[k].executed)]
FilledSteps == {k \in 1..Len(records) : records[k].executed # 0}

StatsAreTheSteps ==
  /\ latencyStats = Latest(LatencyColumn, Window)
  /\ fills = Cardinality(FilledSteps)
  /\ filled = Total(SizeColumn)
  /\ strategyPosition = Total(ExecutedColumn)

RegimeInv ==
  RegimeTypes /\ SignalsPersist /\ ChangesAreConfirmed /\ CapsHold /\ StatsAreTheSteps

\* The library's operators are the same ones in the instance.
LEMMA InRegime ==
  /\ \A S : Regime!Max(S) = Max(S)
  /\ \A S : Regime!Min(S) = Min(S)
  /\ \A q : Regime!ToSet(q) = ToSet(q)
  /\ \A q : Regime!Last(q) = Last(q)
  /\ \A S : Regime!Cardinality(S) = Cardinality(S)
  /\ \A q, w : Regime!Latest(q, w) = Latest(q, w)
  /\ \A q : Regime!Total(q) = Total(q)
<1>1. \A S : Regime!Max(S) = Max(S)  BY DEF Regime!Max, Max
<1>2. \A S : Regime!Min(S) = Min(S)  BY DEF Regime!Min, Min
<1>3. \A q : Regime!ToSet(q) = ToSet(q)  BY DEF Regime!ToSet, ToSet
<1>4. \A q : Regime!Last(q) = Last(q)  BY DEF Regime!Last, Last
<1>5. \A S : Regime!Cardinality(S) = Cardinality(S)  BY DEF Regime!Cardinality, Cardinality
<1>6. \A q, w : Regime!Latest(q, w) = Latest(q, w)  BY DEF Regime!Latest, Latest
<1>7. \A q : Regime!Total(q) = Total(q)
  BY DEF Regime!Total, Total, Regime!Running, Running
<1>8. QED  BY <1>1, <1>2, <1>3, <1>4, <1>5, <1>6, <1>7

\* What clipping does, for bounds that are in order or not.
LEMMA ClipIs ==
  ASSUME NEW x \in Int, NEW low \in Int, NEW high \in Int
  PROVE  Regime!Clip(x, low, high) =
           LET under == IF x <= high THEN x ELSE high
           IN  IF low >= under THEN low ELSE under
<1> DEFINE under == IF x <= high THEN x ELSE high
<1>1. under \in Int  OBVIOUS
<1>2. Min({x, high}) = under  BY TheSmaller
<1> HIDE DEF under
<1>3. Max({low, under}) = IF low >= under THEN low ELSE under  BY <1>1, TheLarger
<1>4. Regime!Clip(x, low, high) = Max({low, Min({x, high})})
  BY InRegime DEF Regime!Clip
<1>5. QED  BY <1>2, <1>3, <1>4 DEF under

\* No step has been taken.
LEMMA RegimeStarts ==
  ASSUME Regime!Init
  PROVE  RegimeInv
<1>1. /\ idx = 0 /\ strategyPosition = 0 /\ pendingSince = 0
      /\ currentRegime = FirstRegime /\ pendingRegime = FirstRegime
      /\ adaptationLags = <<>> /\ latencyStats = <<>>
      /\ attempts = 0 /\ fills = 0 /\ filled = 0 /\ records = <<>>
  BY DEF Regime!Init
<1>2. RegimeTypes
  <2>1. <<>> \in Seq(Int) /\ <<>> \in Seq(StepRecord)  OBVIOUS
  <2>2. QED  BY <1>1, <2>1, RegimeAssumption DEF RegimeTypes
<1>3. Len(records) = 0 /\ Len(adaptationLags) = 0  BY <1>1
<1>4. SignalsPersist  BY <1>1, <1>3 DEF SignalsPersist
<1>5. ChangesAreConfirmed /\ CapsHold  BY <1>3 DEF ChangesAreConfirmed, CapsHold
<1>6. StatsAreTheSteps
  <2>1. LatencyColumn = <<>> /\ ExecutedColumn = <<>> /\ SizeColumn = <<>> /\ FilledSteps = {}
    BY <1>3 DEF LatencyColumn, ExecutedColumn, SizeColumn, FilledSteps
  <2>2. Latest(<<>>, Window) = <<>>
    <3>1. <<>> \in Seq(Int) /\ Len(<<>>) = 0 /\ Window \in Nat /\ 0 < Window
      BY RegimeAssumption
    <3>2. QED  BY <3>1 DEF Latest
  <2>3. Total(<<>>) = 0 /\ Cardinality({}) = 0  BY TotalEmpty, FS_EmptySet
  <2>4. QED  BY <1>1, <2>1, <2>2, <2>3 DEF StatsAreTheSteps
<1>7. QED  BY <1>2, <1>4, <1>5, <1>6 DEF RegimeInv

\* A step, by what it adds to the records.
LEMMA StepAdds ==
  ASSUME RegimeInv, NEW signal \in Regimes, NEW lag \in StepLatencies, NEW target \in Int,
         Regime!Step(signal, lag, target)
  PROVE  \E r \in StepRecord :
           /\ r.signal = signal /\ r.latency = lag /\ r.before = strategyPosition
           /\ r.active = currentRegime'
           /\ r.executed = 0 \/ r.executed = Regime!Delta(target, r.active)
           /\ records' = Append(records, r)
           /\ strategyPosition' = strategyPosition + r.executed
           /\ fills' = IF r.executed # 0 THEN fills + 1 ELSE fills
           /\ filled' = filled + Size(r.executed)
           /\ latencyStats' = IF Len(Append(latencyStats, lag)) > Window
                              THEN Tail(Append(latencyStats, lag))
                              ELSE Append(latencyStats, lag)
<1> DEFINE active == currentRegime'
           delta == Regime!Delta(target, active)
<1>1. active = IF Regime!Confirmed(signal) THEN signal ELSE currentRegime
  BY DEF Regime!Step
<1>2. active \in Regimes  BY <1>1 DEF RegimeInv, RegimeTypes
<1>3. /\ OrderQty[active] \in Nat /\ RiskCap[active] \in Nat /\ strategyPosition \in Int
      /\ lag \in Int
  BY <1>2, RegimeAssumption DEF RegimeInv, RegimeTypes
<1>4. delta \in Int
  <2> DEFINE q == OrderQty[active]
             cap == RiskCap[active]
             x == Regime!Clip(target - strategyPosition, -q, q)
  <2>1. x \in Int  BY <1>3, ClipIs
  <2>2. delta = Regime!Clip(x, -cap - strategyPosition, cap - strategyPosition)
    BY DEF Regime!Delta, Regime!Capped
  <2> HIDE DEF x, cap, q, delta
  <2>3. cap \in Nat  BY <1>3 DEF cap
  <2>4. QED  BY <1>3, <2>1, <2>2, <2>3, ClipIs
<1>5. PICK executed \in {0, delta} :
        /\ strategyPosition' = strategyPosition + executed
        /\ fills' = IF executed # 0 THEN fills + 1 ELSE fills
        /\ filled' = filled + Regime!Magnitude(executed)
        /\ records' = Append(records, [signal |-> signal, active |-> active,
                        latency |-> lag, before |-> strategyPosition, executed |-> executed])
  BY <1>1 DEF Regime!Step
<1>6. executed \in Int  BY <1>4
<1> DEFINE r == [signal |-> signal, active |-> active, latency |-> lag,
                 before |-> strategyPosition, executed |-> executed]
<1>7. r \in StepRecord  BY <1>2, <1>3, <1>6 DEF StepRecord
<1>8. latencyStats' = IF Len(Append(latencyStats, lag)) > Window
                      THEN Tail(Append(latencyStats, lag))
                      ELSE Append(latencyStats, lag)
  BY DEF Regime!Step, Regime!Trimmed
<1>9. QED  BY <1>5, <1>7, <1>8 DEF Regime!Magnitude, Size

\* A step keeps the types, and what was signalled since a regime is pending.
LEMMA StepKeepsSignals ==
  ASSUME RegimeInv, NEW signal \in Regimes, NEW lag \in StepLatencies, NEW target \in Int,
         Regime!Step(signal, lag, target)
  PROVE  RegimeTypes' /\ SignalsPersist' /\ ChangesAreConfirmed'
<1> DEFINE n == idx
           since == IF signal # pendingRegime THEN idx ELSE pendingSince
           confirmed == signal # currentRegime /\ idx - since >= ConfirmationSteps
<1>1. /\ n \in Nat /\ pendingSince \in Nat /\ pendingSince <= n /\ Len(records) = n
      /\ \A k \in (pendingSince + 1)..n : records[k].signal = pendingRegime
      /\ n > 0 => records[n].active = currentRegime
      /\ records \in Seq(StepRecord) /\ attempts = n
      /\ adaptationLags \in Seq(Int) /\ ConfirmationSteps \in Nat
      /\ currentRegime \in Regimes /\ fills \in Nat
      /\ filled \in Int /\ strategyPosition \in Int
  BY RegimeAssumption DEF RegimeInv, RegimeTypes, SignalsPersist
<1>2. /\ idx' = n + 1 /\ attempts' = n + 1
      /\ pendingRegime' = signal /\ pendingSince' = since
      /\ currentRegime' = IF confirmed THEN signal ELSE currentRegime
      /\ adaptationLags' = IF confirmed THEN Append(adaptationLags, n - since)
                           ELSE adaptationLags
  BY <1>1 DEF Regime!Step, Regime!Since, Regime!Confirmed
<1>3. PICK r \in StepRecord :
           /\ r.signal = signal /\ r.active = currentRegime'
           /\ records' = Append(records, r)
           /\ strategyPosition' = strategyPosition + r.executed
           /\ fills' = IF r.executed # 0 THEN fills + 1 ELSE fills
           /\ filled' = filled + Size(r.executed)
  BY StepAdds
<1>4. r.executed \in Int  BY DEF StepRecord
<1>5. since \in Nat /\ since <= n
      /\ \A k \in (since + 1)..n : records[k].signal = signal
  BY <1>1
<1> HIDE DEF since, n
<1>6. /\ records' \in Seq(StepRecord) /\ Len(records') = n + 1 /\ records'[n + 1] = r
      /\ \A k \in 1..n : records'[k] = records[k]
  BY <1>1, <1>3
<1>7. RegimeTypes'
  <2>1. Size(r.executed) \in Int  BY <1>4 DEF Size
  <2>2. adaptationLags' \in Seq(Int)
    <3>1. n - since \in Int  BY <1>1, <1>5
    <3>2. QED  BY <1>1, <1>2, <3>1
  <2>3. fills' \in Nat /\ filled' \in Int /\ strategyPosition' \in Int
    BY <1>1, <1>3, <1>4, <2>1
  <2>4. currentRegime' \in Regimes /\ pendingRegime' \in Regimes  BY <1>1, <1>2
  <2>5. idx' \in Nat /\ pendingSince' \in Nat  BY <1>1, <1>2, <1>5
  <2>6. QED  BY <1>6, <2>2, <2>3, <2>4, <2>5 DEF RegimeTypes
<1>8. \A k \in (since + 1)..(n + 1) : records'[k].signal = signal
  <2> SUFFICES ASSUME NEW k \in (since + 1)..(n + 1) PROVE records'[k].signal = signal
    OBVIOUS
  <2>a. n \in Nat /\ since \in Nat /\ since <= n  BY <1>1, <1>5
  <2>1. k = n + 1 \/ (k \in 1..n /\ k \in (since + 1)..n)  BY <2>a
  <2>2. QED  BY <1>3, <1>5, <1>6, <2>1
<1>9. SignalsPersist'
  <2>1. /\ Len(records') = idx' /\ attempts' = idx' /\ pendingSince' <= idx'
        /\ records'[idx'].active = currentRegime'
    BY <1>1, <1>2, <1>3, <1>5, <1>6
  <2>2. \A k \in (pendingSince' + 1)..idx' : records'[k].signal = pendingRegime'
    BY <1>2, <1>8
  <2>3. QED  BY <2>1, <2>2 DEF SignalsPersist
<1>10. ASSUME NEW k \in 2..(n + 1) PROVE ChangeIsConfirmed(k)'
  <2>1. CASE k \in 2..n
    <3>1. /\ k \in 1..n /\ k - 1 \in 1..n
          /\ k > ConfirmationSteps =>
               \A j \in (k - ConfirmationSteps)..k : j \in 1..n
      BY <1>1, <2>1
    <3>2. ChangeIsConfirmed(k)
      BY <1>1, <2>1 DEF RegimeInv, ChangesAreConfirmed, n
    <3>3. /\ records'[k] = records[k] /\ records'[k - 1] = records[k - 1]
          /\ k > ConfirmationSteps =>
               \A j \in (k - ConfirmationSteps)..k : records'[j] = records[j]
      BY <1>6, <3>1
    <3>4. QED  BY <3>2, <3>3 DEF ChangeIsConfirmed
  <2>2. CASE k = n + 1 /\ n >= 1
    <3>1. n \in 1..n /\ k - 1 = n  BY <1>1, <2>2
    <3>2. records'[k - 1].active = currentRegime /\ records'[k].active = currentRegime'
      BY <1>1, <1>3, <1>6, <2>2, <3>1 DEF n
    <3>3. ASSUME records'[k].active # records'[k - 1].active
          PROVE  /\ k > ConfirmationSteps
                 /\ \A j \in (k - ConfirmationSteps)..k : records'[j].signal = records'[k].active
      <4>1. confirmed /\ currentRegime' = signal  BY <1>2, <3>2, <3>3
      <4>2. n - since >= ConfirmationSteps  BY <4>1 DEF n
      <4>3. /\ k > ConfirmationSteps
            /\ \A j \in (k - ConfirmationSteps)..k : j \in (since + 1)..(n + 1)
        BY <1>1, <1>5, <2>2, <4>2
      <4>4. QED  BY <1>8, <3>2, <4>1, <4>3
    <3>4. QED  BY <3>3 DEF ChangeIsConfirmed
  <2>3. QED  BY <1>1, <1>10, <2>1, <2>2
<1>11. ASSUME NEW k \in 1..Len(adaptationLags') PROVE adaptationLags'[k] >= ConfirmationSteps
  <2>1. \A i \in 1..Len(adaptationLags) : adaptationLags[i] >= ConfirmationSteps
    BY DEF RegimeInv, ChangesAreConfirmed
  <2>2. CASE confirmed
    <3> DEFINE lags == adaptationLags
    <3>1. adaptationLags' = Append(lags, n - since) /\ n - since >= ConfirmationSteps
      BY <1>2, <2>2 DEF n
    <3>2. n - since \in Int /\ lags \in Seq(Int)  BY <1>1, <1>5
    <3>3. k \in 1..(Len(lags) + 1) /\ Len(lags) \in Nat
          /\ adaptationLags'[k] = IF k <= Len(lags) THEN lags[k] ELSE n - since
      BY <1>11, <3>1, <3>2
    <3>4. QED  BY <2>1, <3>1, <3>3
  <2>3. CASE ~confirmed  BY <1>2, <1>11, <2>1, <2>3
  <2>4. QED  BY <2>2, <2>3
<1>12. ChangesAreConfirmed'
  <2>1. \A k \in 2..Len(records') : ChangeIsConfirmed(k)'  BY <1>6, <1>10
  <2>2. QED  BY <1>11, <2>1 DEF ChangesAreConfirmed
<1>13. QED  BY <1>7, <1>9, <1>12

\* An order that is cut to what the cap leaves brings the position within it,
\* and exceeds the order size only where the position was outside.
LEMMA DeltaMeetsCap ==
  ASSUME RegimeInv, NEW regime \in Regimes, NEW target \in Int
  PROVE  LET cap == RiskCap[regime]
             delta == Regime!Delta(target, regime) IN
         /\ delta \in Int
         /\ -cap <= strategyPosition + delta /\ strategyPosition + delta <= cap
         /\ Size(delta) > OrderQty[regime] =>
              strategyPosition < -cap \/ strategyPosition > cap
<1> DEFINE q == OrderQty[regime]
           cap == RiskCap[regime]
           p == strategyPosition
           x == Regime!Clip(target - p, -q, q)
           delta == Regime!Delta(target, regime)
<1>1. q \in Nat /\ cap \in Nat /\ p \in Int
  BY RegimeAssumption DEF RegimeInv, RegimeTypes
<1>2. delta = Regime!Clip(x, -cap - p, cap - p)
  BY DEF Regime!Delta, Regime!Capped
<1> HIDE DEF q, cap, p, delta
<1>3. x \in Int /\ -q <= x /\ x <= q
  <2>1. target - p \in Int /\ -q \in Int  BY <1>1
  <2>2. QED  BY <1>1, <2>1, ClipIs
<1> HIDE DEF x
<1>4. /\ delta \in Int /\ -cap <= p + delta /\ p + delta <= cap
      /\ delta > q \/ -delta > q => p < -cap \/ p > cap
  <2> DEFINE under == IF x <= cap - p THEN x ELSE cap - p
  <2>1. delta = IF -cap - p >= under THEN -cap - p ELSE under
    <3>1. -cap - p \in Int /\ cap - p \in Int  BY <1>1
    <3>2. QED  BY <1>2, <1>3, <3>1, ClipIs
  <2>2. QED  BY <1>1, <1>3, <2>1
<1>5. Size(delta) > q => delta > q \/ -delta > q  BY DEF Size
<1>6. QED  BY <1>4, <1>5 DEF q, cap, p, delta

\* A step keeps to the cap of the active regime.
LEMMA StepKeepsCaps ==
  ASSUME RegimeInv, NEW signal \in Regimes, NEW lag \in StepLatencies, NEW target \in Int,
         Regime!Step(signal, lag, target)
  PROVE  CapsHold'
<1>1. PICK r \in StepRecord :
           /\ r.before = strategyPosition
           /\ r.executed = 0 \/ r.executed = Regime!Delta(target, r.active)
           /\ records' = Append(records, r)
  BY StepAdds
<1>2. /\ records \in Seq(StepRecord) /\ Len(records) \in Nat
      /\ Len(records') = Len(records) + 1 /\ records'[Len(records) + 1] = r
      /\ \A k \in 1..Len(records) : records'[k] = records[k]
  BY <1>1 DEF RegimeInv, RegimeTypes
<1>3. WithinCap(r)
  <2>1. r.active \in Regimes  BY DEF StepRecord
  <2>2. QED  BY <1>1, <2>1, DeltaMeetsCap DEF WithinCap
<1>4. ASSUME NEW k \in 1..Len(records') PROVE WithinCap(records'[k])
  <2>1. k \in 1..Len(records) \/ k = Len(records) + 1  BY <1>2
  <2>2. QED  BY <1>2, <1>3, <2>1 DEF RegimeInv, CapsHold
<1>5. QED  BY <1>4 DEF CapsHold, WithinCap

\* A step adds itself to every statistic.
LEMMA StepKeepsStats ==
  ASSUME RegimeInv, NEW signal \in Regimes, NEW lag \in StepLatencies, NEW target \in Int,
         Regime!Step(signal, lag, target)
  PROVE  StatsAreTheSteps'
<1> DEFINE n == Len(records)
<1>1. PICK r \in StepRecord :
           /\ r.latency = lag
           /\ records' = Append(records, r)
           /\ strategyPosition' = strategyPosition + r.executed
           /\ fills' = IF r.executed # 0 THEN fills + 1 ELSE fills
           /\ filled' = filled + Size(r.executed)
           /\ latencyStats' = IF Len(Append(latencyStats, lag)) > Window
                              THEN Tail(Append(latencyStats, lag))
                              ELSE Append(latencyStats, lag)
  BY StepAdds
<1>2. r.executed \in Int /\ r.latency \in Int /\ Size(r.executed) \in Int
  BY DEF StepRecord, Size
<1>3. /\ records \in Seq(StepRecord) /\ n \in Nat
      /\ \A k \in 1..n : /\ records[k].latency \in Int /\ records[k].executed \in Int
                         /\ Size(records[k].executed) \in Int
  <2>1. records \in Seq(StepRecord)  BY DEF RegimeInv, RegimeTypes
  <2>2. ASSUME NEW k \in 1..n
        PROVE  records[k].latency \in Int /\ records[k].executed \in Int
    <3>1. records[k] \in StepRecord  BY <2>1, <2>2
    <3>2. QED  BY <3>1 DEF StepRecord
  <2>3. QED  BY <2>1, <2>2 DEF Size
<1>4. /\ Len(records') = n + 1 /\ records'[n + 1] = r
      /\ \A k \in 1..n : records'[k] = records[k]
  BY <1>1, <1>3
<1> HIDE DEF n
<1>5. /\ LatencyColumn \in Seq(Int) /\ LatencyColumn' = Append(LatencyColumn, r.latency)
  <2>1. LatencyColumn \in Seq(Int) /\ Len(LatencyColumn) = n
    BY <1>3 DEF LatencyColumn, n
  <2>2. /\ LatencyColumn' \in Seq(Int) /\ Len(LatencyColumn') = n + 1
        /\ LatencyColumn'[n + 1] = r.latency
        /\ \A k \in 1..n : LatencyColumn'[k] = LatencyColumn[k]
    <3>1. LatencyColumn' = [k \in 1..(n + 1) |-> records'[k].latency]
      BY <1>4 DEF LatencyColumn
    <3>2. \A k \in 1..(n + 1) : records'[k].latency \in Int
      <4>1. \A k \in 1..(n + 1) : k \in 1..n \/ k = n + 1  BY <1>3
      <4>2. QED  BY <1>2, <1>3, <1>4, <4>1
    <3>3. n + 1 \in 1..(n + 1) /\ \A k \in 1..n : k \in 1..(n + 1)  BY <1>3
    <3>4. \A k \in 1..n : LatencyColumn[k] = records[k].latency
      BY DEF LatencyColumn, n
    <3>5. LatencyColumn' \in Seq(Int) /\ Len(LatencyColumn') = n + 1
      <4> DEFINE column == LatencyColumn'
      <4>1. column \in [1..(n + 1) -> Int]  BY <3>1, <3>2
      <4> HIDE DEF column
      <4>2. n + 1 \in Nat  BY <1>3
      <4>3. column \in Seq(Int) /\ Len(column) = n + 1  BY <4>1, <4>2
      <4>4. QED  BY <4>3 DEF column
    <3>6. LatencyColumn'[n + 1] = r.latency  BY <1>4, <3>1, <3>3
    <3>7. \A k \in 1..n : LatencyColumn'[k] = LatencyColumn[k]  BY <1>4, <3>1, <3>3, <3>4
    <3>8. QED  BY <3>5, <3>6, <3>7
  <2>3. QED  BY <1>2, <2>1, <2>2, AppendIs
<1>6. /\ ExecutedColumn \in Seq(Int) /\ ExecutedColumn' = Append(ExecutedColumn, r.executed)
  <2>1. ExecutedColumn \in Seq(Int) /\ Len(ExecutedColumn) = n
    BY <1>3 DEF ExecutedColumn, n
  <2>2. /\ ExecutedColumn' \in Seq(Int) /\ Len(ExecutedColumn') = n + 1
        /\ ExecutedColumn'[n + 1] = r.executed
        /\ \A k \in 1..n : ExecutedColumn'[k] = ExecutedColumn[k]
    <3>1. ExecutedColumn' = [k \in 1..(n + 1) |-> records'[k].executed]
      BY <1>4 DEF ExecutedColumn
    <3>2. \A k \in 1..(n + 1) : records'[k].executed \in Int
      <4>1. \A k \in 1..(n + 1) : k \in 1..n \/ k = n + 1  BY <1>3
      <4>2. QED  BY <1>2, <1>3, <1>4, <4>1
    <3>3. n + 1 \in 1..(n + 1) /\ \A k \in 1..n : k \in 1..(n + 1)  BY <1>3
    <3>4. \A k \in 1..n : ExecutedColumn[k] = records[k].executed
      BY DEF ExecutedColumn, n
    <3>5. ExecutedColumn' \in Seq(Int) /\ Len(ExecutedColumn') = n + 1
      <4> DEFINE column == ExecutedColumn'
      <4>1. column \in [1..(n + 1) -> Int]  BY <3>1, <3>2
      <4> HIDE DEF column
      <4>2. n + 1 \in Nat  BY <1>3
      <4>3. column \in Seq(Int) /\ Len(column) = n + 1  BY <4>1, <4>2
      <4>4. QED  BY <4>3 DEF column
    <3>6. ExecutedColumn'[n + 1] = r.executed  BY <1>4, <3>1, <3>3
    <3>7. \A k \in 1..n : ExecutedColumn'[k] = ExecutedColumn[k]  BY <1>4, <3>1, <3>3, <3>4
    <3>8. QED  BY <3>5, <3>6, <3>7
  <2>3. QED  BY <1>2, <2>1, <2>2, AppendIs
<1>7. /\ SizeColumn \in Seq(Int) /\ SizeColumn' = Append(SizeColumn, Size(r.executed))
  <2>1. SizeColumn \in Seq(Int) /\ Len(SizeColumn) = n
    BY <1>3 DEF SizeColumn, n
  <2>2. /\ SizeColumn' \in Seq(Int) /\ Len(SizeColumn') = n + 1
        /\ SizeColumn'[n + 1] = Size(r.executed)
        /\ \A k \in 1..n : SizeColumn'[k] = SizeColumn[k]
    <3>1. SizeColumn' = [k \in 1..(n + 1) |-> Size(records'[k].executed)]
      BY <1>4 DEF SizeColumn, Size
    <3>2. \A k \in 1..(n + 1) : Size(records'[k].executed) \in Int
      <4>1. \A k \in 1..(n + 1) : k \in 1..n \/ k = n + 1  BY <1>3
      <4>2. QED  BY <1>2, <1>3, <1>4, <4>1
    <3>3. n + 1 \in 1..(n + 1) /\ \A k \in 1..n : k \in 1..(n + 1)  BY <1>3
    <3>4. \A k \in 1..n : SizeColumn[k] = Size(records[k].executed)
      BY DEF SizeColumn, n
    <3>5. SizeColumn' \in Seq(Int) /\ Len(SizeColumn') = n + 1
      <4> DEFINE column == SizeColumn'
      <4>1. column \in [1..(n + 1) -> Int]  BY <3>1, <3>2
      <4> HIDE DEF column
      <4>2. n + 1 \in Nat  BY <1>3
      <4>3. column \in Seq(Int) /\ Len(column) = n + 1  BY <4>1, <4>2
      <4>4. QED  BY <4>3 DEF column
    <3>6. SizeColumn'[n + 1] = Size(r.executed)  BY <1>4, <3>1, <3>3
    <3>7. \A k \in 1..n : SizeColumn'[k] = SizeColumn[k]  BY <1>4, <3>1, <3>3, <3>4
    <3>8. QED  BY <3>5, <3>6, <3>7
  <2>3. QED  BY <1>2, <2>1, <2>2, AppendIs
<1>8. latencyStats' = Latest(LatencyColumn', Window)
  <2>1. latencyStats = Latest(LatencyColumn, Window)
    BY DEF RegimeInv, StatsAreTheSteps
  <2>2. Window \in Nat /\ Window # 0 /\ lag \in Int  BY RegimeAssumption
  <2> DEFINE all == LatencyColumn
  <2>3. all \in Seq(Int) /\ LatencyColumn' = Append(all, lag)  BY <1>1, <1>5
  <2>4. latencyStats' = IF Len(Append(Latest(all, Window), lag)) > Window
                        THEN Tail(Append(Latest(all, Window), lag))
                        ELSE Append(Latest(all, Window), lag)
    BY <1>1, <2>1
  <2> DEFINE more == Append(Latest(all, Window), lag)
  <2> HIDE DEF all
  <2>5. /\ more \in Seq(Int) /\ more # <<>>
        /\ Latest(Append(all, lag), Window) = IF Len(more) > Window THEN Tail(more) ELSE more
    BY <2>2, <2>3, LatestNumbers
  <2>6. QED  BY <2>3, <2>4, <2>5
<1>9. strategyPosition' = Total(ExecutedColumn') /\ filled' = Total(SizeColumn')
  <2>1. strategyPosition = Total(ExecutedColumn) /\ filled = Total(SizeColumn)
    BY DEF RegimeInv, StatsAreTheSteps
  <2>2. /\ Total(ExecutedColumn') = Total(ExecutedColumn) + r.executed
        /\ Total(SizeColumn') = Total(SizeColumn) + Size(r.executed)
    BY <1>2, <1>6, <1>7, TotalAppend
  <2>3. QED  BY <1>1, <2>1, <2>2
<1>10. fills' = Cardinality(FilledSteps')
  <2>1. fills = Cardinality(FilledSteps) /\ FilledSteps \in SUBSET (1..n)
    BY DEF RegimeInv, StatsAreTheSteps, FilledSteps, n
  <2>2. FilledSteps' = IF r.executed # 0 THEN FilledSteps \cup {n + 1} ELSE FilledSteps
    <3>1. FilledSteps' = {k \in 1..(n + 1) : records'[k].executed # 0}
      BY <1>4 DEF FilledSteps
    <3>2. 1..(n + 1) = (1..n) \cup {n + 1} /\ n + 1 \notin 1..n  BY <1>3
    <3>3. FilledSteps = {k \in 1..n : records'[k].executed # 0}
      BY <1>4 DEF FilledSteps, n
    <3>4. QED  BY <1>4, <3>1, <3>2, <3>3
  <2>3. Cardinality(FilledSteps \cup {n + 1}) = Cardinality(FilledSteps) + 1
    BY <1>3, <2>1, CountOne
  <2>4. QED  BY <1>1, <2>1, <2>2, <2>3
<1>11. QED  BY <1>8, <1>9, <1>10 DEF StatsAreTheSteps

\* Every step of the strategy.
LEMMA RegimeSteps ==
  ASSUME RegimeInv, [Regime!Next]_regimeVars
  PROVE  RegimeInv'
<1>1. CASE UNCHANGED regimeVars
  <2>1. RegimeTypes'  BY <1>1 DEF regimeVars, RegimeInv, RegimeTypes
  <2>2. SignalsPersist'  BY <1>1 DEF regimeVars, RegimeInv, SignalsPersist
  <2>3. ChangesAreConfirmed'
    BY <1>1 DEF regimeVars, RegimeInv, ChangesAreConfirmed, ChangeIsConfirmed
  <2>4. CapsHold'  BY <1>1 DEF regimeVars, RegimeInv, CapsHold, WithinCap
  <2>5. StatsAreTheSteps'
    BY <1>1 DEF regimeVars, RegimeInv, StatsAreTheSteps, LatencyColumn, ExecutedColumn,
                SizeColumn, FilledSteps
  <2>6. QED  BY <2>1, <2>2, <2>3, <2>4, <2>5 DEF RegimeInv
<1>2. CASE Regime!Next
  <2>1. PICK signal \in Regimes, lag \in StepLatencies, target \in -Reach .. Reach :
          Regime!Step(signal, lag, target)
    BY <1>2 DEF Regime!Next
  <2>2. target \in Int  BY RegimeAssumption
  <2>3. QED  BY <2>1, <2>2, StepKeepsSignals, StepKeepsCaps, StepKeepsStats DEF RegimeInv
<1>3. QED  BY <1>1, <1>2

\* The invariant makes every step follow the regime.
LEMMA RegimeSound ==
  ASSUME RegimeInv
  PROVE  StepsFollowRegime
<1> DEFINE n == Len(records)
<1>1. /\ records \in Seq(StepRecord) /\ n \in Nat
      /\ adaptationLags \in Seq(Int) /\ Window \in Nat \ {0}
  BY RegimeAssumption DEF RegimeInv, RegimeTypes
<1>2. Regime!RegimeIsConfirmed
  <2>1. DOMAIN adaptationLags = 1..Len(adaptationLags)  BY <1>1
  <2>2. QED
    BY <2>1 DEF RegimeInv, ChangesAreConfirmed, ChangeIsConfirmed, Regime!RegimeIsConfirmed
<1>3. Regime!ExecutionMeetsCap
  <2>1. ToSet(records) = {records[k] : k \in 1..n}  BY <1>1 DEF ToSet
  <2>2. ASSUME NEW r \in Regime!ToSet(records), r.executed # 0
        PROVE  LET cap == RiskCap[r.active] IN
               /\ r.before + r.executed \in -cap .. cap
               /\ Regime!Magnitude(r.executed) > OrderQty[r.active] =>
                    r.before \notin -cap .. cap
    <3>1. r \in ToSet(records)  BY <2>2, InRegime
    <3>2. PICK k \in 1..n : r = records[k]  BY <2>1, <3>1
    <3>3. r \in StepRecord  BY <1>1, <3>2
    <3>4. r.before \in Int /\ r.executed \in Int /\ r.active \in Regimes
      BY <3>3 DEF StepRecord
    <3>5. RiskCap[r.active] \in Nat  BY <3>4, RegimeAssumption
    <3>6. WithinCap(r)  BY <3>2 DEF RegimeInv, CapsHold
    <3>7. Regime!Magnitude(r.executed) = Size(r.executed)  BY DEF Regime!Magnitude, Size
    <3>8. QED  BY <2>2, <3>4, <3>5, <3>6, <3>7 DEF WithinCap
  <2>3. QED  BY <2>2 DEF Regime!ExecutionMeetsCap
<1>4. Regime!StatsFollowRecords
  <2>1. /\ latencyStats = Latest(LatencyColumn, Window)
        /\ fills = Cardinality(FilledSteps)
        /\ filled = Total(SizeColumn)
        /\ strategyPosition = Total(ExecutedColumn)
        /\ attempts = n
    BY DEF RegimeInv, StatsAreTheSteps, SignalsPersist
  <2>2. latencyStats = Regime!Latest([k \in 1..n |-> records[k].latency], Window)
    BY <2>1, InRegime DEF LatencyColumn
  <2>3. fills = Regime!Cardinality({k \in 1..n : records[k].executed # 0})
    BY <2>1, InRegime DEF FilledSteps
  <2>4. filled = Regime!Total([k \in 1..n |-> Regime!Magnitude(records[k].executed)])
    BY <2>1, InRegime DEF SizeColumn, Size, Regime!Magnitude
  <2>5. strategyPosition = Regime!Total([k \in 1..n |-> records[k].executed])
    BY <2>1, InRegime DEF ExecutedColumn
  <2>6. ASSUME n >= 2
        PROVE  Regime!Drift = records[n].latency - records[Regime!Max({1, n - Window + 1})].latency
    <3> DEFINE all == LatencyColumn
               l == Latest(all, Window)
               first == Regime!Max({1, n - Window + 1})
    <3>1. all \in Seq(Int) /\ Len(all) = n /\ \A k \in 1..n : all[k] = records[k].latency
      <4>1. ASSUME NEW k \in 1..n PROVE records[k].latency \in Int
        <5>1. records[k] \in StepRecord  BY <1>1, <4>1
        <5>2. QED  BY <5>1 DEF StepRecord
      <4>2. QED  BY <1>1, <4>1 DEF LatencyColumn
    <3>2. first = IF n < Window THEN 1 ELSE n - Window + 1
      <4>1. Max({1, n - Window + 1}) = IF 1 >= n - Window + 1 THEN 1 ELSE n - Window + 1
        BY <1>1, TheLarger
      <4>2. QED  BY <1>1, <4>1, InRegime
    <3> HIDE DEF all, first
    <3>3. /\ l \in Seq(Int) /\ Len(l) = IF n < Window THEN n ELSE Window
          /\ \A k \in 1..Len(l) : l[k] = all[n - Len(l) + k]
      <4>1. Window \in Nat  BY <1>1
      <4>2. /\ l \in Seq(Int) /\ Len(l) = IF Len(all) < Window THEN Len(all) ELSE Window
            /\ \A k \in 1..Len(l) : l[k] = all[Len(all) - Len(l) + k]
        BY <3>1, <4>1, LatestIs
      <4> HIDE DEF l
      <4>3. QED  BY <3>1, <4>2
    <3>4. latencyStats = l  BY <2>1 DEF all
    <3> HIDE DEF l
    <3>5. CASE Len(l) < 2
      <4>1. Window = 1 /\ Len(l) = 1 /\ n >= Window  BY <1>1, <2>6, <3>3, <3>5
      <4>2. first = n  BY <1>1, <3>2, <4>1
      <4>3. Regime!Drift = 0  BY <3>4, <3>5 DEF Regime!Drift
      <4>4. n \in 1..n  BY <1>1, <2>6
      <4>5. all[n] = records[n].latency /\ all[n] \in Int  BY <3>1, <4>4
      <4>6. QED  BY <4>2, <4>3, <4>5 DEF first
    <3>6. CASE Len(l) >= 2
      <4>1. Len(l) \in Nat /\ 1 \in 1..Len(l) /\ Len(l) \in 1..Len(l)  BY <3>3, <3>6
      <4>2. l[Len(l)] = all[n - Len(l) + Len(l)] /\ l[1] = all[n - Len(l) + 1]
        BY <3>3, <4>1
      <4>3. n - Len(l) + Len(l) = n /\ n - Len(l) + 1 = first /\ n \in 1..n /\ first \in 1..n
        BY <1>1, <2>6, <3>2, <3>3, <4>1
      <4>4. l[Len(l)] = records[n].latency /\ l[1] = records[first].latency
        BY <3>1, <4>2, <4>3
      <4>5. Regime!Drift = Last(l) - Head(l)
        BY <3>4, <3>6, <4>1, InRegime DEF Regime!Drift
      <4>6. Last(l) = l[Len(l)] /\ Head(l) = l[1]  BY <3>3, <4>1 DEF Last
      <4>7. QED  BY <4>4, <4>5, <4>6 DEF first
    <3>7. QED  BY <3>3, <3>5, <3>6
  <2>7. QED  BY <2>1, <2>2, <2>3, <2>4, <2>5, <2>6 DEF Regime!StatsFollowRecords
<1>5. QED  BY <1>2, <1>3, <1>4 DEF StepsFollowRegime, Regime!StepsFollowRegime

-----------------------------------------------------------------------------
(* The market of the grid search                                             *)

Names == ToSet(States)
Execution == [name : Names, qty : Int, price : Int, step : Nat]

CalibrationTypes ==
  /\ step \in Nat /\ price \in Int /\ netFlow \in Int /\ turn \in 0..Len(States)
  /\ position \in [Names -> Int] /\ cash \in [Names -> Int]
  /\ attempted \in [Names -> Int] /\ tradeCount \in [Names -> Int]
  /\ prevEquity \in [Names -> Int]
  /\ equityHistory \in [Names -> Seq(Int) \ {<<>>}] /\ returns \in [Names -> Seq(Int)]
  /\ trades \in Seq(Execution)

PositionsWithinCap ==
  /\ ~truncated
  /\ \A n \in Names : -CalibrationCap <= position[n] /\ position[n] <= CalibrationCap

\* What a strategy bought and paid, one number for each execution of the run.
QtyColumn(n) == [k \in 1..Len(trades) |-> IF trades[k].name = n THEN trades[k].qty ELSE 0]
PaidColumn(n) ==
  [k \in 1..Len(trades) |-> IF trades[k].name = n THEN trades[k].price * trades[k].qty ELSE 0]
OwnTrades(n) == {k \in 1..Len(trades) : trades[k].name = n}

\* What a strategy holds is what it traded.
AccountIsTrades(n) ==
  /\ position[n] = Total(QtyColumn(n))
  /\ cash[n] = -Total(PaidColumn(n))
  /\ tradeCount[n] = Cardinality(OwnTrades(n))
  /\ tradeCount[n] <= attempted[n]
AccountsAreTrades == \A n \in Names : AccountIsTrades(n)

\* The last equity is the one returns go on from, and between steps that of
\* what is held.
MarkedFor(n) ==
  LET equity == equityHistory[n][Len(equityHistory[n])] IN
  /\ prevEquity[n] = equity
  /\ Total(returns[n]) = equity
  /\ turn = 0 => equity = cash[n] + position[n] * price
MarkedToMarket == \A n \in Names : MarkedFor(n)

CalibrationInv ==
  CalibrationTypes /\ PositionsWithinCap /\ AccountsAreTrades /\ MarkedToMarket

\* The library's operators are the same ones in the instance.
LEMMA InCalibration ==
  /\ \A S : Calibration!Max(S) = Max(S)
  /\ \A S : Calibration!Min(S) = Min(S)
  /\ Calibration!Names = Names
  /\ \A q : Calibration!Last(q) = Last(q)
  /\ \A S : Calibration!Cardinality(S) = Cardinality(S)
  /\ \A q : Calibration!Total(q) = Total(q)
<1>1. \A S : Calibration!Max(S) = Max(S)  BY DEF Calibration!Max, Max
<1>2. \A S : Calibration!Min(S) = Min(S)  BY DEF Calibration!Min, Min
<1>3. Calibration!Names = Names
  BY DEF Calibration!Names, Names, Calibration!ToSet, ToSet
<1>4. \A q : Calibration!Last(q) = Last(q)  BY DEF Calibration!Last, Last
<1>5. \A S : Calibration!Cardinality(S) = Cardinality(S)
  BY DEF Calibration!Cardinality, Cardinality
<1>6. \A q : Calibration!Total(q) = Total(q)
  BY DEF Calibration!Total, Total, Calibration!Running, Running
<1>7. QED  BY <1>1, <1>2, <1>3, <1>4, <1>5, <1>6

\* An order towards a target within the cap, from a position within it, is not
\* cut by the cap and leaves the position within it.
LEMMA CapCutsNothing ==
  ASSUME NEW held \in Int, NEW target \in Int,
         -CalibrationCap <= held, held <= CalibrationCap,
         -CalibrationCap <= target, target <= CalibrationCap
  PROVE  LET capped == Calibration!Clip(target - held, -OrderSize, OrderSize) IN
         /\ capped \in Int
         /\ Calibration!WithinCap(held, capped) = capped
         /\ -CalibrationCap <= held + capped /\ held + capped <= CalibrationCap
<1> DEFINE capped == Calibration!Clip(target - held, -OrderSize, OrderSize)
           cap == CalibrationCap
           left == target - held
           under == IF left <= OrderSize THEN left ELSE OrderSize
<1>1. cap \in Nat /\ OrderSize \in Nat /\ -OrderSize \in Int /\ left \in Int /\ under \in Int
  BY CalibrationAssumption
<1>2. capped = IF -OrderSize >= under THEN -OrderSize ELSE under
  <2>1. Min({left, OrderSize}) = under  BY <1>1, TheSmaller
  <2> HIDE DEF under
  <2>2. Max({-OrderSize, under}) = IF -OrderSize >= under THEN -OrderSize ELSE under
    BY <1>1, TheLarger
  <2>3. capped = Max({-OrderSize, Min({left, OrderSize})})
    BY InCalibration DEF Calibration!Clip
  <2>4. QED  BY <2>1, <2>2, <2>3
<1> HIDE DEF capped
<1>3. capped \in Int /\ (capped > 0 => capped <= left) /\ (capped < 0 => left <= capped)
  BY <1>1, <1>2
<1>4. -cap <= held + capped /\ held + capped <= cap
  BY <1>1, <1>3
<1>5. Calibration!WithinCap(held, capped) = capped
  <2>1. CASE capped > 0
    <3>1. Calibration!WithinCap(held, capped) = Min({capped, Max({0, cap - held})})
      BY <2>1, InCalibration DEF Calibration!WithinCap
    <3>2. Max({0, cap - held}) = cap - held
      <4>1. cap - held \in Int /\ 0 \in Int /\ cap - held >= 0  BY <1>1
      <4>2. Max({0, cap - held}) = IF 0 >= cap - held THEN 0 ELSE cap - held
        BY <4>1, TheLarger
      <4>3. QED  BY <4>1, <4>2
    <3>3. Min({capped, cap - held}) = capped
      <4>1. cap - held \in Int /\ capped <= cap - held  BY <1>1, <1>4, <1>3
      <4>2. Min({capped, cap - held}) = IF capped <= cap - held THEN capped ELSE cap - held
        BY <1>3, <4>1, TheSmaller
      <4>3. QED  BY <4>1, <4>2
    <3>4. QED  BY <3>1, <3>2, <3>3
  <2>2. CASE ~(capped > 0)
    <3>1. Calibration!WithinCap(held, capped) = Max({capped, Min({0, -cap - held})})
      BY <2>2, InCalibration DEF Calibration!WithinCap
    <3>2. Min({0, -cap - held}) = -cap - held
      <4>1. -cap - held \in Int /\ 0 \in Int /\ -cap - held <= 0  BY <1>1
      <4>2. Min({0, -cap - held}) = IF 0 <= -cap - held THEN 0 ELSE -cap - held
        BY <4>1, TheSmaller
      <4>3. QED  BY <4>1, <4>2
    <3>3. Max({capped, -cap - held}) = capped
      <4>1. -cap - held \in Int /\ capped >= -cap - held  BY <1>1, <1>4, <1>3
      <4>2. Max({capped, -cap - held}) = IF capped >= -cap - held THEN capped ELSE -cap - held
        BY <1>3, <4>1, TheLarger
      <4>3. QED  BY <4>1, <4>2
    <3>4. QED  BY <3>1, <3>2, <3>3
  <2>3. QED  BY <2>1, <2>2
<1>6. QED  BY <1>3, <1>4, <1>5 DEF capped

\* No one has traded.
LEMMA CalibrationStarts ==
  ASSUME Calibration!Init
  PROVE  CalibrationInv
<1>1. /\ step = 0 /\ price = BasePrice /\ netFlow = 0 /\ turn = 0
      /\ position = [n \in Names |-> 0] /\ cash = [n \in Names |-> 0]
      /\ attempted = [n \in Names |-> 0] /\ tradeCount = [n \in Names |-> 0]
      /\ equityHistory = [n \in Names |-> <<0>>] /\ returns = [n \in Names |-> <<>>]
      /\ prevEquity = [n \in Names |-> 0] /\ trades = <<>> /\ truncated = FALSE
  BY InCalibration DEF Calibration!Init, Calibration!Each
<1>2. CalibrationTypes
  <2>1. <<0>> \in Seq(Int) \ {<<>>} /\ <<>> \in Seq(Int) /\ <<>> \in Seq(Execution)
    OBVIOUS
  <2>2. BasePrice \in Int /\ Len(States) \in Nat  BY CalibrationAssumption
  <2>3. equityHistory \in [Names -> Seq(Int) \ {<<>>}] /\ returns \in [Names -> Seq(Int)]
    BY <1>1, <2>1
  <2>4. QED  BY <1>1, <2>1, <2>2, <2>3 DEF CalibrationTypes
<1>3. PositionsWithinCap  BY <1>1, CalibrationAssumption DEF PositionsWithinCap
<1>4. ASSUME NEW n \in Names PROVE AccountIsTrades(n)
  <2>1. Len(trades) = 0  BY <1>1
  <2>2. QtyColumn(n) = <<>> /\ PaidColumn(n) = <<>> /\ OwnTrades(n) = {}
    BY <2>1 DEF QtyColumn, PaidColumn, OwnTrades
  <2>3. Total(<<>>) = 0 /\ Cardinality({}) = 0  BY TotalEmpty, FS_EmptySet
  <2>4. QED  BY <1>1, <2>2, <2>3 DEF AccountIsTrades
<1>5. ASSUME NEW n \in Names PROVE MarkedFor(n)
  <2>1. /\ equityHistory[n][Len(equityHistory[n])] = 0 /\ returns[n] = <<>>
        /\ prevEquity[n] = 0 /\ cash[n] = 0 /\ position[n] = 0
    BY <1>1
  <2>2. Total(<<>>) = 0  BY TotalEmpty
  <2>3. 0 * price = 0  BY <1>1, CalibrationAssumption
  <2>4. QED  BY <2>1, <2>2, <2>3 DEF MarkedFor
<1>6. QED  BY <1>2, <1>3, <1>4, <1>5 DEF CalibrationInv, AccountsAreTrades, MarkedToMarket

\* What a strategy's turn does to it and to the others: nothing but perhaps an
\* attempt, or one execution that is recorded.
TurnOf(n, qty, paid) ==
  /\ \A m \in Names : position'[m] = IF m = n THEN position[m] + qty ELSE position[m]
  /\ \A m \in Names : cash'[m] = IF m = n THEN cash[m] - paid * qty ELSE cash[m]
  /\ \A m \in Names : tradeCount'[m] = IF m = n THEN tradeCount[m] + 1 ELSE tradeCount[m]
  /\ \A m \in Names : attempted'[m] = IF m = n THEN attempted[m] + 1 ELSE attempted[m]
  /\ trades' = Append(trades, [name |-> n, qty |-> qty, price |-> paid, step |-> step])
IdleTurn ==
  /\ UNCHANGED <<position, cash, tradeCount, trades>>
  /\ \A m \in Names : attempted'[m] \in {attempted[m], attempted[m] + 1}

\* A turn is one of these (_execute_order of the script).
LEMMA TradeDoes ==
  ASSUME CalibrationInv, Calibration!Trade
  PROVE  /\ CalibrationTypes' /\ PositionsWithinCap'
         /\ turn' # 0 /\ UNCHANGED <<price, equityHistory, returns, prevEquity>>
         /\ IdleTurn \/ \E n \in Names, qty \in Int, paid \in Int : TurnOf(n, qty, paid)
<1> DEFINE n == States[turn + 1]
<1>1. /\ step \in Nat /\ price \in Int /\ netFlow \in Int /\ turn \in 0..Len(States)
      /\ position \in [Names -> Int] /\ cash \in [Names -> Int]
      /\ attempted \in [Names -> Int] /\ tradeCount \in [Names -> Int]
      /\ trades \in Seq(Execution)
  BY DEF CalibrationInv, CalibrationTypes
<1>2. PICK target \in Calibration!Targets :
        LET capped == Calibration!Clip(target - position[n], -OrderSize, OrderSize)
            qty == Calibration!WithinCap(position[n], capped) IN
        /\ truncated' = (truncated \/ qty # capped)
        /\ IF qty = 0 THEN Calibration!NoFill /\ UNCHANGED attempted
           ELSE /\ attempted' = [attempted EXCEPT ![n] = @ + 1]
                /\ \/ Calibration!NoFill
                   \/ \E slip \in Slippages :
                        Calibration!Execute(n, qty, price + (IF qty > 0 THEN slip ELSE -slip))
  BY DEF Calibration!Trade
<1>3. /\ turn' = turn + 1 /\ turn < Len(States)
      /\ UNCHANGED <<step, price, equityHistory, returns, prevEquity>>
  BY DEF Calibration!Trade
<1>4. n \in Names
  <2>1. States \in Seq(STRING) /\ turn + 1 \in 1..Len(States)
    BY <1>1, <1>3, CalibrationAssumption
  <2>2. QED  BY <2>1 DEF Names, ToSet
<1> DEFINE held == position[n]
           capped == Calibration!Clip(target - held, -OrderSize, OrderSize)
           qty == Calibration!WithinCap(held, capped)
<1> HIDE DEF n
<1>5. held \in Int /\ target \in Int
      /\ -CalibrationCap <= held /\ held <= CalibrationCap
      /\ -CalibrationCap <= target /\ target <= CalibrationCap
  <2>1. -CalibrationCap <= held /\ held <= CalibrationCap
    BY <1>4 DEF CalibrationInv, PositionsWithinCap
  <2>2. CalibrationCap \in Nat /\ target \in -CalibrationCap .. CalibrationCap
    BY CalibrationAssumption DEF Calibration!Targets
  <2>3. QED  BY <1>1, <1>4, <2>1, <2>2
<1>6. /\ qty = capped /\ qty \in Int
      /\ -CalibrationCap <= held + qty /\ held + qty <= CalibrationCap
  <2> HIDE DEF held
  <2>1. /\ capped \in Int
        /\ Calibration!WithinCap(held, capped) = capped
        /\ -CalibrationCap <= held + capped /\ held + capped <= CalibrationCap
    BY <1>5, CapCutsNothing
  <2>2. QED  BY <2>1
<1>7. /\ truncated' = (truncated \/ qty # capped)
      /\ IF qty = 0 THEN Calibration!NoFill /\ UNCHANGED attempted
         ELSE /\ attempted' = [attempted EXCEPT ![n] = @ + 1]
              /\ \/ Calibration!NoFill
                 \/ \E slip \in Slippages :
                      Calibration!Execute(n, qty, price + (IF qty > 0 THEN slip ELSE -slip))
  BY <1>2
<1>a. PositionsWithinCap  BY DEF CalibrationInv
<1> HIDE DEF qty, capped, held
<1>8. ~truncated'  BY <1>6, <1>7, <1>a DEF PositionsWithinCap
<1>9. /\ step' \in Nat /\ price' \in Int /\ turn' \in 0..Len(States) /\ turn' # 0
      /\ prevEquity' \in [Names -> Int]
      /\ equityHistory' \in [Names -> Seq(Int) \ {<<>>}] /\ returns' \in [Names -> Seq(Int)]
  <2>1. /\ step' \in Nat /\ price' \in Int
        /\ prevEquity' \in [Names -> Int]
        /\ equityHistory' \in [Names -> Seq(Int) \ {<<>>}] /\ returns' \in [Names -> Seq(Int)]
    BY <1>3 DEF CalibrationInv, CalibrationTypes
  <2>2. Len(States) \in Nat  BY CalibrationAssumption
  <2>3. QED  BY <1>1, <1>3, <2>1, <2>2
<1>10. attempted' = attempted \/ attempted' = [attempted EXCEPT ![n] = @ + 1]
  BY <1>7
<1>11. attempted' \in [Names -> Int]  BY <1>1, <1>4, <1>10
<1>12. CASE Calibration!NoFill
  <2>1. UNCHANGED <<cash, position, tradeCount, netFlow, trades>>
    BY <1>12 DEF Calibration!NoFill
  <2>2. CalibrationTypes'  BY <1>1, <1>9, <1>11, <2>1 DEF CalibrationTypes
  <2>3. PositionsWithinCap'  BY <1>8, <1>a, <2>1 DEF PositionsWithinCap
  <2>4. IdleTurn
    <3>1. \A m \in Names : attempted'[m] \in {attempted[m], attempted[m] + 1}
      BY <1>1, <1>4, <1>10
    <3>2. QED  BY <2>1, <3>1 DEF IdleTurn
  <2>5. QED  BY <1>3, <1>9, <2>2, <2>3, <2>4
<1>13. CASE ~Calibration!NoFill
  <2>1. attempted' = [attempted EXCEPT ![n] = @ + 1]  BY <1>7, <1>13
  <2>2. PICK slip \in Slippages :
          Calibration!Execute(n, qty, price + (IF qty > 0 THEN slip ELSE -slip))
    BY <1>7, <1>13
  <2> DEFINE paid == price + (IF qty > 0 THEN slip ELSE -slip)
  <2>3. paid \in Int
    <3>1. slip \in Int  BY <2>2, CalibrationAssumption
    <3>2. QED  BY <1>1, <3>1
  <2>4. Calibration!Execute(n, qty, paid)  BY <2>2
  <2> HIDE DEF paid
  <2>5. /\ cash' = [cash EXCEPT ![n] = @ - paid * qty]
        /\ position' = [position EXCEPT ![n] = @ + qty]
        /\ tradeCount' = [tradeCount EXCEPT ![n] = @ + 1]
        /\ netFlow' = netFlow + qty
        /\ trades' = Append(trades, [name |-> n, qty |-> qty, price |-> paid, step |-> step])
    BY <2>4 DEF Calibration!Execute, Calibration!Paid
  <2>6. paid * qty \in Int  BY <1>6, <2>3
  <2>7. /\ cash' \in [Names -> Int] /\ position' \in [Names -> Int]
        /\ tradeCount' \in [Names -> Int] /\ netFlow' \in Int
    <3> DEFINE cost == paid * qty
    <3>1. cost \in Int /\ cash' = [cash EXCEPT ![n] = @ - cost]  BY <2>5, <2>6
    <3> HIDE DEF cost
    <3>2. cash' \in [Names -> Int]  BY <1>1, <1>4, <3>1
    <3>3. position' \in [Names -> Int]  BY <1>1, <1>4, <1>6, <2>5
    <3>4. tradeCount' \in [Names -> Int]  BY <1>1, <1>4, <2>5
    <3>5. netFlow' \in Int  BY <1>1, <1>6, <2>5
    <3>6. QED  BY <3>2, <3>3, <3>4, <3>5
  <2>8. trades' \in Seq(Execution)
    <3>1. [name |-> n, qty |-> qty, price |-> paid, step |-> step] \in Execution
      BY <1>1, <1>4, <1>6, <2>3 DEF Execution
    <3>2. QED  BY <1>1, <2>5, <3>1
  <2>9. CalibrationTypes'  BY <1>9, <1>11, <2>7, <2>8 DEF CalibrationTypes
  <2>10. \A m \in Names : position'[m] = IF m = n THEN position[m] + qty ELSE position[m]
    BY <1>1, <2>5
  <2>11. PositionsWithinCap'
    <3>1. ASSUME NEW m \in Names
          PROVE  -CalibrationCap <= position'[m] /\ position'[m] <= CalibrationCap
      BY <1>6, <1>a, <2>10 DEF PositionsWithinCap, held
    <3>2. QED  BY <1>8, <3>1 DEF PositionsWithinCap
  <2>12. TurnOf(n, qty, paid)
    <3>1. \A m \in Names : cash'[m] = IF m = n THEN cash[m] - paid * qty ELSE cash[m]
      BY <1>1, <2>5
    <3>2. \A m \in Names : tradeCount'[m] = IF m = n THEN tradeCount[m] + 1 ELSE tradeCount[m]
      BY <1>1, <2>5
    <3>3. \A m \in Names : attempted'[m] = IF m = n THEN attempted[m] + 1 ELSE attempted[m]
      BY <1>1, <2>1
    <3>4. QED  BY <2>5, <2>10, <3>1, <3>2, <3>3 DEF TurnOf
  <2>13. QED  BY <1>3, <1>4, <1>6, <1>9, <2>3, <2>9, <2>11, <2>12
<1>14. QED  BY <1>12, <1>13

\* One more execution, as the columns of every strategy see it.
LEMMA ColumnsGrow ==
  ASSUME NEW n \in Names, NEW qty \in Int, NEW paid \in Int, NEW m \in Names,
         trades \in Seq(Execution), trades' \in Seq(Execution),
         trades' = Append(trades, [name |-> n, qty |-> qty, price |-> paid, step |-> step])
  PROVE  /\ Total(QtyColumn(m)') = Total(QtyColumn(m)) + (IF m = n THEN qty ELSE 0)
         /\ Total(PaidColumn(m)') = Total(PaidColumn(m)) + (IF m = n THEN paid * qty ELSE 0)
         /\ Total(QtyColumn(m)) \in Int /\ Total(PaidColumn(m)) \in Int
         /\ Cardinality(OwnTrades(m)') = Cardinality(OwnTrades(m)) + (IF m = n THEN 1 ELSE 0)
         /\ Cardinality(OwnTrades(m)) \in Nat
<1> DEFINE l == Len(trades)
           r == [name |-> n, qty |-> qty, price |-> paid, step |-> step]
           bought == IF m = n THEN qty ELSE 0
           spent == IF m = n THEN paid * qty ELSE 0
<1>1. /\ l \in Nat /\ Len(trades') = l + 1 /\ trades'[l + 1] = r
      /\ \A k \in 1..l : trades'[k] = trades[k]
  OBVIOUS
<1>2. r.name = n /\ r.qty = qty /\ r.price = paid  OBVIOUS
<1>3. paid * qty \in Int  OBVIOUS
<1>4. ASSUME NEW k \in 1..(l + 1)
      PROVE  /\ trades'[k].qty \in Int /\ trades'[k].price \in Int
             /\ trades'[k].price * trades'[k].qty \in Int
  <2>1. trades'[k] \in Execution  BY <1>1, <1>4
  <2>2. trades'[k].qty \in Int /\ trades'[k].price \in Int  BY <2>1 DEF Execution
  <2>3. QED  BY <2>2
<1> HIDE DEF l, r
<1>5. l + 1 \in 1..(l + 1) /\ \A k \in 1..l : k \in 1..(l + 1)  BY <1>1
<1> DEFINE Qty(k) == IF trades'[k].name = m THEN trades'[k].qty ELSE 0
           Paid(k) == IF trades'[k].name = m THEN trades'[k].price * trades'[k].qty ELSE 0
<1>6. /\ \A k \in 1..(l + 1) : Qty(k) \in Int /\ Paid(k) \in Int
      /\ Qty(l + 1) = bought /\ Paid(l + 1) = spent
  <2>1. \A k \in 1..(l + 1) : Qty(k) \in Int /\ Paid(k) \in Int
    <3> SUFFICES ASSUME NEW k \in 1..(l + 1) PROVE Qty(k) \in Int /\ Paid(k) \in Int
      OBVIOUS
    <3> DEFINE cost == trades'[k].price * trades'[k].qty
    <3>1. cost \in Int /\ trades'[k].qty \in Int  BY <1>4
    <3>2. Paid(k) = IF trades'[k].name = m THEN cost ELSE 0  OBVIOUS
    <3>a. trades'[k].qty \in Int /\ 0 \in Int
      <4>1. trades'[k].qty \in Int  BY <1>4, Zenon
      <4>2. 0 \in Int  OBVIOUS
      <4>3. QED  BY <4>1, <4>2, Zenon
    <3> HIDE DEF cost, Paid
    <3>3. Qty(k) \in Int  BY <3>a, Zenon
    <3>4. Paid(k) \in Int  BY <3>1, <3>2
    <3>5. QED  BY <3>3, <3>4
  <2>2. Qty(l + 1) = bought  BY <1>1, <1>2
  <2>3. Paid(l + 1) = spent  BY <1>1, <1>2
  <2>4. QED  BY <2>1, <2>2, <2>3
<1>7. QtyColumn(m)' = [k \in 1..(l + 1) |-> Qty(k)]
  BY <1>1 DEF QtyColumn
<1>8. PaidColumn(m)' = [k \in 1..(l + 1) |-> Paid(k)]
  BY <1>1 DEF PaidColumn
<1>9. QtyColumn(m) = [k \in 1..l |-> Qty(k)]
  BY <1>1 DEF QtyColumn, l
<1>10. PaidColumn(m) = [k \in 1..l |-> Paid(k)]
  BY <1>1 DEF PaidColumn, l
<1> HIDE DEF Qty, Paid, bought, spent
<1>11. bought \in Int /\ spent \in Int  BY <1>3 DEF bought, spent
<1>12. QtyColumn(m) \in Seq(Int) /\ QtyColumn(m)' = Append(QtyColumn(m), bought)
  <2> DEFINE a == QtyColumn(m)
             b == QtyColumn(m)'
  <2>1. /\ a \in Seq(Int) /\ Len(a) = l /\ b \in Seq(Int) /\ Len(b) = l + 1
        /\ b[l + 1] = bought /\ \A k \in 1..l : b[k] = a[k]
    BY <1>1, <1>5, <1>6, <1>7, <1>9
  <2> HIDE DEF a, b
  <2>2. b = Append(a, bought)  BY <1>11, <2>1, AppendIs
  <2>3. QED  BY <2>1, <2>2 DEF a, b
<1>13. PaidColumn(m) \in Seq(Int) /\ PaidColumn(m)' = Append(PaidColumn(m), spent)
  <2> DEFINE a == PaidColumn(m)
             b == PaidColumn(m)'
  <2>1. /\ a \in Seq(Int) /\ Len(a) = l /\ b \in Seq(Int) /\ Len(b) = l + 1
        /\ b[l + 1] = spent /\ \A k \in 1..l : b[k] = a[k]
    BY <1>1, <1>5, <1>6, <1>8, <1>10
  <2> HIDE DEF a, b
  <2>2. b = Append(a, spent)  BY <1>11, <2>1, AppendIs
  <2>3. QED  BY <2>1, <2>2 DEF a, b
<1>14. /\ Total(QtyColumn(m)') = Total(QtyColumn(m)) + bought
       /\ Total(PaidColumn(m)') = Total(PaidColumn(m)) + spent
       /\ Total(QtyColumn(m)) \in Int /\ Total(PaidColumn(m)) \in Int
  BY <1>11, <1>12, <1>13, TotalAppend
<1>15. /\ Cardinality(OwnTrades(m)') = Cardinality(OwnTrades(m)) + (IF m = n THEN 1 ELSE 0)
       /\ Cardinality(OwnTrades(m)) \in Nat
  <2>1. OwnTrades(m) \in SUBSET (1..l)  BY DEF OwnTrades, l
  <2>2. OwnTrades(m)' = IF m = n THEN OwnTrades(m) \cup {l + 1} ELSE OwnTrades(m)
    <3>1. OwnTrades(m)' = {k \in 1..(l + 1) : trades'[k].name = m}
      BY <1>1 DEF OwnTrades
    <3>2. 1..(l + 1) = (1..l) \cup {l + 1} /\ l + 1 \notin 1..l  BY <1>1
    <3>3. OwnTrades(m) = {k \in 1..l : trades'[k].name = m}
      BY <1>1 DEF OwnTrades, l
    <3>4. trades'[l + 1].name = n  BY <1>1, <1>2
    <3>5. QED  BY <3>1, <3>2, <3>3, <3>4
  <2>3. /\ Cardinality(OwnTrades(m)) \in Nat
        /\ Cardinality(OwnTrades(m) \cup {l + 1}) = Cardinality(OwnTrades(m)) + 1
    BY <1>1, <2>1, CountOne
  <2>4. QED  BY <2>2, <2>3
<1>16. QED  BY <1>14, <1>15 DEF bought, spent

\* A strategy's turn keeps its account.
LEMMA TradeKeeps ==
  ASSUME CalibrationInv, Calibration!Trade
  PROVE  CalibrationInv'
<1>1. /\ CalibrationTypes' /\ PositionsWithinCap'
      /\ turn' # 0 /\ UNCHANGED <<price, equityHistory, returns, prevEquity>>
      /\ IdleTurn \/ \E n \in Names, qty \in Int, paid \in Int : TurnOf(n, qty, paid)
  BY TradeDoes
<1>2. MarkedToMarket'
  <2>1. ASSUME NEW m \in Names PROVE MarkedFor(m)'
    <3>1. MarkedFor(m)  BY DEF CalibrationInv, MarkedToMarket
    <3>2. QED  BY <1>1, <3>1 DEF MarkedFor
  <2>2. QED  BY <2>1 DEF MarkedToMarket
<1>3. ASSUME NEW m \in Names PROVE AccountIsTrades(m)'
  <2>1. AccountIsTrades(m)  BY DEF CalibrationInv, AccountsAreTrades
  <2>2. /\ attempted[m] \in Int /\ tradeCount[m] \in Int /\ position[m] \in Int
        /\ cash[m] \in Int /\ trades \in Seq(Execution) /\ trades' \in Seq(Execution)
    BY <1>1 DEF CalibrationInv, CalibrationTypes
  <2>3. CASE IdleTurn
    <3>1. UNCHANGED <<position, cash, tradeCount, trades>>  BY <2>3 DEF IdleTurn
    <3>2. attempted'[m] \in {attempted[m], attempted[m] + 1}  BY <2>3 DEF IdleTurn
    <3>3. tradeCount'[m] <= attempted'[m]
      BY <2>1, <2>2, <3>1, <3>2 DEF AccountIsTrades
    <3>4. /\ QtyColumn(m)' = QtyColumn(m) /\ PaidColumn(m)' = PaidColumn(m)
          /\ OwnTrades(m)' = OwnTrades(m)
      BY <3>1 DEF QtyColumn, PaidColumn, OwnTrades
    <3>5. QED  BY <2>1, <3>1, <3>3, <3>4 DEF AccountIsTrades
  <2>4. ASSUME NEW n \in Names, NEW qty \in Int, NEW paid \in Int, TurnOf(n, qty, paid)
        PROVE  AccountIsTrades(m)'
    <3>1. /\ position'[m] = IF m = n THEN position[m] + qty ELSE position[m]
          /\ cash'[m] = IF m = n THEN cash[m] - paid * qty ELSE cash[m]
          /\ tradeCount'[m] = IF m = n THEN tradeCount[m] + 1 ELSE tradeCount[m]
          /\ attempted'[m] = IF m = n THEN attempted[m] + 1 ELSE attempted[m]
          /\ trades' = Append(trades, [name |-> n, qty |-> qty, price |-> paid, step |-> step])
      BY <2>4 DEF TurnOf
    <3>2. /\ Total(QtyColumn(m)') = Total(QtyColumn(m)) + (IF m = n THEN qty ELSE 0)
          /\ Total(PaidColumn(m)') = Total(PaidColumn(m)) + (IF m = n THEN paid * qty ELSE 0)
          /\ Total(QtyColumn(m)) \in Int /\ Total(PaidColumn(m)) \in Int
          /\ Cardinality(OwnTrades(m)') = Cardinality(OwnTrades(m)) + (IF m = n THEN 1 ELSE 0)
          /\ Cardinality(OwnTrades(m)) \in Nat
      BY <2>2, <3>1, ColumnsGrow
    <3>3. position'[m] = Total(QtyColumn(m)')
      BY <2>1, <2>2, <3>1, <3>2 DEF AccountIsTrades
    <3>4. cash'[m] = -Total(PaidColumn(m)')
      <4> DEFINE cost == paid * qty
      <4>1. cost \in Int  OBVIOUS
      <4>2. /\ cash'[m] = IF m = n THEN cash[m] - cost ELSE cash[m]
            /\ Total(PaidColumn(m)') = Total(PaidColumn(m)) + (IF m = n THEN cost ELSE 0)
        BY <3>1, <3>2
      <4> HIDE DEF cost
      <4>3. cash[m] = -Total(PaidColumn(m))  BY <2>1 DEF AccountIsTrades
      <4>4. QED  BY <2>2, <3>2, <4>1, <4>2, <4>3
    <3>5. /\ tradeCount'[m] = Cardinality(OwnTrades(m)')
          /\ tradeCount'[m] <= attempted'[m]
      BY <2>1, <2>2, <3>1, <3>2 DEF AccountIsTrades
    <3>6. QED  BY <3>3, <3>4, <3>5 DEF AccountIsTrades
  <2>5. QED  BY <1>1, <2>3, <2>4
<1>4. QED  BY <1>1, <1>2, <1>3 DEF CalibrationInv, AccountsAreTrades

\* The end of a step marks every strategy to the price its flow led to.
LEMMA MarkKeeps ==
  ASSUME CalibrationInv, Calibration!Mark
  PROVE  CalibrationInv'
<1>1. /\ step \in Nat /\ price \in Int /\ netFlow \in Int
      /\ position \in [Names -> Int] /\ cash \in [Names -> Int]
      /\ prevEquity \in [Names -> Int]
      /\ equityHistory \in [Names -> Seq(Int) \ {<<>>}] /\ returns \in [Names -> Seq(Int)]
  BY DEF CalibrationInv, CalibrationTypes
<1>2. /\ step' = step + 1 /\ turn' = 0 /\ netFlow' = 0
      /\ UNCHANGED <<position, cash, attempted, tradeCount, trades, truncated>>
  BY DEF Calibration!Mark
<1> DEFINE Equity(m) == cash[m] + position[m] * price'
<1>3. /\ price' \in Int
      /\ prevEquity' = [m \in Names |-> Equity(m)]
      /\ equityHistory' = [m \in Names |-> Append(equityHistory[m], Equity(m))]
      /\ returns' = [m \in Names |-> Append(returns[m], Equity(m) - prevEquity[m])]
  <2>1. PICK noise \in Noise :
          LET next == Calibration!Max({1, price + noise + netFlow})
              equity == [n \in Calibration!Names |-> cash[n] + position[n] * next] IN
          /\ price' = next
          /\ equityHistory' = [n \in Calibration!Names |-> Append(equityHistory[n], equity[n])]
          /\ returns' = [n \in Calibration!Names |-> Append(returns[n], equity[n] - prevEquity[n])]
          /\ prevEquity' = Calibration!Previous(equity)
    BY DEF Calibration!Mark
  <2>2. Calibration!Names = Names  BY InCalibration
  <2>3. price' \in Int
    <3> DEFINE moved == price + noise + netFlow
    <3>1. moved \in Int
      <4>1. noise \in Int  BY CalibrationAssumption
      <4>2. QED  BY <1>1, <4>1
    <3>2. price' = Max({1, moved})  BY <2>1, InCalibration
    <3> HIDE DEF moved
    <3>3. Max({1, moved}) = IF 1 >= moved THEN 1 ELSE moved  BY <3>1, TheLarger
    <3>4. QED  BY <3>1, <3>2, <3>3
  <2> DEFINE equity == [m \in Names |-> Equity(m)]
  <2>4. /\ equityHistory' = [m \in Names |-> Append(equityHistory[m], equity[m])]
        /\ returns' = [m \in Names |-> Append(returns[m], equity[m] - prevEquity[m])]
        /\ prevEquity' = equity
    BY <2>1, <2>2 DEF Calibration!Previous
  <2>5. \A m \in Names : equity[m] = Equity(m)  OBVIOUS
  <2> HIDE DEF Equity, equity
  <2>6. /\ equityHistory' = [m \in Names |-> Append(equityHistory[m], Equity(m))]
        /\ returns' = [m \in Names |-> Append(returns[m], Equity(m) - prevEquity[m])]
    BY <2>4, <2>5
  <2>7. QED  BY <2>3, <2>4, <2>6 DEF equity
<1>4. \A m \in Names : Equity(m) \in Int
  <2>1. ASSUME NEW m \in Names PROVE Equity(m) \in Int
    <3>1. cash[m] \in Int /\ position[m] \in Int  BY <1>1
    <3>2. position[m] * price' \in Int  BY <1>3, <3>1
    <3>3. QED  BY <3>1, <3>2
  <2>2. QED  BY <2>1
<1> HIDE DEF Equity
<1>5. \A m \in Names :
        LET e == equityHistory[m] IN
        /\ e \in Seq(Int) /\ Len(e) \in Nat
        /\ equityHistory'[m] = Append(e, Equity(m))
        /\ equityHistory'[m] \in Seq(Int) \ {<<>>}
        /\ Len(equityHistory'[m]) = Len(e) + 1
        /\ equityHistory'[m][Len(e) + 1] = Equity(m)
  <2> SUFFICES ASSUME NEW m \in Names
               PROVE  LET e == equityHistory[m] IN
                      /\ e \in Seq(Int) /\ Len(e) \in Nat
                      /\ equityHistory'[m] = Append(e, Equity(m))
                      /\ equityHistory'[m] \in Seq(Int) \ {<<>>}
                      /\ Len(equityHistory'[m]) = Len(e) + 1
                      /\ equityHistory'[m][Len(e) + 1] = Equity(m)
    OBVIOUS
  <2> DEFINE e == equityHistory[m]
             value == Equity(m)
  <2>1. e \in Seq(Int) /\ value \in Int  BY <1>1, <1>4
  <2>2. equityHistory'[m] = Append(e, value)  BY <1>3
  <2> HIDE DEF e, value
  <2>3. /\ Append(e, value) \in Seq(Int) /\ Len(e) \in Nat
        /\ Len(Append(e, value)) = Len(e) + 1 /\ Append(e, value)[Len(e) + 1] = value
    BY <2>1
  <2>4. Append(e, value) # <<>>  BY <2>3
  <2>5. QED  BY <2>1, <2>2, <2>3, <2>4 DEF e, value
<1>6. \A m \in Names : Equity(m) - prevEquity[m] \in Int /\ returns[m] \in Seq(Int)
  BY <1>1, <1>4
<1>7. CalibrationTypes'
  <2>1. equityHistory' \in [Names -> Seq(Int) \ {<<>>}]  BY <1>3, <1>5
  <2>2. returns' \in [Names -> Seq(Int)]  BY <1>3, <1>6
  <2>3. prevEquity' \in [Names -> Int]  BY <1>3, <1>4
  <2>4. turn' \in 0..Len(States)  BY <1>2, CalibrationAssumption
  <2>5. /\ step' \in Nat /\ netFlow' \in Int
        /\ position' \in [Names -> Int] /\ cash' \in [Names -> Int]
        /\ attempted' \in [Names -> Int] /\ tradeCount' \in [Names -> Int]
        /\ trades' \in Seq(Execution)
    BY <1>1, <1>2 DEF CalibrationInv, CalibrationTypes
  <2>6. QED  BY <1>3, <2>1, <2>2, <2>3, <2>4, <2>5 DEF CalibrationTypes
<1>8. PositionsWithinCap'  BY <1>2 DEF CalibrationInv, PositionsWithinCap
<1>9. AccountsAreTrades'
  BY <1>2 DEF CalibrationInv, AccountsAreTrades, AccountIsTrades, QtyColumn, PaidColumn, OwnTrades
<1>10. ASSUME NEW m \in Names PROVE MarkedFor(m)'
  <2> DEFINE e == equityHistory[m]
             now == equityHistory'[m]
  <2>1. now[Len(now)] = Equity(m)  BY <1>5
  <2>2. prevEquity'[m] = Equity(m)  BY <1>3
  <2>3. Equity(m) = cash'[m] + position'[m] * price'  BY <1>2 DEF Equity
  <2>4. Total(returns'[m]) = Equity(m)
    <3> DEFINE gain == Equity(m) - prevEquity[m]
    <3>1. gain \in Int /\ returns[m] \in Seq(Int) /\ Equity(m) \in Int /\ prevEquity[m] \in Int
      BY <1>1, <1>4, <1>6
    <3>2. returns'[m] = Append(returns[m], gain)  BY <1>3
    <3>3. Total(returns[m]) = prevEquity[m]
      BY DEF CalibrationInv, MarkedToMarket, MarkedFor
    <3>4. gain + prevEquity[m] = Equity(m)  BY <3>1
    <3> HIDE DEF gain
    <3>5. Total(Append(returns[m], gain)) = Total(returns[m]) + gain
      BY <3>1, TotalAppend
    <3>6. QED  BY <3>1, <3>2, <3>3, <3>4, <3>5
  <2>5. QED  BY <2>1, <2>2, <2>3, <2>4 DEF MarkedFor
<1>11. QED  BY <1>7, <1>8, <1>9, <1>10 DEF CalibrationInv, MarkedToMarket

\* Every step of the market.
LEMMA CalibrationMoves ==
  ASSUME CalibrationInv, [Calibration!Next]_calibrationVars
  PROVE  CalibrationInv'
<1>1. CASE UNCHANGED calibrationVars
  <2>1. CalibrationTypes'  BY <1>1 DEF calibrationVars, CalibrationInv, CalibrationTypes
  <2>2. PositionsWithinCap'  BY <1>1 DEF calibrationVars, CalibrationInv, PositionsWithinCap
  <2>3. AccountsAreTrades'
    BY <1>1 DEF calibrationVars, CalibrationInv, AccountsAreTrades, AccountIsTrades,
                QtyColumn, PaidColumn, OwnTrades
  <2>4. MarkedToMarket'
    BY <1>1 DEF calibrationVars, CalibrationInv, MarkedToMarket, MarkedFor
  <2>5. QED  BY <2>1, <2>2, <2>3, <2>4 DEF CalibrationInv
<1>2. CASE Calibration!Next  BY <1>2, TradeKeeps, MarkKeeps DEF Calibration!Next
<1>3. QED  BY <1>1, <1>2

\* What MaxDrawdown takes as the highest value so far.
LEMMA PeaksAre ==
  ASSUME NEW e \in Seq(Int), e # <<>>
  PROVE  \E peaks \in [1..Len(e) -> Int] :
           /\ Calibration!MaxDrawdown(e) = Max({0} \cup {peaks[k] - e[k] : k \in 1..Len(e)})
           /\ peaks[1] = e[1]
           /\ \A k \in 2..Len(e) :
                peaks[k] = IF peaks[k - 1] >= e[k] THEN peaks[k - 1] ELSE e[k]
<1> DEFINE n == Len(e)
           turns == [k \in 1..n |-> [peak \in Int |->
                       IF k = 1 THEN e[1] ELSE IF peak >= e[k] THEN peak ELSE e[k]]]
           Body(g) == [k \in DOMAIN e |->
                         IF k = 1 THEN e[1] ELSE Calibration!Peak(g[k - 1], e[k])]
           m == CHOOSE peaks : peaks = Body(peaks)
<1>1. n \in Nat /\ n >= 1 /\ DOMAIN e = 1..n /\ \A k \in 1..n : e[k] \in Int
  OBVIOUS
<1>2. turns \in [1..n -> [Int -> Int]]
  <2>1. 1 \in 1..n  BY <1>1
  <2>2. QED  BY <1>1, <2>1
<1>a. \A k \in 1..n, peak \in Int :
        turns[k][peak] = IF k = 1 THEN e[1] ELSE IF peak >= e[k] THEN peak ELSE e[k]
  OBVIOUS
<1> HIDE DEF n, turns
<1>3. PICK f \in [0..n -> Int] : IsRun(f, n, 0, turns)
  <2>1. 0 \in Int  OBVIOUS
  <2>2. QED  BY <1>1, <1>2, <2>1, LoopRuns
<1> DEFINE h == [k \in 1..n |-> f[k]]
<1>4. \A k \in 1..n : f[k] = IF k = 1 THEN e[1] ELSE IF f[k - 1] >= e[k] THEN f[k - 1] ELSE e[k]
  <2> SUFFICES ASSUME NEW k \in 1..n
               PROVE  f[k] = IF k = 1 THEN e[1] ELSE IF f[k - 1] >= e[k] THEN f[k - 1] ELSE e[k]
    OBVIOUS
  <2>1. k - 1 \in 0..n  BY <1>1
  <2>2. f[k] = turns[k][f[k - 1]]  BY <1>3 DEF IsRun
  <2>3. f[k - 1] \in Int  BY <2>1
  <2>4. QED  BY <1>a, <2>2, <2>3
<1>5. \A a, b \in Int : Calibration!Peak(a, b) = IF a >= b THEN a ELSE b
  BY TheLarger, InCalibration DEF Calibration!Peak
<1>6. h = Body(h)
  <2>1. ASSUME NEW k \in 1..n
        PROVE  h[k] = IF k = 1 THEN e[1] ELSE Calibration!Peak(h[k - 1], e[k])
    <3>1. CASE k = 1  BY <1>4, <3>1
    <3>2. CASE k # 1
      <4>1. k - 1 \in 1..n /\ k \in 0..n /\ k - 1 \in 0..n  BY <1>1, <3>2
      <4>2. h[k - 1] = f[k - 1] /\ h[k] = f[k] /\ f[k - 1] \in Int /\ e[k] \in Int
        BY <1>1, <4>1
      <4>3. f[k] = IF f[k - 1] >= e[k] THEN f[k - 1] ELSE e[k]  BY <1>4, <3>2
      <4>4. Calibration!Peak(f[k - 1], e[k]) = IF f[k - 1] >= e[k] THEN f[k - 1] ELSE e[k]
        BY <1>5, <4>2
      <4>5. QED  BY <3>2, <4>2, <4>3, <4>4
    <3>3. QED  BY <3>1, <3>2
  <2>2. h = [k \in 1..n |-> IF k = 1 THEN e[1] ELSE Calibration!Peak(h[k - 1], e[k])]
    <3> HIDE DEF h
    <3>1. h = [k \in 1..n |-> h[k]]  BY DEF h
    <3>2. QED  BY <2>1, <3>1
  <2>3. QED  BY <1>1, <2>2
<1>7. m = Body(m)
  <2> HIDE DEF Body, h
  <2>1. QED  BY <1>6
<1>8. Calibration!MaxDrawdown(e) =
        Calibration!Max({0} \cup {m[k] - e[k] : k \in DOMAIN e})
  BY DEF Calibration!MaxDrawdown
<1> HIDE DEF m
<1>9. m[1] = e[1] /\ \A k \in 2..n : m[k] = Calibration!Peak(m[k - 1], e[k])
  <2>1. 1 \in 1..n /\ \A k \in 2..n : k \in 1..n /\ k # 1  BY <1>1
  <2>2. QED  BY <1>1, <1>7, <2>1
<1>10. \A k \in 1..n : m[k] \in Int
  <2> DEFINE T == {k \in 0..n : k = 0 \/ m[k] \in Int}
  <2>1. 0 \in T  BY <1>1
  <2>2. ASSUME NEW k \in 0..n, k < n, k \in T PROVE k + 1 \in T
    <3>1. k + 1 \in 0..n /\ k + 1 \in 1..n /\ (k + 1) - 1 = k  BY <1>1, <2>2
    <3>2. CASE k = 0  BY <1>1, <1>9, <3>1, <3>2
    <3>3. CASE k # 0
      <4>1. k + 1 \in 2..n /\ m[k] \in Int /\ e[k + 1] \in Int  BY <1>1, <2>2, <3>1, <3>3
      <4>2. m[k + 1] = Calibration!Peak(m[k], e[k + 1])  BY <1>9, <3>1, <4>1
      <4>3. QED  BY <1>5, <3>1, <4>1, <4>2
    <3>4. QED  BY <3>2, <3>3
  <2> HIDE DEF T
  <2>3. \A k \in 0..n : k \in T  BY <1>1, <2>1, <2>2, UpTo
  <2>4. \A k \in 1..n : k \in 0..n /\ k # 0  BY <1>1
  <2>5. QED  BY <2>3, <2>4 DEF T
<1>11. m \in [1..n -> Int]
  <2>1. m = [k \in 1..n |-> m[k]]
    <3>1. DOMAIN m = 1..n /\ m = [k \in DOMAIN m |-> m[k]]
      BY <1>1, <1>7
    <3>2. QED  BY <3>1
  <2>2. QED  BY <1>10, <2>1
<1>12. \A k \in 2..n : m[k] = IF m[k - 1] >= e[k] THEN m[k - 1] ELSE e[k]
  <2> SUFFICES ASSUME NEW k \in 2..n
               PROVE  m[k] = IF m[k - 1] >= e[k] THEN m[k - 1] ELSE e[k]
    OBVIOUS
  <2>1. k \in 1..n /\ k - 1 \in 1..n  BY <1>1
  <2>2. QED  BY <1>1, <1>5, <1>9, <1>10, <2>1
<1>13. Calibration!MaxDrawdown(e) = Max({0} \cup {m[k] - e[k] : k \in 1..n})
  BY <1>1, <1>8, InCalibration
<1>14. QED  BY <1>9, <1>11, <1>12, <1>13 DEF n

\* Among finitely many numbers and zero one is the largest.
LEMMA LargestOf ==
  ASSUME NEW n \in Nat, NEW f, \A k \in 1..n : f[k] \in Int
  PROVE  \E m \in Int : /\ m >= 0 /\ \A k \in 1..n : m >= f[k]
                        /\ m = 0 \/ \E k \in 1..n : m = f[k]
<1> DEFINE Bound(m, i) == /\ m >= 0 /\ \A k \in 1..i : m >= f[k]
                          /\ m = 0 \/ \E k \in 1..i : m = f[k]
           T == {i \in 0..n : \E m \in Int : Bound(m, i)}
<1>1. 0 \in T
  <2>1. Bound(0, 0)  OBVIOUS
  <2>2. QED  BY <2>1
<1>2. ASSUME NEW i \in 0..n, i < n, i \in T PROVE i + 1 \in T
  <2>1. PICK m \in Int : Bound(m, i)  BY <1>2
  <2>2. /\ i + 1 \in 0..n /\ i + 1 \in 1..n /\ f[i + 1] \in Int
        /\ \A k \in 1..(i + 1) : k \in 1..i \/ k = i + 1
        /\ \A k \in 1..i : k \in 1..(i + 1) /\ f[k] \in Int
    <3>1. i + 1 \in 0..n /\ i + 1 \in 1..n  BY <1>2
    <3>2. \A k \in 1..(i + 1) : k \in 1..i \/ k = i + 1  OBVIOUS
    <3>3. \A k \in 1..i : k \in 1..(i + 1) /\ k \in 1..n  OBVIOUS
    <3>4. QED  BY <3>1, <3>2, <3>3
  <2> DEFINE new == IF m >= f[i + 1] THEN m ELSE f[i + 1]
  <2>3. new \in Int /\ new >= m /\ new >= f[i + 1]  BY <2>2
  <2>4. \A k \in 1..(i + 1) : new >= f[k]
    <3> SUFFICES ASSUME NEW k \in 1..(i + 1) PROVE new >= f[k]  OBVIOUS
    <3> HIDE DEF new
    <3>1. CASE k = i + 1  BY <2>3, <3>1
    <3>2. CASE k \in 1..i
      <4>1. m >= f[k] /\ f[k] \in Int  BY <2>1, <2>2, <3>2
      <4>2. QED  BY <2>3, <4>1
    <3>3. QED  BY <2>2, <3>1, <3>2
  <2>5. new = 0 \/ \E k \in 1..(i + 1) : new = f[k]
    <3>1. i + 1 \in 1..(i + 1)  OBVIOUS
    <3>2. QED  BY <2>1, <2>2, <3>1
  <2>6. Bound(new, i + 1)
    <3> HIDE DEF new
    <3>1. new >= 0  BY <2>1, <2>3
    <3>2. QED  BY <2>4, <2>5, <3>1
  <2> HIDE DEF new, Bound
  <2>7. QED  BY <2>2, <2>3, <2>6
<1> HIDE DEF T
<1>3. \A i \in 0..n : i \in T  BY <1>1, <1>2, UpTo
<1>4. n \in T  BY <1>3
<1>5. QED  BY <1>4 DEF T

\* The drawdown computed along the curve is its largest fall.
LEMMA DrawdownIs ==
  ASSUME NEW e \in Seq(Int), e # <<>>
  PROVE  Calibration!MaxDrawdown(e) = Max(UNION {{e[j] - e[k] : j \in 1..k} : k \in DOMAIN e})
<1> DEFINE n == Len(e)
           falls == UNION {{e[j] - e[k] : j \in 1..k} : k \in 1..n}
<1>1. n \in Nat /\ n >= 1 /\ DOMAIN e = 1..n /\ \A k \in 1..n : e[k] \in Int
  OBVIOUS
<1>2. PICK peaks \in [1..n -> Int] :
           /\ Calibration!MaxDrawdown(e) = Max({0} \cup {peaks[k] - e[k] : k \in 1..n})
           /\ peaks[1] = e[1]
           /\ \A k \in 2..n :
                peaks[k] = IF peaks[k - 1] >= e[k] THEN peaks[k - 1] ELSE e[k]
  BY PeaksAre
<1> HIDE DEF n
<1> DEFINE Top(k) == /\ \A j \in 1..k : peaks[k] >= e[j]
                     /\ \E j \in 1..k : peaks[k] = e[j]
<1>3. \A k \in 1..n : Top(k)
  <2> DEFINE T == {k \in 0..n : k = 0 \/ Top(k)}
  <2>1. 0 \in T  BY <1>1
  <2>2. ASSUME NEW k \in 0..n, k < n, k \in T PROVE k + 1 \in T
    <3>1. k + 1 \in 0..n /\ k + 1 \in 1..n /\ (k + 1) - 1 = k /\ k \in Nat  BY <1>1, <2>2
    <3>2. CASE k = 0
      <4>1. \A j \in 1..(k + 1) : j = 1  BY <3>2
      <4>2. 1 \in 1..(k + 1)  BY <3>2
      <4>3. Top(k + 1)  BY <1>1, <1>2, <3>1, <3>2, <4>1, <4>2
      <4>4. QED  BY <3>1, <4>3
    <3>3. CASE k # 0
      <4>1. k + 1 \in 2..n /\ k \in 1..n  BY <1>1, <2>2, <3>1, <3>3
      <4>2. peaks[k + 1] = IF peaks[k] >= e[k + 1] THEN peaks[k] ELSE e[k + 1]
        BY <1>2, <3>1, <4>1
      <4>3. Top(k)  BY <2>2, <3>3
      <4>4. \A j \in 1..(k + 1) : (j \in 1..k \/ j = k + 1) /\ e[j] \in Int
        <5>1. \A j \in 1..(k + 1) : (j \in 1..k \/ j = k + 1) /\ j \in 1..n
          BY <1>1, <3>1
        <5>2. QED  BY <1>1, <5>1
      <4>5. peaks[k] \in Int /\ e[k + 1] \in Int /\ peaks[k + 1] \in Int  BY <1>1, <3>1, <4>1
      <4>6. \A j \in 1..(k + 1) : peaks[k + 1] >= e[j]
        <5> SUFFICES ASSUME NEW j \in 1..(k + 1) PROVE peaks[k + 1] >= e[j]  OBVIOUS
        <5>1. CASE j = k + 1  BY <4>2, <4>5, <5>1
        <5>2. CASE j \in 1..k
          <6>1. peaks[k] >= e[j] /\ e[j] \in Int  BY <4>3, <4>4, <5>2
          <6>2. QED  BY <4>2, <4>5, <6>1
        <5>3. QED  BY <4>4, <5>1, <5>2
      <4>7. \E j \in 1..(k + 1) : peaks[k + 1] = e[j]
        <5>1. k + 1 \in 1..(k + 1) /\ \A j \in 1..k : j \in 1..(k + 1)  BY <3>1
        <5>2. QED  BY <4>2, <4>3, <5>1
      <4>8. Top(k + 1)  BY <4>6, <4>7
      <4> HIDE DEF Top
      <4>9. QED  BY <3>1, <4>8
    <3>4. QED  BY <3>2, <3>3
  <2> HIDE DEF T, Top
  <2>3. \A k \in 0..n : k \in T  BY <1>1, <2>1, <2>2, UpTo
  <2>4. \A k \in 1..n : k \in 0..n /\ k # 0  BY <1>1
  <2>5. QED  BY <2>3, <2>4 DEF T
<1> DEFINE drops == {0} \cup {peaks[k] - e[k] : k \in 1..n}
           f == [k \in 1..n |-> peaks[k] - e[k]]
<1>4. \A k \in 1..n : f[k] = peaks[k] - e[k] /\ f[k] \in Int  BY <1>1
<1> HIDE DEF f
<1>5. PICK m \in Int : /\ m >= 0 /\ \A k \in 1..n : m >= f[k]
                       /\ m = 0 \/ \E k \in 1..n : m = f[k]
  BY <1>1, <1>4, LargestOf
<1>6. m \in drops /\ \A x \in drops : x \in Int /\ m >= x
  BY <1>4, <1>5
<1>7. m \in falls
  <2>1. CASE m = 0
    <3>1. 1 \in 1..n /\ 1 \in 1..1 /\ e[1] - e[1] = 0  BY <1>1
    <3>2. QED  BY <2>1, <3>1
  <2>2. CASE \E k \in 1..n : m = f[k]
    <3>1. PICK k \in 1..n : m = f[k]  BY <2>2
    <3>2. PICK j \in 1..k : peaks[k] = e[j]  BY <1>3
    <3>3. m = e[j] - e[k]  BY <1>4, <3>1, <3>2
    <3>4. QED  BY <3>3
  <2>3. QED  BY <1>5, <2>1, <2>2
<1>8. \A x \in falls : x \in Int /\ m >= x
  <2> SUFFICES ASSUME NEW x \in falls PROVE x \in Int /\ m >= x  OBVIOUS
  <2>1. PICK k \in 1..n : x \in {e[j] - e[k] : j \in 1..k}  OBVIOUS
  <2>2. PICK j \in 1..k : x = e[j] - e[k]  BY <2>1
  <2>3. j \in 1..n  BY <1>1
  <2>4. e[j] \in Int /\ e[k] \in Int /\ peaks[k] \in Int  BY <1>1, <2>3
  <2>5. peaks[k] >= e[j]  BY <1>3
  <2>6. m >= peaks[k] - e[k]  BY <1>4, <1>5
  <2> HIDE DEF Top
  <2>7. x \in Int /\ x <= peaks[k] - e[k]  BY <2>2, <2>4, <2>5
  <2>8. peaks[k] - e[k] \in Int /\ m \in Int  BY <2>4
  <2>9. QED  BY <2>6, <2>7, <2>8
<1> HIDE DEF drops, falls
<1>9. ASSUME NEW S, m \in S, \A x \in S : x \in Int /\ m >= x
      PROVE  Max(S) = m
  <2>1. Max(S) = CHOOSE x \in S : \A y \in S : x >= y  BY DEF Max
  <2>2. \E x \in S : \A y \in S : x >= y  BY <1>9
  <2>3. Max(S) \in S /\ \A y \in S : Max(S) >= y  BY <2>1, <2>2
  <2>4. Max(S) >= m /\ m >= Max(S) /\ Max(S) \in Int /\ m \in Int  BY <1>9, <2>3
  <2>5. QED  BY <2>4
<1>10. Max(drops) = m /\ Max(falls) = m  BY <1>6, <1>7, <1>8, <1>9
<1>11. Calibration!MaxDrawdown(e) = Max(drops)  BY <1>2 DEF drops
<1>12. QED  BY <1>1, <1>10, <1>11 DEF falls

\* The invariant makes the report that of the trades.
LEMMA CalibrationSound ==
  ASSUME CalibrationInv
  PROVE  ReportIsTheTrades
<1>1. /\ price \in Int /\ trades \in Seq(Execution)
      /\ position \in [Names -> Int] /\ cash \in [Names -> Int]
      /\ equityHistory \in [Names -> Seq(Int) \ {<<>>}]
      /\ Calibration!Names = Names
  BY InCalibration DEF CalibrationInv, CalibrationTypes
<1>2. Calibration!RiskCapNeverCuts
  <2>1. CalibrationCap \in Nat  BY CalibrationAssumption
  <2>2. QED  BY <1>1, <2>1 DEF CalibrationInv, PositionsWithinCap, Calibration!RiskCapNeverCuts
<1>3. ASSUME NEW n \in Names
      PROVE  /\ Calibration!Last(equityHistory[n]) = equityHistory[n][Len(equityHistory[n])]
             /\ MarkedFor(n) /\ AccountIsTrades(n)
  <2>1. Calibration!Last(equityHistory[n]) = equityHistory[n][Len(equityHistory[n])]
    BY InCalibration DEF Last
  <2>2. QED  BY <2>1 DEF CalibrationInv, MarkedToMarket, AccountsAreTrades
<1>4. Calibration!ReturnsSumToEquity
  <2>1. ASSUME NEW n \in Names
        PROVE  Calibration!Total(returns[n]) = Calibration!Last(equityHistory[n])
    BY <1>3, InCalibration DEF MarkedFor
  <2>2. QED  BY <1>1, <2>1 DEF Calibration!ReturnsSumToEquity
<1>5. Calibration!DrawdownIsLargestFall
  <2>1. ASSUME NEW n \in Names
        PROVE  LET e == equityHistory[n] IN
               Calibration!Summary(n).drawdown =
                 Calibration!Max(UNION {{e[j] - e[k] : j \in 1..k} : k \in DOMAIN e})
    <3> DEFINE e == equityHistory[n]
    <3>1. e \in Seq(Int) /\ e # <<>>  BY <1>1
    <3>2. Calibration!Summary(n).drawdown = Calibration!MaxDrawdown(e)
      BY DEF Calibration!Summary
    <3> HIDE DEF e
    <3>3. Calibration!MaxDrawdown(e) = Max(UNION {{e[j] - e[k] : j \in 1..k} : k \in DOMAIN e})
      BY <3>1, DrawdownIs
    <3>4. QED  BY <3>2, <3>3, InCalibration DEF e
  <2>2. QED  BY <1>1, <2>1 DEF Calibration!DrawdownIsLargestFall
<1>6. Calibration!EquityIsTrades
  <2>1. ASSUME NEW n \in Names
        PROVE  LET own == {k \in DOMAIN trades : trades[k].name = n}
                   made == [k \in DOMAIN trades |->
                     IF k \in own THEN trades[k].qty * (price - trades[k].price) ELSE 0] IN
               /\ turn = 0 => Calibration!Summary(n).pnl = Calibration!Total(made)
               /\ Calibration!Cardinality(own) = Calibration!Summary(n).fills
               /\ Calibration!Summary(n).fills <= Calibration!Summary(n).attempts
    <3> DEFINE l == Len(trades)
               own == {k \in DOMAIN trades : trades[k].name = n}
               made == [k \in DOMAIN trades |->
                 IF k \in own THEN trades[k].qty * (price - trades[k].price) ELSE 0]
    <3>1. DOMAIN trades = 1..l /\ l \in Nat  BY <1>1
    <3>2. own = OwnTrades(n)  BY <3>1 DEF OwnTrades
    <3>3. /\ Calibration!Summary(n).pnl = Calibration!Last(equityHistory[n])
          /\ Calibration!Summary(n).fills = tradeCount[n]
          /\ Calibration!Summary(n).attempts = attempted[n]
      BY DEF Calibration!Summary
    <3>4. /\ Calibration!Cardinality(own) = Calibration!Summary(n).fills
          /\ Calibration!Summary(n).fills <= Calibration!Summary(n).attempts
      BY <1>3, <3>2, <3>3, InCalibration DEF AccountIsTrades
    <3>5. Total(made) = price * position[n] + cash[n]
      <4> DEFINE q == QtyColumn(n)
                 p == PaidColumn(n)
      <4>1. ASSUME NEW k \in 1..l
            PROVE  /\ q[k] \in Int /\ p[k] \in Int /\ made[k] \in Int
                   /\ made[k] = price * q[k] - p[k]
        <5> DEFINE a == trades[k].qty
                   b == trades[k].price
        <5>1. trades[k] \in Execution  BY <1>1, <4>1
        <5>2. a \in Int /\ b \in Int  BY <5>1 DEF Execution
        <5>3. /\ q[k] = IF trades[k].name = n THEN a ELSE 0
              /\ p[k] = IF trades[k].name = n THEN b * a ELSE 0
          BY <4>1 DEF QtyColumn, PaidColumn
        <5>4. made[k] = IF trades[k].name = n THEN a * (price - b) ELSE 0
          BY <3>1, <4>1
        <5> HIDE DEF a, b, q, p, made
        <5>5. a * (price - b) = price * a - b * a /\ price * 0 = 0  BY <1>1, <5>2
        <5>6. b * a \in Int /\ price * a \in Int /\ a * (price - b) \in Int  BY <1>1, <5>2
        <5>7. CASE trades[k].name = n  BY <5>2, <5>3, <5>4, <5>5, <5>6, <5>7
        <5>8. CASE trades[k].name # n  BY <5>3, <5>4, <5>5, <5>8
        <5>9. QED  BY <5>7, <5>8
      <4>2. /\ q \in Seq(Int) /\ Len(q) = l /\ p \in Seq(Int) /\ Len(p) = l
            /\ made \in Seq(Int) /\ Len(made) = l
        <5>1. q = [k \in 1..l |-> q[k]] /\ p = [k \in 1..l |-> p[k]]
          BY DEF QtyColumn, PaidColumn
        <5>2. made = [k \in 1..l |-> made[k]]  BY <3>1
        <5> HIDE DEF made, q, p, l
        <5>3. q \in Seq(Int) /\ Len(q) = l  BY <3>1, <4>1, <5>1
        <5>4. p \in Seq(Int) /\ Len(p) = l  BY <3>1, <4>1, <5>1
        <5>5. made \in Seq(Int) /\ Len(made) = l  BY <3>1, <4>1, <5>2
        <5>6. QED  BY <5>3, <5>4, <5>5
      <4>3. position[n] = Total(q) /\ cash[n] = -Total(p)
        BY <1>3 DEF AccountIsTrades
      <4> HIDE DEF made, q, p, l
      <4>4. Total(made) = price * Total(q) - Total(p)
        <5>1. \A i \in 1..Len(q) : made[i] = price * q[i] - p[i]  BY <4>1, <4>2
        <5>2. Len(p) = Len(q) /\ Len(made) = Len(q)  BY <4>2
        <5>3. QED  BY <1>1, <4>2, <5>1, <5>2, TotalLinear
      <4>5. Total(p) \in Int /\ price * Total(q) \in Int
        <5>1. Total(p) \in Int /\ Total(q) \in Int  BY <4>2, TotalType
        <5>2. QED  BY <1>1, <5>1
      <4> DEFINE value == price * Total(q)
      <4>6. Total(made) = value - Total(p) /\ value \in Int  BY <4>4, <4>5
      <4> HIDE DEF value
      <4>7. Total(made) = value + cash[n]  BY <4>3, <4>5, <4>6
      <4>8. QED  BY <4>3, <4>7 DEF value
    <3>6. ASSUME turn = 0 PROVE Calibration!Summary(n).pnl = Calibration!Total(made)
      <4>1. equityHistory[n][Len(equityHistory[n])] = cash[n] + position[n] * price
        BY <1>3, <3>6 DEF MarkedFor
      <4>2. Calibration!Total(made) = Total(made)  BY InCalibration
      <4>3. cash[n] \in Int /\ position[n] \in Int  BY <1>1
      <4>4. cash[n] + position[n] * price = price * position[n] + cash[n]  BY <1>1, <4>3
      <4> HIDE DEF made
      <4>5. QED  BY <1>3, <3>3, <3>5, <4>1, <4>2, <4>4
    <3>7. QED  BY <3>4, <3>6
  <2>2. QED  BY <1>1, <2>1 DEF Calibration!EquityIsTrades
<1>7. QED
  BY <1>2, <1>4, <1>5, <1>6 DEF ReportIsTheTrades, Calibration!ReportIsTheTrades

-----------------------------------------------------------------------------
(* A session of the simulator *)

SessionEvent == [id : Nat, raw : Nat, ready : Nat, side : Sim!Side]
SessionExecution ==
  [side : Sim!Side, reference : Int, filled : Nat, shortfall : Nat,
   temporary : Nat, permanent : Nat, cost : Int]

\* What one side of the book is seeded with.
Seed == BaseQuantity * SeedDepth + (SeedDepth * (SeedDepth - 1)) \div 2

SessionTypes ==
  /\ simPc \in {"sample", "flush", "final", "report", "done"}
  /\ maxEvents \in Nat /\ clock \in Nat /\ limit \in Nat
  /\ generated \subseteq SessionEvent /\ IsFiniteSet(generated)
  /\ queue \subseteq generated
  /\ arrivals \in Seq(SessionEvent)
  /\ executions \in Seq(SessionExecution)
  /\ totals \in [cost : Int, temporary : Int, permanent : Int, shortfall : Int]
  /\ book \in [Sim!Side -> [Sim!Levels -> Nat]]

\* Every event is queued, recorded once, or was ready too late.
EventsPlaced ==
  /\ \A e \in generated : e.id <= Cardinality(generated)
  /\ \A i, j \in 1..Len(arrivals) : arrivals[i] = arrivals[j] => i = j
  /\ \A i \in 1..Len(arrivals) : arrivals[i] \in generated \ queue /\ arrivals[i].ready <= Session
  /\ \A e \in generated \ queue :
       e.ready > Session \/ \E i \in 1..Len(arrivals) : arrivals[i] = e

\* What was recorded was ready before what was recorded later, what is queued
\* and what is yet to come.
EventsOrdered ==
  /\ \A i, j \in 1..Len(arrivals) : i <= j => arrivals[i].ready <= arrivals[j].ready
  /\ \A i \in 1..Len(arrivals) : \A e \in queue : arrivals[i].ready <= e.ready
  /\ \A i \in 1..Len(arrivals) : arrivals[i].ready <= clock

\* Where a flush ends, and how a run may be over.
SessionPhases ==
  /\ simPc = "flush" => limit = clock
  /\ simPc = "final" => limit = Session /\ Session <= clock
  /\ maxEvents > 0 => Len(arrivals) <= maxEvents
  /\ simPc \in {"sample", "flush", "final"} /\ maxEvents > 0 => Len(arrivals) < maxEvents
  /\ simPc \in {"report", "done"} =>
       \/ \A e \in queue : e.ready > Session
       \/ maxEvents > 0 /\ Len(arrivals) = maxEvents

\* Nothing rests beyond the mid price, and neither side runs dry.
BookKept ==
  \A s \in Sim!Side :
    /\ \A i \in Sim!Levels : book[s][i] > 0 => i > SeedDepth
    /\ Total(book[s]) >= Seed

\* The engine's totals are those of its executions.
CostsKept ==
  /\ \A i \in 1..Len(executions) :
       /\ executions[i].filled >= IF Sim!Quantity <= Seed THEN Sim!Quantity ELSE Seed
       /\ executions[i].filled <= Sim!Quantity
  /\ totals.shortfall = Total(Sim!Column("shortfall"))
  /\ totals.cost = Total(Sim!Column("cost"))
  /\ totals.cost = totals.shortfall + totals.temporary + totals.permanent

SessionInv ==
  /\ SessionTypes /\ EventsPlaced /\ EventsOrdered /\ SessionPhases
  /\ BookKept /\ CostsKept /\ Sim!SummaryAgrees

\* The library's operators are the same ones in the instance.
LEMMA InSim ==
  /\ \A S : Sim!Cardinality(S) = Cardinality(S) /\ Sim!Max(S) = Max(S) /\ Sim!Min(S) = Min(S)
  /\ \A q : Sim!Running(q) = Running(q) /\ Sim!Total(q) = Total(q)
<1>1. \A S : Sim!Cardinality(S) = Cardinality(S)  BY DEF Sim!Cardinality, Cardinality
<1>2. \A S : Sim!Max(S) = Max(S) /\ Sim!Min(S) = Min(S)  BY DEF Sim!Max, Max, Sim!Min, Min
<1>3. \A q : Sim!Running(q) = Running(q)  BY DEF Sim!Running, Running
<1>4. \A q : Sim!Total(q) = Total(q)  BY <1>3 DEF Sim!Total, Total
<1>5. QED  BY <1>1, <1>2, <1>3, <1>4

-----------------------------------------------------------------------------
(* Sums over a side of the book *)

\* A side is a sequence of its levels.
LEMMA SideIs ==
  ASSUME NEW S, NEW side \in [Sim!Levels -> S]
  PROVE  /\ side \in Seq(S) /\ Len(side) = 2 * SeedDepth + 1
         /\ Sim!Levels = 1..Len(side)
BY SessionAssumption DEF Sim!Levels

\* More at one level is as much more in all.
LEMMA TotalAdds ==
  ASSUME NEW a \in Seq(Int), NEW b \in Seq(Int), NEW k \in 1..Len(a), NEW more \in Int,
         Len(b) = Len(a), \A i \in 1..Len(a) : b[i] = IF i = k THEN a[i] + more ELSE a[i]
  PROVE  Total(b) = Total(a) + more
<1> DEFINE n == Len(a)
           r == Running(a)
           q == Running(b)
           T == {i \in 0..n : q[i] = IF i >= k THEN r[i] + more ELSE r[i]}
<1>1. n \in Nat /\ k \in 1..n  OBVIOUS
<1>2. r \in [0..n -> Int] /\ r[0] = 0 /\ \A i \in 1..n : r[i] = r[i - 1] + a[i]
  BY RunningIs
<1>3. q \in [0..n -> Int] /\ q[0] = 0 /\ \A i \in 1..n : q[i] = q[i - 1] + b[i]
  BY RunningIs
<1> HIDE DEF r, q
<1>4. 0 \in T  BY <1>1, <1>2, <1>3
<1>5. ASSUME NEW i \in 0..n, i < n, i \in T PROVE i + 1 \in T
  <2>1. i + 1 \in 1..n /\ i + 1 \in 0..n /\ (i + 1) - 1 = i  BY <1>1, <1>5
  <2>2. q[i + 1] = q[i] + b[i + 1] /\ r[i + 1] = r[i] + a[i + 1]  BY <1>2, <1>3, <2>1
  <2>3. q[i] = IF i >= k THEN r[i] + more ELSE r[i]  BY <1>5
  <2>4. b[i + 1] = IF i + 1 = k THEN a[i + 1] + more ELSE a[i + 1]  BY <2>1
  <2>5. r[i] \in Int /\ a[i + 1] \in Int
    <3>1. r[i] \in Int  BY <1>2
    <3>2. a[i + 1] \in Int  BY <2>1
    <3>3. QED  BY <3>1, <3>2
  <2>6. q[i + 1] = IF i + 1 >= k THEN r[i + 1] + more ELSE r[i + 1]
    BY <1>1, <2>2, <2>3, <2>4, <2>5
  <2>7. QED  BY <2>1, <2>6
<1> HIDE DEF T
<1>6. \A i \in 0..n : i \in T  BY <1>1, <1>4, <1>5, UpTo
<1>7. q[n] = r[n] + more  BY <1>1, <1>6 DEF T
<1>8. QED  BY <1>7 DEF Total, r, q

\* A difference of totals is the total of the differences.
LEMMA TotalLess ==
  ASSUME NEW a \in Seq(Int), NEW b \in Seq(Int), NEW c \in Seq(Int),
         Len(b) = Len(a), Len(c) = Len(a), \A i \in 1..Len(a) : c[i] = a[i] - b[i]
  PROVE  Total(c) = Total(a) - Total(b)
<1>1. \A i \in 1..Len(a) : c[i] = 1 * a[i] - b[i]  OBVIOUS
<1>2. Total(c) = 1 * Total(a) - Total(b)  BY <1>1, TotalLinear
<1>3. Total(a) \in Int  BY TotalType
<1>4. QED  BY <1>2, <1>3

\* What each number takes of a price is what their sum does.
LEMMA TotalTimes ==
  ASSUME NEW a \in Seq(Int), NEW b \in Seq(Int), NEW p \in Int,
         Len(b) = Len(a), \A i \in 1..Len(a) : b[i] = p * a[i]
  PROVE  Total(b) = p * Total(a)
<1> DEFINE zero == [i \in 1..Len(a) |-> 0]
<1>1. zero \in Seq(Int) /\ Len(zero) = Len(a) /\ \A i \in 1..Len(zero) : zero[i] = 0  OBVIOUS
<1> HIDE DEF zero
<1>2. Total(zero) = 0
  <2>1. Total(zero) = Len(zero) * 0  BY <1>1, TotalConstant
  <2>2. QED  BY <1>1, <2>1
<1>3. \A i \in 1..Len(a) : b[i] = p * a[i] - zero[i]
  <2>1. ASSUME NEW i \in 1..Len(a) PROVE b[i] = p * a[i] - zero[i]
    <3>1. b[i] = p * a[i] /\ zero[i] = 0 /\ b[i] \in Int  BY <1>1
    <3>2. QED  BY <3>1
  <2>2. QED  BY <2>1
<1>4. Total(b) = p * Total(a) - Total(zero)  BY <1>1, <1>3, TotalLinear
<1>5. Total(b) \in Int  BY TotalType
<1>6. DEFINE t == p * Total(a)
<1>7. t \in Int  BY TotalType
<1>8. QED  BY <1>2, <1>4, <1>7

\* What an order takes: at each level no more than there is, and in all what it
\* asks for or all there is.
LEMMA TakenIs ==
  ASSUME NEW side \in [Sim!Levels -> Nat], NEW quantity \in Nat
  PROVE  /\ Sim!Taken(side, quantity) \in [Sim!Levels -> Nat]
         /\ \A i \in Sim!Levels : Sim!Taken(side, quantity)[i] <= side[i]
         /\ Total(side) \in Nat
         /\ Total(Sim!Taken(side, quantity)) =
              IF Total(side) <= quantity THEN Total(side) ELSE quantity
<1> DEFINE n == 2 * SeedDepth + 1
           t == Sim!Taken(side, quantity)
           r == Running(side)
           q == Running(t)
           low(x) == IF x <= quantity THEN x ELSE quantity
           T == {i \in 0..n : r[i] >= 0 /\ q[i] = low(r[i])}
<1>1. /\ n \in Nat /\ Sim!Levels = 1..n /\ side \in Seq(Nat) /\ side \in Seq(Int) /\ Len(side) = n
      /\ \A i \in 1..n : side[i] \in Nat
  BY SideIs, SessionAssumption DEF Sim!Levels
<1>2. r \in [0..n -> Int] /\ r[0] = 0 /\ \A i \in 1..n : r[i] = r[i - 1] + side[i]
  BY <1>1, RunningIs
<1>3. ASSUME NEW i \in 1..n
      PROVE  LET rest == quantity - r[i - 1]
                 most == IF side[i] <= rest THEN side[i] ELSE rest IN
             t[i] = IF most >= 0 THEN most ELSE 0
  <2> DEFINE rest == quantity - r[i - 1]
             most == IF side[i] <= rest THEN side[i] ELSE rest
  <2>1. i - 1 \in 0..n  BY <1>1
  <2>2. rest \in Int /\ side[i] \in Int
    <3>1. r[i - 1] \in Int
      <4> HIDE DEF r
      <4>1. QED  BY <1>2, <2>1
    <3>2. side[i] \in Nat  BY <1>1
    <3> HIDE DEF r
    <3>3. QED  BY <3>1, <3>2
  <2>3. t[i] = Max({0, Min({side[i], rest})})  BY <1>1, InSim DEF Sim!Taken
  <2> HIDE DEF rest
  <2>4. Min({side[i], rest}) = most  BY <2>2, TheSmaller
  <2>5. most \in Int  BY <2>2
  <2> HIDE DEF most
  <2>6. Max({0, most}) = IF 0 >= most THEN 0 ELSE most  BY <2>5, TheLarger
  <2>7. t[i] = IF most >= 0 THEN most ELSE 0
    <3>1. Max({0, Min({side[i], rest})}) = Max({0, most})  BY <2>4
    <3>2. t[i] = IF 0 >= most THEN 0 ELSE most  BY <2>3, <2>6, <3>1
    <3> HIDE DEF t
    <3>3. QED  BY <2>5, <3>2
  <2>8. QED  BY <2>7 DEF rest, most
<1>4. \A i \in 1..n : t[i] \in Nat /\ t[i] <= side[i]
  <2>1. SUFFICES ASSUME NEW i \in 1..n PROVE t[i] \in Nat /\ t[i] <= side[i]  OBVIOUS
  <2>2. r[i - 1] \in Int /\ side[i] \in Nat
    <3>1. i - 1 \in 0..n  BY <1>1
    <3>2. QED  BY <1>1, <1>2, <3>1
  <2> HIDE DEF t, r
  <2>3. QED  BY <1>3, <2>2
<1>5. t \in [Sim!Levels -> Nat]
  <2>1. t = [i \in 1..n |-> t[i]]  BY <1>1 DEF Sim!Taken
  <2> HIDE DEF t
  <2>2. QED  BY <1>1, <1>4, <2>1
<1>6. t \in Seq(Int) /\ t \in Seq(Nat) /\ Len(t) = n
  <2> HIDE DEF t
  <2>1. QED  BY <1>1, <1>5, SideIs
<1>7. q \in [0..n -> Int] /\ q[0] = 0 /\ \A i \in 1..n : q[i] = q[i - 1] + t[i]
  <2> HIDE DEF t
  <2>1. QED  BY <1>6, RunningIs
<1> HIDE DEF r, q, t
<1>8. 0 \in T  BY <1>1, <1>2, <1>7
<1>9. ASSUME NEW i \in 0..n, i < n, i \in T PROVE i + 1 \in T
  <2>1. i + 1 \in 1..n /\ i + 1 \in 0..n /\ (i + 1) - 1 = i  BY <1>1, <1>9
  <2>2. q[i + 1] = q[i] + t[i + 1] /\ r[i + 1] = r[i] + side[i + 1]  BY <1>2, <1>7, <2>1
  <2>3. r[i] >= 0 /\ q[i] = low(r[i])  BY <1>9
  <2>4. r[i] \in Int /\ side[i + 1] \in Nat  BY <1>1, <1>2, <2>1
  <2>5. t[i + 1] = LET rest == quantity - r[i]
                       most == IF side[i + 1] <= rest THEN side[i + 1] ELSE rest IN
                   IF most >= 0 THEN most ELSE 0
    BY <1>3, <2>1
  <2>6. r[i + 1] >= 0  BY <2>2, <2>3, <2>4
  <2>7. q[i + 1] = low(r[i + 1])
    <3>1. CASE r[i + 1] <= quantity  BY <2>2, <2>3, <2>4, <2>5, <3>1
    <3>2. CASE r[i + 1] > quantity /\ r[i] <= quantity  BY <2>2, <2>3, <2>4, <2>5, <3>2
    <3>3. CASE r[i] > quantity  BY <2>2, <2>3, <2>4, <2>5, <3>3
    <3>4. QED  BY <2>2, <2>4, <3>1, <3>2, <3>3
  <2>8. QED  BY <2>1, <2>6, <2>7
<1> HIDE DEF T
<1>10. \A i \in 0..n : i \in T  BY <1>1, <1>8, <1>9, UpTo
<1>11. n \in T  BY <1>1, <1>10
<1>12. r[n] = Total(side) /\ q[n] = Total(t)  BY <1>1, <1>6 DEF Total, r, q
<1>13. r[n] \in Int  BY <1>1, <1>2
<1>14. QED  BY <1>1, <1>4, <1>5, <1>11, <1>12, <1>13 DEF T, t

\* What the levels are seeded with adds up to Seed.
LEMMA SeedAdds ==
  ASSUME NEW levels \in Seq(Int), Len(levels) = 2 * SeedDepth + 1,
         \A i \in 1..Len(levels) :
           levels[i] = IF i > SeedDepth /\ i <= 2 * SeedDepth THEN BaseQuantity + (i - 1 - SeedDepth) ELSE 0
  PROVE  Seed \in Nat /\ Total(levels) = Seed
<1> DEFINE n == 2 * SeedDepth + 1
           r == Running(levels)
           square(m) == m * (m - 1)
           held(m) == 2 * (BaseQuantity * m) + square(m)
           T == {i \in 0..n : 2 * r[i] = IF i <= SeedDepth THEN 0
                                         ELSE IF i <= 2 * SeedDepth THEN held(i - SeedDepth)
                                         ELSE held(SeedDepth)}
<1>1. n \in Nat /\ Len(levels) = n /\ SeedDepth \in Nat /\ BaseQuantity \in Nat /\ SeedDepth > 0
  BY SessionAssumption
<1>2. r \in [0..n -> Int] /\ r[0] = 0 /\ \A i \in 1..n : r[i] = r[i - 1] + levels[i]
  BY <1>1, RunningIs
<1> HIDE DEF r
<1>3. \A m \in Int : held(m) \in Int
  <2>1. SUFFICES ASSUME NEW m \in Int PROVE held(m) \in Int  OBVIOUS
  <2>2. BaseQuantity * m \in Int /\ m - 1 \in Int  BY <1>1
  <2>3. m * (m - 1) \in Int  BY <2>2
  <2>4. 2 * (BaseQuantity * m) \in Int  BY <2>2
  <2>5. QED  BY <2>3, <2>4
<1>4. ASSUME NEW m \in Int PROVE held(m + 1) = held(m) + 2 * (BaseQuantity + m)
  <2>1. BaseQuantity * (m + 1) = BaseQuantity * m + BaseQuantity  BY <1>1
  <2>2. square(m + 1) = square(m) + 2 * m
    <3>1. (m + 1) * m = m * (m - 1) + 2 * m  OBVIOUS
    <3>2. (m + 1) - 1 = m  OBVIOUS
    <3>3. QED  BY <3>1, <3>2
  <2> DEFINE x == BaseQuantity * m
             y == BaseQuantity * (m + 1)
             u == square(m)
             w == square(m + 1)
  <2>3. x \in Int /\ y \in Int /\ u \in Int /\ w \in Int  BY <1>1
  <2>4. y = x + BaseQuantity /\ w = u + 2 * m  BY <2>1, <2>2
  <2> HIDE DEF x, y, u, w, square
  <2>5. 2 * y + w = (2 * x + u) + 2 * (BaseQuantity + m)  BY <1>1, <2>3, <2>4
  <2>6. QED  BY <2>5 DEF x, y, u, w
<1>5. held(0) = 0
  <2>1. BaseQuantity * 0 = 0 /\ square(0) = 0  BY <1>1
  <2>2. QED  BY <2>1
<1> HIDE DEF held
<1>6. 0 \in T  BY <1>1, <1>2
<1>7. ASSUME NEW i \in 0..n, i < n, i \in T PROVE i + 1 \in T
  <2>1. i + 1 \in 1..n /\ i + 1 \in 0..n /\ (i + 1) - 1 = i  BY <1>1, <1>7
  <2>2. r[i + 1] = r[i] + levels[i + 1] /\ r[i] \in Int  BY <1>2, <2>1
  <2>3. CASE i + 1 <= SeedDepth
    <3>1. levels[i + 1] = 0 /\ 2 * r[i] = 0  BY <1>1, <1>7, <2>1, <2>3
    <3>2. 2 * r[i + 1] = 0  BY <2>2, <3>1
    <3>3. QED  BY <2>1, <2>3, <3>2
  <2>4. CASE i + 1 > SeedDepth /\ i + 1 <= 2 * SeedDepth
    <3> DEFINE m == i - SeedDepth
    <3>1. levels[i + 1] = BaseQuantity + m  BY <1>1, <2>1, <2>4
    <3>2. 2 * r[i] = held(m)
      <4>1. CASE i = SeedDepth  BY <1>5, <1>7, <4>1
      <4>2. CASE i > SeedDepth  BY <1>1, <1>7, <2>4, <4>2
      <4>3. QED  BY <1>1, <2>1, <2>4, <4>1, <4>2
    <3>3. m \in Int /\ m + 1 = (i + 1) - SeedDepth  BY <1>1
    <3> HIDE DEF m
    <3>4. held(m + 1) = held(m) + 2 * (BaseQuantity + m)  BY <1>4, <3>3
    <3>5. held(m) \in Int  BY <1>3, <3>3
    <3>6. 2 * r[i + 1] = held(m + 1)  BY <1>1, <2>2, <3>1, <3>2, <3>3, <3>4, <3>5
    <3>7. QED  BY <1>1, <2>1, <2>4, <3>3, <3>6
  <2>5. CASE i + 1 > 2 * SeedDepth
    <3>1. i = 2 * SeedDepth  BY <1>1, <2>5, <1>7
    <3>2. levels[i + 1] = 0  BY <1>1, <2>1, <2>5
    <3>3. i > SeedDepth /\ i - SeedDepth = SeedDepth  BY <1>1, <3>1
    <3>4. 2 * r[i] = held(SeedDepth)  BY <1>1, <1>7, <3>1, <3>3
    <3>5. ~(i + 1 <= SeedDepth) /\ ~(i + 1 <= 2 * SeedDepth)  BY <1>1, <3>1
    <3>6. 2 * r[i + 1] = held(SeedDepth)  BY <2>2, <3>2, <3>4
    <3>7. QED  BY <2>1, <3>5, <3>6
  <2>6. QED  BY <1>1, <2>1, <2>3, <2>4, <2>5
<1> HIDE DEF T
<1>8. n \in T
  <2>1. \A i \in 0..n : i \in T  BY <1>1, <1>6, <1>7, UpTo
  <2>2. QED  BY <1>1, <2>1
<1>9. 2 * r[n] = held(SeedDepth) /\ r[n] \in Int
  <2>1. ~(n <= SeedDepth) /\ ~(n <= 2 * SeedDepth) /\ n \in 0..n  BY <1>1
  <2>2. QED  BY <1>2, <1>8, <2>1 DEF T
<1> DEFINE x == BaseQuantity * SeedDepth
           y == SeedDepth * (SeedDepth - 1)
<1>10. x \in Nat /\ y \in Nat
  <2>1. SeedDepth - 1 \in Nat  BY <1>1
  <2>2. QED  BY <1>1, <2>1
<1>11. 2 * r[n] = 2 * x + y  BY <1>9 DEF held
<1>12. Seed = x + y \div 2  BY DEF Seed
<1> HIDE DEF x, y
<1>13. y = 2 * (r[n] - x)  BY <1>9, <1>10, <1>11
<1>14. y \div 2 = r[n] - x
  <2> DEFINE z == r[n] - x
  <2>1. z \in Int /\ y = 2 * z  BY <1>9, <1>10, <1>13
  <2> HIDE DEF z
  <2>2. y \div 2 = z  BY <2>1
  <2>3. QED  BY <2>2 DEF z
<1>15. r[n] >= 0  BY <1>9, <1>10, <1>11
<1>16. Seed = r[n]  BY <1>9, <1>10, <1>12, <1>14
<1>17. QED  BY <1>1, <1>9, <1>15, <1>16 DEF Total, r

\* No level holds more than its side.
LEMMA PartOfTotal ==
  ASSUME NEW a \in Seq(Nat), NEW k \in 1..Len(a)
  PROVE  a[k] <= Total(a)
<1> DEFINE b == [i \in 1..Len(a) |-> IF i = k THEN 0 ELSE a[i]]
<1>1. b \in Seq(Nat) /\ Len(b) = Len(a) /\ a \in Seq(Int) /\ b \in Seq(Int)  OBVIOUS
<1>2. a[k] \in Nat /\ 0 - a[k] \in Int  OBVIOUS
<1>3. \A i \in 1..Len(a) : b[i] = IF i = k THEN a[i] + (0 - a[k]) ELSE a[i]
  BY <1>2
<1> HIDE DEF b
<1>4. Total(b) = Total(a) + (0 - a[k])  BY <1>1, <1>2, <1>3, TotalAdds
<1>5. Total(b) \in Nat /\ Total(a) \in Nat  BY <1>1, TotalAtLeastZero
<1>6. QED  BY <1>2, <1>4, <1>5

\* A set of naturals has a least element, which Min chooses.
LEMMA MinIs ==
  ASSUME NEW S \in SUBSET Nat, S # {}
  PROVE  Min(S) \in S /\ \A y \in S : Min(S) <= y
<1>1. \E x \in S : \A y \in S : x <= y  BY LeastNatural
<1>2. QED  BY <1>1 DEF Min

\* The levels of the book lie where they are said to.
LEMMA SidesAre ==
  ASSUME NEW s \in Sim!Side
  PROVE  /\ Sim!Opposite(s) \in Sim!Side /\ Sim!Opposite(s) # s
         /\ \A t \in Sim!Side : t # s => t = Sim!Opposite(s)
         /\ Sim!At(s, 0) = SeedDepth + 1
         /\ Sim!At(Sim!Opposite(s), Sim!Sign(s)) = SeedDepth + 2
         /\ SeedDepth + 2 \in Sim!Levels
         /\ \A i \in Sim!Levels :
              /\ i \in Nat
              /\ Sim!Price(s, i) = IF s = "Buy" THEN SeedDepth + 1 - i ELSE i - (SeedDepth + 1)
              /\ Sim!Price(Sim!Opposite(s), i) =
                   IF s = "Buy" THEN i - (SeedDepth + 1) ELSE SeedDepth + 1 - i
<1>1. SeedDepth \in Nat /\ SeedDepth >= 1  BY SessionAssumption
<1>2. CASE s = "Buy"
  BY <1>1, <1>2 DEF Sim!Side, Sim!Opposite, Sim!At, Sim!Sign, Sim!Levels, Sim!Price
<1>3. CASE s = "Sell"
  BY <1>1, <1>3 DEF Sim!Side, Sim!Opposite, Sim!At, Sim!Sign, Sim!Levels, Sim!Price
<1>4. QED  BY <1>2, <1>3 DEF Sim!Side

\* Seeding adds Seed to either side, behind the mid price.
LEMMA SeedingAdds ==
  ASSUME NEW b \in [Sim!Side -> [Sim!Levels -> Nat]], NEW s \in Sim!Side
  PROVE  /\ Sim!Seeded(b)[s] \in [Sim!Levels -> Nat]
         /\ \A i \in Sim!Levels : Sim!Seeded(b)[s][i] > b[s][i] => i > SeedDepth
         /\ Total(Sim!Seeded(b)[s]) = Total(b[s]) + Seed
         /\ Seed \in Nat /\ Seed >= 1
<1> DEFINE n == 2 * SeedDepth + 1
           old == b[s]
           new == Sim!Seeded(b)[s]
           more == [i \in 1..n |-> IF i > SeedDepth /\ i <= 2 * SeedDepth
                                   THEN BaseQuantity + (i - 1 - SeedDepth) ELSE 0]
<1>1. n \in Nat /\ SeedDepth \in Nat /\ SeedDepth >= 1 /\ BaseQuantity \in Nat /\ BaseQuantity >= 1
  BY SessionAssumption
<1>2. Sim!Levels = 1..n /\ Sim!At(s, 0) = SeedDepth + 1  BY SidesAre DEF Sim!Levels
<1>3. \A i \in 1..n : more[i] \in Nat /\ (more[i] > 0 => i > SeedDepth)  BY <1>1
<1>4. more \in Seq(Nat) /\ more \in Seq(Int) /\ Len(more) = n
  <2>1. more = [i \in 1..n |-> more[i]]  OBVIOUS
  <2> HIDE DEF more
  <2>2. more \in [1..n -> Nat]  BY <1>3, <2>1
  <2> HIDE DEF n
  <2>3. QED  BY <1>1, <2>2
<1>5. \A i \in 1..n : old[i] \in Nat  BY <1>2
<1>6. new = [i \in 1..n |-> new[i]] /\ \A i \in 1..n : new[i] = old[i] + more[i]
  <2>1. new = [i \in Sim!Levels |->
                LET k == i - Sim!At(s, 0)
                IN b[s][i] + (IF k \in 0..SeedDepth - 1 THEN BaseQuantity + k ELSE 0)]
    BY DEF Sim!Seeded
  <2>2. ASSUME NEW i \in 1..n
        PROVE  (IF i - (SeedDepth + 1) \in 0..SeedDepth - 1
                THEN BaseQuantity + (i - (SeedDepth + 1)) ELSE 0) = more[i]
    BY <1>1
  <2> HIDE DEF more, new, n
  <2>3. new = [i \in 1..n |-> new[i]]  BY <1>2, <2>1
  <2>4. ASSUME NEW i \in 1..n PROVE new[i] = old[i] + more[i]  BY <1>2, <2>1, <2>2
  <2>5. QED  BY <2>3, <2>4
<1> HIDE DEF new
<1>7. new \in [1..n -> Nat]
  <2> HIDE DEF more
  <2>1. \A i \in 1..n : new[i] \in Nat  BY <1>3, <1>5, <1>6
  <2>2. QED  BY <1>6, <2>1
<1>8. /\ old \in Seq(Int) /\ Len(old) = n /\ new \in Seq(Int) /\ Len(new) = n
  BY <1>1, <1>2, <1>7
<1> HIDE DEF old
<1>9. Total(more) = Total(new) - Total(old)
  <2> HIDE DEF more
  <2> HIDE DEF n
  <2>1. \A i \in 1..Len(new) : more[i] = new[i] - old[i]  BY <1>3, <1>5, <1>6, <1>8
  <2>2. QED  BY <1>4, <1>8, <2>1, TotalLess
<1>10. Seed \in Nat /\ Total(more) = Seed
  <2>1. \A i \in 1..Len(more) :
          more[i] = IF i > SeedDepth /\ i <= 2 * SeedDepth THEN BaseQuantity + (i - 1 - SeedDepth) ELSE 0
    BY <1>4
  <2> HIDE DEF more
  <2>2. QED  BY <1>4, <2>1, SeedAdds
<1>11. Seed >= 1
  <2>1. SeedDepth + 1 \in 1..n /\ SeedDepth + 1 <= 2 * SeedDepth  BY <1>1
  <2>2. more[SeedDepth + 1] >= 1  BY <1>1, <2>1
  <2>3. more[SeedDepth + 1] <= Total(more)
    <3> HIDE DEF more
    <3>1. QED  BY <1>4, <2>1, PartOfTotal
  <2>4. QED  BY <1>3, <1>10, <2>1, <2>2, <2>3
<1>12. Total(new) = Total(old) + Seed
  <2>1. Total(new) \in Int /\ Total(old) \in Int  BY <1>8, TotalType
  <2>2. QED  BY <1>9, <1>10, <2>1
<1>13. \A i \in 1..n : new[i] > old[i] => i > SeedDepth
  <2> HIDE DEF more
  <2>1. QED  BY <1>3, <1>5, <1>6
<1>14. QED  BY <1>2, <1>7, <1>10, <1>11, <1>12, <1>13 DEF new, old

\* Where nothing rests beyond the mid price, no order that rests on the side a
\* trade takes from is better than the reference price.
LEMMA ReferenceIs ==
  ASSUME NEW b \in [Sim!Side -> [Sim!Levels -> Nat]], NEW s \in Sim!Side,
         \A t \in Sim!Side : \A i \in Sim!Levels : b[t][i] > 0 => i > SeedDepth
  PROVE  /\ Sim!Reference(b) \in Int
         /\ \A i \in Sim!Levels :
              b[Sim!Opposite(s)][i] > 0 =>
                IF s = "Buy" THEN Sim!Reference(b) <= 2 * Sim!Price(Sim!Opposite(s), i)
                             ELSE 2 * Sim!Price(Sim!Opposite(s), i) <= Sim!Reference(b)
<1> DEFINE opp == Sim!Opposite(s)
           rests(t) == Sim!Resting(b[t])
           least(t) == Min(rests(t))
           quoted == {t \in Sim!Side : rests(t) # {}}
<1>1. /\ SeedDepth \in Nat /\ opp \in Sim!Side /\ opp # s
      /\ \A t \in Sim!Side : t # s => t = opp
  BY SidesAre, SessionAssumption
<1>2. ASSUME NEW t \in Sim!Side, rests(t) # {}
      PROVE  /\ least(t) \in Sim!Levels /\ least(t) \in Nat /\ least(t) > SeedDepth
             /\ \A i \in Sim!Levels : b[t][i] > 0 => least(t) <= i
  <2>1. rests(t) \in SUBSET Nat  BY DEF Sim!Resting, Sim!Levels
  <2>2. least(t) \in rests(t) /\ \A y \in rests(t) : least(t) <= y  BY <1>2, <2>1, MinIs
  <2>3. least(t) \in Sim!Levels /\ b[t][least(t)] > 0  BY <2>2 DEF Sim!Resting
  <2>4. \A i \in Sim!Levels : b[t][i] > 0 => least(t) <= i  BY <2>2 DEF Sim!Resting
  <2>5. least(t) \in Nat  BY <2>1, <2>2
  <2> HIDE DEF least
  <2>6. QED  BY <2>3, <2>4, <2>5
<1>3. /\ \A i \in Sim!Levels : i \in Nat
      /\ \A i \in Sim!Levels :
           /\ Sim!Price(s, i) = IF s = "Buy" THEN SeedDepth + 1 - i ELSE i - (SeedDepth + 1)
           /\ Sim!Price(opp, i) = IF s = "Buy" THEN i - (SeedDepth + 1) ELSE SeedDepth + 1 - i
  BY SidesAre
<1>4. Sim!Reference(b) =
        IF quoted = Sim!Side THEN Sim!Price("Buy", least("Buy")) + Sim!Price("Sell", least("Sell"))
        ELSE IF quoted = {} THEN 0
        ELSE 2 * Sim!Price(CHOOSE t \in Sim!Side : t \in quoted,
                           least(CHOOSE t \in Sim!Side : t \in quoted))
  <2>1. \A S : Sim!Min(S) = Min(S)  BY InSim
  <2> DEFINE first(t) == Sim!Min(rests(t))
             some == CHOOSE t \in Sim!Side : t \in quoted
  <2>2. Sim!Reference(b) =
          IF quoted = Sim!Side THEN Sim!Price("Buy", first("Buy")) + Sim!Price("Sell", first("Sell"))
          ELSE IF quoted = {} THEN 0 ELSE 2 * Sim!Price(some, first(some))
    BY DEF Sim!Reference
  <2>3. \A t : first(t) = least(t)  BY <2>1
  <2> HIDE DEF first, least, quoted
  <2>4. QED  BY <2>2, <2>3
<1> HIDE DEF rests, least, opp
<1>5. SUFFICES ASSUME NEW i \in Sim!Levels
               PROVE  /\ Sim!Reference(b) \in Int
                      /\ b[opp][i] > 0 =>
                           IF s = "Buy" THEN Sim!Reference(b) <= 2 * Sim!Price(opp, i)
                                        ELSE 2 * Sim!Price(opp, i) <= Sim!Reference(b)
  <2>1. 1 \in Sim!Levels  BY SessionAssumption DEF Sim!Levels
  <2>2. QED  BY <2>1 DEF opp
<1>6. i \in Nat /\ (b[opp][i] > 0 => i > SeedDepth)  BY <1>1, <1>3
<1>7. CASE rests(s) # {} /\ rests(opp) # {}
  <2>1. quoted = Sim!Side  BY <1>1, <1>7
  <2>2. /\ least(s) \in Sim!Levels /\ least(s) \in Nat /\ least(s) > SeedDepth
        /\ least(opp) \in Sim!Levels /\ least(opp) \in Nat /\ least(opp) > SeedDepth
        /\ b[opp][i] > 0 => least(opp) <= i
    BY <1>1, <1>2, <1>7
  <2>3. Sim!Reference(b) = Sim!Price(s, least(s)) + Sim!Price(opp, least(opp))
    <3>1. \/ s = "Buy" /\ opp = "Sell"
          \/ s = "Sell" /\ opp = "Buy"
      BY <1>1 DEF Sim!Side
    <3>2. Sim!Price(s, least(s)) \in Int /\ Sim!Price(opp, least(opp)) \in Int
      BY <1>1, <1>3, <2>2
    <3>3. QED  BY <1>4, <2>1, <3>1, <3>2
  <2>4. /\ Sim!Price(s, least(s)) =
             IF s = "Buy" THEN SeedDepth + 1 - least(s) ELSE least(s) - (SeedDepth + 1)
        /\ Sim!Price(opp, least(opp)) =
             IF s = "Buy" THEN least(opp) - (SeedDepth + 1) ELSE SeedDepth + 1 - least(opp)
    BY <1>3, <2>2
  <2>5. QED  BY <1>1, <1>3, <1>6, <2>2, <2>3, <2>4
<1>8. CASE rests(s) = {} /\ rests(opp) # {}
  <2>1. quoted # Sim!Side /\ quoted # {} /\ (CHOOSE t \in Sim!Side : t \in quoted) = opp
    BY <1>1, <1>8
  <2>2. /\ least(opp) \in Sim!Levels /\ least(opp) \in Nat /\ least(opp) > SeedDepth
        /\ b[opp][i] > 0 => least(opp) <= i
    BY <1>1, <1>2, <1>8
  <2>3. Sim!Reference(b) = 2 * Sim!Price(opp, least(opp))  BY <1>4, <2>1
  <2>4. Sim!Price(opp, least(opp)) =
          IF s = "Buy" THEN least(opp) - (SeedDepth + 1) ELSE SeedDepth + 1 - least(opp)
    BY <1>3, <2>2
  <2>5. QED  BY <1>1, <1>3, <1>6, <2>2, <2>3, <2>4
<1>9. CASE rests(s) # {} /\ rests(opp) = {}
  <2>1. quoted # Sim!Side /\ quoted # {} /\ (CHOOSE t \in Sim!Side : t \in quoted) = s
    BY <1>1, <1>9
  <2>2. least(s) \in Sim!Levels /\ least(s) \in Nat  BY <1>1, <1>2, <1>9
  <2>3. Sim!Reference(b) = 2 * Sim!Price(s, least(s))  BY <1>4, <2>1
  <2>4. Sim!Price(s, least(s)) =
          IF s = "Buy" THEN SeedDepth + 1 - least(s) ELSE least(s) - (SeedDepth + 1)
    BY <1>3, <2>2
  <2>5. ~(b[opp][i] > 0)  BY <1>9 DEF rests, Sim!Resting
  <2>6. QED  BY <1>1, <2>2, <2>3, <2>4, <2>5
<1>10. CASE rests(s) = {} /\ rests(opp) = {}
  <2>1. quoted # Sim!Side /\ quoted = {}  BY <1>1, <1>10
  <2>2. Sim!Reference(b) = 0  BY <1>4, <2>1
  <2>3. ~(b[opp][i] > 0)  BY <1>10 DEF rests, Sim!Resting
  <2>4. QED  BY <2>2, <2>3
<1>11. QED  BY <1>7, <1>8, <1>9, <1>10

\* What the engine books for fills that are no better than the reference price.
LEMMA ExecutionIs ==
  ASSUME NEW s \in Sim!Side, NEW ref \in Int, NEW taken \in [Sim!Levels -> Nat],
         \A i \in Sim!Levels : taken[i] > 0 =>
           IF s = "Buy" THEN ref <= 2 * Sim!Price(Sim!Opposite(s), i)
                        ELSE 2 * Sim!Price(Sim!Opposite(s), i) <= ref
  PROVE  LET e == Sim!Execution(s, ref, taken) IN
         /\ e \in SessionExecution /\ e.filled = Total(taken)
         /\ e.cost = e.shortfall + e.temporary + e.permanent
<1> DEFINE n == 2 * SeedDepth + 1
           p(i) == 2 * Sim!Price(Sim!Opposite(s), i)
           paid == [i \in 1..n |-> p(i) * taken[i]]
           worth == [i \in 1..n |-> ref * taken[i]]
           lost == [i \in 1..n |-> IF s = "Buy" THEN paid[i] - worth[i] ELSE worth[i] - paid[i]]
           e == Sim!Execution(s, ref, taken)
<1>1. n \in Nat /\ Sim!Levels = 1..n  BY SessionAssumption DEF Sim!Levels
<1>2. ASSUME NEW i \in 1..n
      PROVE  p(i) \in Int /\ taken[i] \in Nat /\ p(i) * taken[i] \in Int /\ ref * taken[i] \in Int
  <2>1. Sim!Price(Sim!Opposite(s), i) \in Int
    <3>1. i \in Nat /\ Sim!Price(Sim!Opposite(s), i) =
            IF s = "Buy" THEN i - (SeedDepth + 1) ELSE SeedDepth + 1 - i
      BY <1>1, SidesAre
    <3>2. QED  BY <3>1, SessionAssumption
  <2>2. taken[i] \in Nat  BY <1>1
  <2>3. p(i) \in Int  BY <2>1
  <2> HIDE DEF p
  <2>4. QED  BY <2>2, <2>3
<1>3. ASSUME NEW i \in 1..n
      PROVE  IF s = "Buy" THEN ref * taken[i] <= p(i) * taken[i] ELSE p(i) * taken[i] <= ref * taken[i]
  <2>1. p(i) \in Int /\ taken[i] \in Nat  BY <1>2
  <2>2. taken[i] > 0 => IF s = "Buy" THEN ref <= p(i) ELSE p(i) <= ref  BY <1>1
  <2> HIDE DEF p
  <2>3. CASE taken[i] = 0
    <3>1. p(i) * taken[i] = 0 /\ ref * taken[i] = 0  BY <2>1, <2>3
    <3>2. QED  BY <3>1
  <2>4. CASE taken[i] > 0 /\ s = "Buy"
    <3>1. ref <= p(i)  BY <2>2, <2>4
    <3>2. ref * taken[i] <= p(i) * taken[i]  BY <2>1, <3>1, ProductOrder
    <3>3. QED  BY <2>4, <3>2
  <2>5. CASE taken[i] > 0 /\ s # "Buy"
    <3>1. p(i) <= ref  BY <2>2, <2>5
    <3>2. p(i) * taken[i] <= ref * taken[i]  BY <2>1, <3>1, ProductOrder
    <3>3. QED  BY <2>5, <3>2
  <2>6. QED  BY <2>1, <2>3, <2>4, <2>5
<1>4. Sim!Levels = DOMAIN taken /\ taken \in Seq(Nat) /\ taken \in Seq(Int) /\ Len(taken) = n
  <2> HIDE DEF n
  <2>1. taken \in [1..n -> Nat]  BY <1>1
  <2>2. QED  BY <1>1, <2>1
<1>5. /\ paid \in Seq(Int) /\ worth \in Seq(Int) /\ Len(paid) = n /\ Len(worth) = n
      /\ \A i \in 1..n : paid[i] = p(i) * taken[i] /\ worth[i] = ref * taken[i]
  <2> HIDE DEF n, p
  <2>1. paid \in [1..n -> Int] /\ worth \in [1..n -> Int]  BY <1>2
  <2>2. QED  BY <1>1, <2>1
<1>6. lost \in Seq(Nat) /\ lost \in Seq(Int) /\ Len(lost) = n
      /\ \A i \in 1..n : lost[i] = IF s = "Buy" THEN paid[i] - worth[i] ELSE worth[i] - paid[i]
  <2>1. ASSUME NEW i \in 1..n
        PROVE  (IF s = "Buy" THEN paid[i] - worth[i] ELSE worth[i] - paid[i]) \in Nat
    <3>1. paid[i] = p(i) * taken[i] /\ worth[i] = ref * taken[i]  BY <1>5
    <3>2. p(i) * taken[i] \in Int /\ ref * taken[i] \in Int  BY <1>2
    <3> HIDE DEF n, p, paid, worth
    <3>3. QED  BY <1>3, <3>1, <3>2
  <2> HIDE DEF n, p, paid, worth
  <2>2. lost \in [1..n -> Nat]  BY <2>1
  <2>3. QED  BY <1>1, <2>2
<1> HIDE DEF paid, worth, lost
<1>7. Total(worth) = ref * Total(taken)
  <2> HIDE DEF n
  <2>1. QED  BY <1>4, <1>5, TotalTimes
<1>8. Total(lost) = IF s = "Buy" THEN Total(paid) - Total(worth) ELSE Total(worth) - Total(paid)
  <2> HIDE DEF n
  <2>1. CASE s = "Buy"
    <3>1. \A i \in 1..Len(paid) : lost[i] = paid[i] - worth[i]  BY <1>5, <1>6, <2>1
    <3>2. Total(lost) = Total(paid) - Total(worth)  BY <1>5, <1>6, <3>1, TotalLess
    <3>3. QED  BY <2>1, <3>2
  <2>2. CASE s # "Buy"
    <3>1. \A i \in 1..Len(worth) : lost[i] = worth[i] - paid[i]  BY <1>5, <1>6, <2>2
    <3>2. Total(lost) = Total(worth) - Total(paid)  BY <1>5, <1>6, <3>1, TotalLess
    <3>3. QED  BY <2>2, <3>2
  <2>3. QED  BY <2>1, <2>2
<1>9. Total(lost) \in Nat /\ Total(taken) \in Nat /\ Total(paid) \in Int /\ Total(worth) \in Int
  BY <1>4, <1>5, <1>6, TotalAtLeastZero, TotalType
<1>10. e.filled = Total(taken) /\ e.side = s /\ e.reference = ref
       /\ e.permanent = Total(taken) * Total(taken)
  BY InSim DEF Sim!Execution
<1>11. e.shortfall = Total(lost)
  <2> DEFINE all == Sim!Total([i \in Sim!Levels |-> 2 * Sim!Price(Sim!Opposite(s), i) * taken[i]])
             due == ref * Sim!Total(taken)
  <2>1. e.shortfall = Sim!Sign(s) * (all - due)  BY DEF Sim!Execution
  <2>2. all = Total(paid)
    <3>1. [i \in Sim!Levels |-> 2 * Sim!Price(Sim!Opposite(s), i) * taken[i]] = paid
      BY <1>1 DEF paid
    <3>2. QED  BY <3>1, InSim
  <2>3. due = Total(worth)  BY <1>7, InSim
  <2> HIDE DEF all, due
  <2>4. Sim!Sign(s) = IF s = "Buy" THEN 1 ELSE -1  BY DEF Sim!Sign
  <2>5. QED  BY <1>8, <1>9, <2>1, <2>2, <2>3, <2>4
<1>12. e.temporary \in Nat
  <2> DEFINE m == Sim!Max({0, Aggressiveness})
  <2>1. m = Max({0, Aggressiveness})  BY InSim
  <2>2. Max({0, Aggressiveness}) \in Nat  BY TheLarger, SessionAssumption
  <2>3. e.temporary = Total(taken) * m  BY InSim DEF Sim!Execution
  <2>4. m \in Nat  BY <2>1, <2>2
  <2> HIDE DEF m
  <2>5. QED  BY <1>9, <2>3, <2>4
<1>13. e.cost = e.shortfall + e.temporary + e.permanent  BY DEF Sim!Execution
<1>14. e.permanent \in Nat
  <2> DEFINE t == Total(taken)
  <2>1. t \in Nat  BY <1>9
  <2> HIDE DEF t
  <2>2. t * t \in Nat  BY <2>1
  <2>3. QED  BY <1>10, <2>2 DEF t
<1>15. e \in SessionExecution
  <2>1. e = [side |-> e.side, reference |-> e.reference, filled |-> e.filled,
             shortfall |-> e.shortfall, temporary |-> e.temporary, permanent |-> e.permanent,
             cost |-> e.cost]
    BY DEF Sim!Execution
  <2>2. e.shortfall \in Nat /\ e.filled \in Nat /\ e.side \in Sim!Side /\ e.reference \in Int
    BY <1>9, <1>10, <1>11
  <2>3. e.cost \in Int  BY <1>12, <1>13, <1>14, <2>2
  <2> HIDE DEF e
  <2>4. QED  BY <1>12, <1>14, <2>1, <2>2, <2>3 DEF SessionExecution
<1> HIDE DEF e
<1>16. QED  BY <1>10, <1>13, <1>15 DEF e

\* A market order needs no second match: either side holds as much as it was
\* seeded with, before and after what the order takes is put back.
LEMMA TradeBook ==
  ASSUME book \in [Sim!Side -> [Sim!Levels -> Nat]], BookKept, NEW s \in Sim!Side
  PROVE  LET opp    == Sim!Opposite(s)
             first  == Sim!Taken(book[opp], Sim!Quantity)
             before == IF Sim!Total(first) = 0 THEN Sim!Seeded(book) ELSE book
             taken  == Sim!Taken(before[opp], Sim!Quantity)
             after  == [before EXCEPT ![opp] = [i \in Sim!Levels |-> @[i] - taken[i]]]
             next   == Sim!Replenished(after, s, Sim!Quantity)
             exec   == Sim!Execution(s, Sim!Reference(book), taken)
         IN /\ next \in [Sim!Side -> [Sim!Levels -> Nat]]
            /\ \A t \in Sim!Side :
                 /\ \A i \in Sim!Levels : next[t][i] > 0 => i > SeedDepth
                 /\ Total(next[t]) >= Seed
            /\ exec \in SessionExecution
            /\ exec.filled >= IF Sim!Quantity <= Seed THEN Sim!Quantity ELSE Seed
            /\ exec.filled <= Sim!Quantity
            /\ exec.cost = exec.shortfall + exec.temporary + exec.permanent
<1> DEFINE opp    == Sim!Opposite(s)
           quantity == Sim!Quantity
           first  == Sim!Taken(book[opp], quantity)
           before == IF Sim!Total(first) = 0 THEN Sim!Seeded(book) ELSE book
           taken  == Sim!Taken(book[opp], quantity)
           left   == [i \in Sim!Levels |-> book[opp][i] - taken[i]]
           after  == [book EXCEPT ![opp] = left]
           next   == Sim!Replenished(after, s, quantity)
           put    == [i \in Sim!Levels |-> IF i = SeedDepth + 2 THEN left[i] + quantity ELSE left[i]]
<1>1. quantity \in Nat /\ quantity >= 1
  BY InSim, TheLarger, SessionAssumption DEF Sim!Quantity
<1> HIDE DEF quantity
<1>2. /\ opp \in Sim!Side /\ opp # s /\ \A t \in Sim!Side : t # s => t = opp
      /\ Sim!At(opp, Sim!Sign(s)) = SeedDepth + 2 /\ SeedDepth + 2 \in Sim!Levels
      /\ SeedDepth \in Nat
  BY SidesAre, SessionAssumption
<1> HIDE DEF opp
<1>3. book[opp] \in [Sim!Levels -> Nat] /\ book[s] \in [Sim!Levels -> Nat]  BY <1>2
<1>4. Seed \in Nat /\ Seed >= 1  BY SeedingAdds
<1>5. /\ taken \in [Sim!Levels -> Nat]
      /\ \A i \in Sim!Levels : taken[i] <= book[opp][i]
      /\ Total(book[opp]) \in Nat
      /\ Total(taken) = IF Total(book[opp]) <= quantity THEN Total(book[opp]) ELSE quantity
  BY <1>1, <1>3, TakenIs
<1>6. Total(book[opp]) >= Seed /\ Total(book[s]) >= Seed  BY <1>2 DEF BookKept
<1>7. Total(taken) >= IF quantity <= Seed THEN quantity ELSE Seed  BY <1>1, <1>4, <1>5, <1>6
<1>8. before = book
  <2>1. Total(taken) # 0  BY <1>1, <1>4, <1>7
  <2>2. Sim!Total(first) # 0  BY <2>1, InSim
  <2>3. QED  BY <2>2
<1> HIDE DEF taken
<1>9. left \in [Sim!Levels -> Nat] /\ \A i \in Sim!Levels : left[i] = book[opp][i] - taken[i]
  <2>1. ASSUME NEW i \in Sim!Levels PROVE book[opp][i] - taken[i] \in Nat
    <3>1. book[opp][i] \in Nat /\ taken[i] \in Nat /\ taken[i] <= book[opp][i]  BY <1>3, <1>5
    <3>2. QED  BY <3>1
  <2>2. QED  BY <2>1
<1>10. after = [t \in Sim!Side |-> IF t = opp THEN left ELSE book[t]]  BY <1>2
<1> HIDE DEF left
<1>11. put \in [Sim!Levels -> Nat]
       /\ \A i \in Sim!Levels : put[i] = IF i = SeedDepth + 2 THEN left[i] + quantity ELSE left[i]
  <2>1. ASSUME NEW i \in Sim!Levels
        PROVE  (IF i = SeedDepth + 2 THEN left[i] + quantity ELSE left[i]) \in Nat
    BY <1>1, <1>9
  <2>2. QED  BY <2>1
<1>12. next = [t \in Sim!Side |-> IF t = opp THEN put ELSE book[t]]
  <2> DEFINE k == Sim!At(opp, Sim!Sign(s))
  <2>1. next = [after EXCEPT ![opp] = [after[opp] EXCEPT ![k] = @ + quantity]]
    BY DEF Sim!Replenished, opp
  <2>2. after[opp] = left  BY <1>2, <1>10
  <2>3. [left EXCEPT ![k] = @ + quantity] = put
    <3>1. left = [i \in Sim!Levels |-> left[i]]  BY <1>9
    <3>2. k = SeedDepth + 2  BY <1>2
    <3> HIDE DEF k
    <3>3. QED  BY <1>2, <3>1, <3>2
  <2> HIDE DEF after, k, put, next
  <2>4. next = [after EXCEPT ![opp] = put]  BY <2>1, <2>2, <2>3
  <2>5. QED  BY <1>10, <2>4
<1> HIDE DEF put, next, after
<1>13. next \in [Sim!Side -> [Sim!Levels -> Nat]]  BY <1>11, <1>12
<1>14. \A t \in Sim!Side : \A i \in Sim!Levels : next[t][i] > 0 => i > SeedDepth
  <2>1. SUFFICES ASSUME NEW t \in Sim!Side, NEW i \in Sim!Levels, next[t][i] > 0
                 PROVE  i > SeedDepth
    OBVIOUS
  <2>2. book[t][i] > 0 => i > SeedDepth  BY DEF BookKept
  <2>3. CASE t # opp  BY <1>12, <2>1, <2>2, <2>3
  <2>4. CASE t = opp
    <3>1. next[t][i] = put[i]  BY <1>12, <2>4
    <3>2. CASE i = SeedDepth + 2  BY <1>2, <3>2
    <3>3. CASE i # SeedDepth + 2
      <4>1. book[t][i] - taken[i] > 0 /\ taken[i] \in Nat /\ book[t][i] \in Nat
        BY <1>3, <1>5, <1>9, <1>11, <2>1, <2>4, <3>1, <3>3
      <4>2. QED  BY <2>2, <4>1
    <3>4. QED  BY <3>2, <3>3
  <2>5. QED  BY <2>3, <2>4
<1>15. \A t \in Sim!Side : Total(next[t]) >= Seed
  <2>1. /\ book[opp] \in Seq(Int) /\ taken \in Seq(Int) /\ left \in Seq(Int) /\ put \in Seq(Int)
        /\ Len(taken) = Len(book[opp]) /\ Len(left) = Len(book[opp]) /\ Len(put) = Len(left)
        /\ Sim!Levels = 1..Len(book[opp])
    BY <1>3, <1>5, <1>9, <1>11, SideIs
  <2>2. Total(left) = Total(book[opp]) - Total(taken)
    <3>1. \A i \in 1..Len(book[opp]) : left[i] = book[opp][i] - taken[i]  BY <1>9, <2>1
    <3>2. QED  BY <2>1, <3>1, TotalLess
  <2>3. Total(put) = Total(left) + quantity
    <3>1. SeedDepth + 2 \in 1..Len(left)  BY <1>2, <2>1
    <3>2. \A i \in 1..Len(left) : put[i] = IF i = SeedDepth + 2 THEN left[i] + quantity ELSE left[i]
      BY <1>11, <2>1
    <3>3. quantity \in Int  BY <1>1
    <3> DEFINE k == SeedDepth + 2
    <3>4. k \in 1..Len(left) /\ \A i \in 1..Len(left) : put[i] = IF i = k THEN left[i] + quantity ELSE left[i]
      BY <3>1, <3>2
    <3> HIDE DEF k
    <3>5. QED  BY <2>1, <3>3, <3>4, TotalAdds
  <2>4. Total(taken) <= quantity /\ Total(taken) \in Nat  BY <1>1, <1>5
  <2>5. Total(put) >= Seed  BY <1>1, <1>4, <1>5, <1>6, <2>2, <2>3, <2>4
  <2>6. QED  BY <1>2, <1>6, <1>12, <2>5
<1> DEFINE exec == Sim!Execution(s, Sim!Reference(book), taken)
<1>16. /\ exec \in SessionExecution /\ exec.filled = Total(taken)
       /\ exec.cost = exec.shortfall + exec.temporary + exec.permanent
  <2> DEFINE ref == Sim!Reference(book)
  <2>1. /\ ref \in Int
        /\ \A i \in Sim!Levels : book[opp][i] > 0 =>
             IF s = "Buy" THEN ref <= 2 * Sim!Price(opp, i) ELSE 2 * Sim!Price(opp, i) <= ref
    BY ReferenceIs DEF BookKept, opp
  <2> HIDE DEF ref
  <2>2. \A i \in Sim!Levels : taken[i] > 0 => book[opp][i] > 0
    <3>1. \A i \in Sim!Levels : taken[i] \in Nat /\ book[opp][i] \in Nat /\ taken[i] <= book[opp][i]
      BY <1>3, <1>5
    <3>2. QED  BY <3>1
  <2>3. \A i \in Sim!Levels : taken[i] > 0 =>
          IF s = "Buy" THEN ref <= 2 * Sim!Price(Sim!Opposite(s), i)
                       ELSE 2 * Sim!Price(Sim!Opposite(s), i) <= ref
    BY <2>1, <2>2 DEF opp
  <2>4. QED  BY <1>5, <2>1, <2>3, ExecutionIs DEF ref
<1>17. /\ exec.filled >= IF quantity <= Seed THEN quantity ELSE Seed
       /\ exec.filled <= quantity
  BY <1>1, <1>5, <1>7, <1>16
<1> HIDE DEF exec
<1> DEFINE other == Sim!Taken(before[opp], quantity)
<1>18. other = taken  BY <1>8 DEF taken
<1> HIDE DEF before, other
<1>19. QED  BY <1>8, <1>13, <1>14, <1>15, <1>16, <1>17, <1>18
         DEF before, other, exec, next, after, left, taken, opp, quantity

-----------------------------------------------------------------------------
(* The steps of a session *)

\* A step that leaves the book and the executions alone keeps what is said of them.
LEMMA BookStays ==
  ASSUME BookKept, UNCHANGED book
  PROVE  BookKept'
BY DEF BookKept

LEMMA CostsStay ==
  ASSUME CostsKept, UNCHANGED <<executions, totals>>
  PROVE  CostsKept'
BY DEF CostsKept, Sim!Column

\* The session starts with a seeded book and nothing else.
LEMMA SessionStarts ==
  ASSUME Sim!Init
  PROVE  SessionInv
<1> DEFINE zero == [s \in Sim!Side |-> [i \in Sim!Levels |-> 0]]
<1>1. zero \in [Sim!Side -> [Sim!Levels -> Nat]] /\ book = Sim!Seeded(zero)  BY DEF Sim!Init
<1>2. ASSUME NEW s \in Sim!Side
      PROVE  Total(zero[s]) = 0 /\ \A i \in Sim!Levels : zero[s][i] = 0
  <2> DEFINE side == zero[s]
  <2>1. side \in [Sim!Levels -> Int] /\ \A i \in Sim!Levels : side[i] = 0  OBVIOUS
  <2> HIDE DEF side
  <2>2. side \in Seq(Int) /\ Len(side) = 2 * SeedDepth + 1 /\ Sim!Levels = 1..Len(side)
    BY <2>1, SideIs
  <2>3. Total(side) = Len(side) * 0  BY <2>1, <2>2, TotalConstant
  <2>4. Len(side) \in Nat  BY <2>2
  <2>5. Total(side) = 0  BY <2>3, <2>4
  <2>6. QED  BY <2>1, <2>5 DEF side
<1> HIDE DEF zero
<1>3. ASSUME NEW s \in Sim!Side
      PROVE  /\ book[s] \in [Sim!Levels -> Nat]
             /\ \A i \in Sim!Levels : book[s][i] > 0 => i > SeedDepth
             /\ Total(book[s]) >= Seed
  <2>1. /\ book[s] \in [Sim!Levels -> Nat]
        /\ \A i \in Sim!Levels : book[s][i] > zero[s][i] => i > SeedDepth
        /\ Total(book[s]) = Total(zero[s]) + Seed /\ Seed \in Nat
    BY <1>1, SeedingAdds
  <2>2. QED  BY <1>2, <2>1
<1>4. book \in [Sim!Side -> [Sim!Levels -> Nat]]
  <2>1. book = [s \in Sim!Side |-> book[s]]  BY <1>1 DEF Sim!Seeded
  <2>2. QED  BY <1>3, <2>1
<1>5. /\ simPc = "sample" /\ clock = 0 /\ limit = 0 /\ queue = {} /\ generated = {}
      /\ arrivals = <<>> /\ executions = <<>> /\ maxEvents \in Nat
      /\ totals = [cost |-> 0, temporary |-> 0, permanent |-> 0, shortfall |-> 0]
  BY SessionAssumption DEF Sim!Init
<1>6. Len(arrivals) = 0 /\ Len(executions) = 0  BY <1>5
<1>7. SessionTypes
  <2>1. IsFiniteSet(generated)  BY <1>5, FS_EmptySet
  <2>2. arrivals \in Seq(SessionEvent) /\ executions \in Seq(SessionExecution)  BY <1>5
  <2>3. QED  BY <1>4, <1>5, <2>1, <2>2 DEF SessionTypes
<1>8. EventsPlaced  BY <1>5, <1>6 DEF EventsPlaced
<1>9. EventsOrdered  BY <1>5, <1>6 DEF EventsOrdered
<1>10. SessionPhases  BY <1>5, <1>6 DEF SessionPhases
<1>11. BookKept  BY <1>3 DEF BookKept
<1>12. CostsKept
  <2>1. Sim!Column("shortfall") = <<>> /\ Sim!Column("cost") = <<>>  BY <1>6 DEF Sim!Column
  <2>2. QED  BY <1>5, <1>6, <2>1, TotalEmpty DEF CostsKept
<1>13. Sim!SummaryAgrees  BY <1>5 DEF Sim!SummaryAgrees
<1>14. QED  BY <1>7, <1>8, <1>9, <1>10, <1>11, <1>12, <1>13 DEF SessionInv

\* A sampled event is a new one, and not ready before it was sampled.
LEMMA SampleKeeps ==
  ASSUME SessionInv, NEW wait \in Waits, NEW s \in Sim!Side, NEW delay \in Delays,
         Sim!Sample(wait, s, delay)
  PROVE  SessionInv'
<1> DEFINE event == [id |-> Sim!Cardinality(generated) + 1, raw |-> clock + wait,
                     ready |-> clock + wait + delay, side |-> s]
<1>1. /\ simPc = "sample" /\ clock' = clock + wait
      /\ queue' = queue \cup {event} /\ generated' = generated \cup {event}
      /\ limit' = clock + wait /\ simPc' = "flush"
      /\ UNCHANGED <<maxEvents, book, arrivals, executions, totals, summary>>
  BY DEF Sim!Sample
<1>2. /\ wait \in Nat /\ delay \in Nat /\ clock \in Nat
      /\ generated \subseteq SessionEvent /\ IsFiniteSet(generated) /\ queue \subseteq generated
      /\ arrivals \in Seq(SessionEvent)
  BY SessionAssumption DEF SessionInv, SessionTypes
<1>3. /\ Cardinality(generated) \in Nat /\ event.id = Cardinality(generated) + 1
      /\ event.ready = clock + wait + delay
  BY <1>2, FS_CardinalityType, InSim
<1>4. event \in SessionEvent  BY <1>2, <1>3, InSim DEF SessionEvent
<1> HIDE DEF event
<1>5. event \notin generated
  <2>1. \A e \in generated : e.id <= Cardinality(generated)  BY DEF SessionInv, EventsPlaced
  <2>2. QED  BY <1>3, <2>1
<1>6. IsFiniteSet(generated') /\ Cardinality(generated') = Cardinality(generated) + 1
  BY <1>1, <1>2, <1>5, FS_AddElement
<1>7. \A i \in 1..Len(arrivals) : arrivals[i] \in SessionEvent  BY <1>2
<1>8. SessionTypes'
  BY <1>1, <1>2, <1>4, <1>6 DEF SessionInv, SessionTypes
<1>9. EventsPlaced'
  <2>1. generated' \ queue' = generated \ queue  BY <1>1, <1>5
  <2>2. \A e \in generated' : e.id <= Cardinality(generated')
    <3>1. \A e \in generated : e.id \in Nat /\ e.id <= Cardinality(generated)
      BY <1>2 DEF SessionInv, EventsPlaced, SessionEvent
    <3>2. \A e \in generated : e.id <= Cardinality(generated')  BY <1>3, <1>6, <3>1
    <3>3. event.id <= Cardinality(generated')  BY <1>3, <1>6
    <3>4. QED  BY <1>1, <3>2, <3>3
  <2>3. /\ \A i, j \in 1..Len(arrivals) : arrivals[i] = arrivals[j] => i = j
        /\ \A i \in 1..Len(arrivals) : arrivals[i] \in generated \ queue /\ arrivals[i].ready <= Session
        /\ \A e \in generated \ queue :
             e.ready > Session \/ \E i \in 1..Len(arrivals) : arrivals[i] = e
    BY DEF SessionInv, EventsPlaced
  <2>4. QED  BY <1>1, <2>1, <2>2, <2>3 DEF EventsPlaced
<1>10. EventsOrdered'
  <2>1. /\ \A i, j \in 1..Len(arrivals) : i <= j => arrivals[i].ready <= arrivals[j].ready
        /\ \A i \in 1..Len(arrivals) : \A e \in queue : arrivals[i].ready <= e.ready
        /\ \A i \in 1..Len(arrivals) : arrivals[i].ready <= clock
    BY DEF SessionInv, EventsOrdered
  <2>2. ASSUME NEW i \in 1..Len(arrivals)
        PROVE  arrivals[i].ready <= event.ready /\ arrivals[i].ready <= clock'
    <3>1. arrivals[i].ready \in Nat  BY <1>7 DEF SessionEvent
    <3>2. QED  BY <1>1, <1>2, <1>3, <2>1, <3>1
  <2>3. \A i \in 1..Len(arrivals) : \A e \in queue' : arrivals[i].ready <= e.ready
    BY <1>1, <2>1, <2>2
  <2>4. QED  BY <1>1, <2>1, <2>2, <2>3 DEF EventsOrdered
<1>11. SessionPhases'  BY <1>1 DEF SessionInv, SessionPhases
<1>12. BookKept' /\ CostsKept'  BY <1>1, BookStays, CostsStay DEF SessionInv
<1>13. Sim!SummaryAgrees'  BY <1>1 DEF Sim!SummaryAgrees
<1>14. QED  BY <1>8, <1>9, <1>10, <1>11, <1>12, <1>13 DEF SessionInv

\* The sampling ends when the clock has left the session.
LEMMA OverKeeps ==
  ASSUME SessionInv, Sim!SessionOver
  PROVE  SessionInv'
<1>1. /\ simPc = "sample" /\ clock >= Session /\ simPc' = "final" /\ limit' = Session
      /\ UNCHANGED <<maxEvents, clock, queue, book, arrivals, executions, totals, summary,
                     generated>>
  BY DEF Sim!SessionOver
<1>2. SessionTypes'  BY <1>1, SessionAssumption DEF SessionInv, SessionTypes
<1>3. EventsPlaced'  BY <1>1 DEF SessionInv, EventsPlaced
<1>4. EventsOrdered'  BY <1>1 DEF SessionInv, EventsOrdered
<1>5. Session <= clock  BY <1>1, SessionAssumption DEF SessionInv, SessionTypes
<1>6. SessionPhases'  BY <1>1, <1>5 DEF SessionInv, SessionPhases
<1>7. BookKept' /\ CostsKept'  BY <1>1, BookStays, CostsStay DEF SessionInv
<1>8. Sim!SummaryAgrees'  BY <1>1 DEF Sim!SummaryAgrees
<1>9. QED  BY <1>2, <1>3, <1>4, <1>6, <1>7, <1>8 DEF SessionInv

\* What is skipped was ready too late.
LEMMA SkipKeeps ==
  ASSUME SessionInv, NEW event \in queue, Sim!Skip(event)
  PROVE  SessionInv'
<1>1. /\ simPc \in {"flush", "final"} /\ event.ready > Session /\ queue' = queue \ {event}
      /\ UNCHANGED <<simPc, maxEvents, clock, limit, book, arrivals, executions, totals,
                     summary, generated>>
  BY DEF Sim!Skip, Sim!Flushing
<1>2. SessionTypes'  BY <1>1 DEF SessionInv, SessionTypes
<1>3. EventsPlaced'
  <2>1. generated' \ queue' = (generated \ queue) \cup {event}
    BY <1>1 DEF SessionInv, SessionTypes
  <2>2. QED  BY <1>1, <2>1 DEF SessionInv, EventsPlaced
<1>4. EventsOrdered'  BY <1>1 DEF SessionInv, EventsOrdered
<1>5. SessionPhases'  BY <1>1 DEF SessionInv, SessionPhases
<1>6. BookKept' /\ CostsKept'  BY <1>1, BookStays, CostsStay DEF SessionInv
<1>7. Sim!SummaryAgrees'  BY <1>1 DEF Sim!SummaryAgrees
<1>8. QED  BY <1>2, <1>3, <1>4, <1>5, <1>6, <1>7 DEF SessionInv

\* A flush ends when nothing that is queued is ready.
LEMMA FlushDoneKeeps ==
  ASSUME SessionInv, Sim!FlushDone
  PROVE  SessionInv'
<1>1. /\ simPc \in {"flush", "final"} /\ \A e \in queue : e.ready > limit
      /\ simPc' = IF simPc = "final" THEN "report"
                  ELSE IF clock > Session THEN "final" ELSE "sample"
      /\ limit' = IF simPc = "flush" /\ clock > Session THEN Session ELSE limit
      /\ UNCHANGED <<maxEvents, clock, queue, book, arrivals, executions, totals, summary,
                     generated>>
  BY DEF Sim!FlushDone, Sim!Flushing
<1>2. SessionTypes'  BY <1>1, SessionAssumption DEF SessionInv, SessionTypes
<1>3. EventsPlaced'  BY <1>1 DEF SessionInv, EventsPlaced
<1>4. EventsOrdered'  BY <1>1 DEF SessionInv, EventsOrdered
<1>5. SessionPhases'
  <2>1. clock > Session => Session <= clock
    BY SessionAssumption DEF SessionInv, SessionTypes
  <2>2. CASE simPc = "final"  BY <1>1, <2>2 DEF SessionInv, SessionPhases
  <2>3. CASE simPc = "flush"  BY <1>1, <2>1, <2>3 DEF SessionInv, SessionPhases
  <2>4. QED  BY <1>1, <2>2, <2>3
<1>6. BookKept' /\ CostsKept'  BY <1>1, BookStays, CostsStay DEF SessionInv
<1>7. Sim!SummaryAgrees'  BY <1>1 DEF Sim!SummaryAgrees
<1>8. QED  BY <1>2, <1>3, <1>4, <1>5, <1>6, <1>7 DEF SessionInv

\* A trade records the event and what it cost, and leaves the book its liquidity.
LEMMA SessionTradeKeeps ==
  ASSUME SessionInv, NEW event \in queue, Sim!Trade(event)
  PROVE  SessionInv'
<1> DEFINE s      == event.side
           opp    == Sim!Opposite(s)
           first  == Sim!Taken(book[opp], Sim!Quantity)
           before == IF Sim!Total(first) = 0 THEN Sim!Seeded(book) ELSE book
           taken  == Sim!Taken(before[opp], Sim!Quantity)
           after  == [before EXCEPT ![opp] = [i \in Sim!Levels |-> @[i] - taken[i]]]
           next   == Sim!Replenished(after, s, Sim!Quantity)
           exec   == Sim!Execution(s, Sim!Reference(book), taken)
           n      == Len(arrivals)
           m      == Len(executions)
<1>1. /\ simPc \in {"flush", "final"}
      /\ event.ready <= limit /\ (\A e \in queue : event.ready <= e.ready)
      /\ event.ready <= Session
      /\ queue' = queue \ {event} /\ book' = next
      /\ executions' = Append(executions, exec)
      /\ totals' = [f \in DOMAIN totals |-> totals[f] + exec[f]]
      /\ arrivals' = Append(arrivals, event)
      /\ simPc' = IF Sim!LimitReached(n + 1) THEN "report" ELSE simPc
      /\ UNCHANGED <<maxEvents, clock, limit, summary, generated>>
  BY DEF Sim!Trade, Sim!Flushing, Sim!IsFront
<1>2. /\ maxEvents \in Nat /\ clock \in Nat /\ limit \in Nat
      /\ generated \subseteq SessionEvent /\ IsFiniteSet(generated) /\ queue \subseteq generated
      /\ arrivals \in Seq(SessionEvent) /\ executions \in Seq(SessionExecution)
      /\ totals \in [cost : Int, temporary : Int, permanent : Int, shortfall : Int]
      /\ book \in [Sim!Side -> [Sim!Levels -> Nat]]
  BY DEF SessionInv, SessionTypes
<1>3. event \in SessionEvent /\ event \in generated  BY <1>2
<1>4. s \in Sim!Side /\ event.ready \in Nat  BY <1>3 DEF SessionEvent
<1>5. /\ next \in [Sim!Side -> [Sim!Levels -> Nat]]
      /\ \A t \in Sim!Side :
           /\ \A i \in Sim!Levels : next[t][i] > 0 => i > SeedDepth
           /\ Total(next[t]) >= Seed
      /\ exec \in SessionExecution
      /\ exec.filled >= IF Sim!Quantity <= Seed THEN Sim!Quantity ELSE Seed
      /\ exec.filled <= Sim!Quantity
      /\ exec.cost = exec.shortfall + exec.temporary + exec.permanent
  <2> HIDE DEF s
  <2>1. BookKept  BY DEF SessionInv
  <2>2. QED  BY <1>2, <1>4, <2>1, TradeBook
<1> HIDE DEF s, next, exec
<1>6. /\ n \in Nat /\ Len(arrivals') = n + 1 /\ arrivals' \in Seq(SessionEvent)
      /\ arrivals'[n + 1] = event /\ \A i \in 1..n : arrivals'[i] = arrivals[i]
  BY <1>1, <1>2, <1>3
<1>7. /\ m \in Nat /\ Len(executions') = m + 1 /\ executions' \in Seq(SessionExecution)
      /\ executions'[m + 1] = exec /\ \A i \in 1..m : executions'[i] = executions[i]
  BY <1>1, <1>2, <1>5
<1>8. \A i \in 1..n : arrivals[i] \in SessionEvent  BY <1>2
<1> HIDE DEF n, m
<1>9. \A i \in 1..(n + 1) : i \in 1..n \/ i = n + 1  BY <1>6
<1>10. /\ totals.cost \in Int /\ totals.temporary \in Int /\ totals.permanent \in Int
       /\ totals.shortfall \in Int
       /\ exec.cost \in Int /\ exec.temporary \in Int /\ exec.permanent \in Int
       /\ exec.shortfall \in Int
  BY <1>2, <1>5 DEF SessionExecution
<1>11. /\ totals'.cost = totals.cost + exec.cost
       /\ totals'.temporary = totals.temporary + exec.temporary
       /\ totals'.permanent = totals.permanent + exec.permanent
       /\ totals'.shortfall = totals.shortfall + exec.shortfall
       /\ totals' = [cost |-> totals'.cost, temporary |-> totals'.temporary,
                     permanent |-> totals'.permanent, shortfall |-> totals'.shortfall]
  <2>1. DOMAIN totals = {"cost", "temporary", "permanent", "shortfall"}  BY <1>2
  <2>2. QED  BY <1>1, <2>1
<1>12. SessionTypes'
  <2>1. totals' \in [cost : Int, temporary : Int, permanent : Int, shortfall : Int]
    <3>1. /\ totals'.cost \in Int /\ totals'.temporary \in Int
          /\ totals'.permanent \in Int /\ totals'.shortfall \in Int
      BY <1>10, <1>11
    <3>2. QED  BY <1>11, <3>1
  <2>2. simPc' \in {"sample", "flush", "final", "report", "done"}  BY <1>1
  <2>3. QED  BY <1>1, <1>2, <1>5, <1>6, <1>7, <2>1, <2>2 DEF SessionTypes
<1>13. EventsPlaced'
  <2>1. /\ \A e \in generated : e.id <= Cardinality(generated)
        /\ \A i, j \in 1..n : arrivals[i] = arrivals[j] => i = j
        /\ \A i \in 1..n : arrivals[i] \in generated \ queue /\ arrivals[i].ready <= Session
        /\ \A e \in generated \ queue : e.ready > Session \/ \E i \in 1..n : arrivals[i] = e
    BY DEF SessionInv, EventsPlaced, n
  <2>2. \A i \in 1..n : arrivals[i] # event  BY <2>1
  <2>3. \A i, j \in 1..(n + 1) : arrivals'[i] = arrivals'[j] => i = j
    BY <1>6, <1>9, <2>1, <2>2
  <2>4. \A i \in 1..(n + 1) : arrivals'[i] \in generated \ queue' /\ arrivals'[i].ready <= Session
    <3>1. ASSUME NEW i \in 1..n
          PROVE  arrivals'[i] \in generated \ queue' /\ arrivals'[i].ready <= Session
      BY <1>1, <1>6, <2>1
    <3>2. arrivals'[n + 1] \in generated \ queue' /\ arrivals'[n + 1].ready <= Session
      BY <1>1, <1>3, <1>6
    <3>3. QED  BY <1>9, <3>1, <3>2
  <2>5. ASSUME NEW e \in generated \ queue'
        PROVE  e.ready > Session \/ \E i \in 1..(n + 1) : arrivals'[i] = e
    <3>1. CASE e = event
      <4>1. n + 1 \in 1..(n + 1)  BY <1>6
      <4>2. QED  BY <1>6, <3>1, <4>1
    <3>2. CASE e # event
      <4>1. e \in generated \ queue  BY <1>1, <2>5, <3>2
      <4>2. CASE e.ready > Session  BY <4>2
      <4>3. CASE \E i \in 1..n : arrivals[i] = e
        <5>1. PICK i \in 1..n : arrivals[i] = e  BY <4>3
        <5>2. i \in 1..(n + 1) /\ arrivals'[i] = e  BY <1>6, <5>1
        <5>3. QED  BY <5>2
      <4>4. QED  BY <2>1, <4>1, <4>2, <4>3
    <3>3. QED  BY <3>1, <3>2
  <2>6. QED  BY <1>1, <1>6, <2>1, <2>3, <2>4, <2>5 DEF EventsPlaced
<1>14. EventsOrdered'
  <2>1. /\ \A i, j \in 1..n : i <= j => arrivals[i].ready <= arrivals[j].ready
        /\ \A i \in 1..n : \A e \in queue : arrivals[i].ready <= e.ready
        /\ \A i \in 1..n : arrivals[i].ready <= clock
    BY DEF SessionInv, EventsOrdered, n
  <2>2. event.ready <= clock
    <3>1. limit <= clock
      <4>1. CASE simPc = "flush"  BY <1>2, <4>1 DEF SessionInv, SessionPhases
      <4>2. CASE simPc = "final"  BY <4>2 DEF SessionInv, SessionPhases
      <4>3. QED  BY <1>1, <4>1, <4>2
    <3>2. QED  BY <1>1, <1>2, <1>4, <3>1
  <2>3. ASSUME NEW i \in 1..(n + 1)
        PROVE  /\ arrivals'[i].ready <= event.ready /\ arrivals'[i].ready <= clock
               /\ \A e \in queue' : arrivals'[i].ready <= e.ready
    <3>1. CASE i \in 1..n  BY <1>1, <1>6, <2>1, <3>1
    <3>2. CASE i = n + 1  BY <1>1, <1>4, <1>6, <2>2, <3>2
    <3>3. QED  BY <1>9, <3>1, <3>2
  <2>4. ASSUME NEW i \in 1..(n + 1), NEW j \in 1..(n + 1), i <= j
        PROVE  arrivals'[i].ready <= arrivals'[j].ready
    <3>1. CASE j = n + 1  BY <1>6, <2>3, <3>1
    <3>2. CASE j \in 1..n
      <4>1. i \in 1..n  BY <1>6, <2>4, <3>2
      <4>2. QED  BY <1>6, <2>1, <2>4, <3>2, <4>1
    <3>3. QED  BY <1>9, <3>1, <3>2
  <2>5. QED  BY <1>1, <1>6, <2>3, <2>4 DEF EventsOrdered
<1>15. SessionPhases'
  <2>1. maxEvents > 0 => n < maxEvents  BY <1>1 DEF SessionInv, SessionPhases, n
  <2>2. CASE Sim!LimitReached(n + 1)
    <3>1. maxEvents > 0 /\ n + 1 = maxEvents  BY <1>2, <1>6, <2>1, <2>2 DEF Sim!LimitReached
    <3>2. simPc' = "report"  BY <1>1, <2>2
    <3>3. QED  BY <1>1, <1>2, <1>6, <3>1, <3>2 DEF SessionPhases
  <2>3. CASE ~Sim!LimitReached(n + 1)
    <3>1. maxEvents > 0 => n + 1 < maxEvents  BY <1>2, <1>6, <2>3 DEF Sim!LimitReached
    <3>2. simPc' = simPc  BY <1>1, <2>3
    <3>3. maxEvents > 0 => n + 1 <= maxEvents  BY <1>2, <1>6, <3>1
    <3>4. /\ simPc = "flush" => limit = clock
          /\ simPc = "final" => limit = Session /\ Session <= clock
      BY DEF SessionInv, SessionPhases
    <3>5. simPc \notin {"report", "done"}  BY <1>1
    <3>6. QED  BY <1>1, <1>6, <3>1, <3>2, <3>3, <3>4, <3>5 DEF SessionPhases
  <2>4. QED  BY <2>2, <2>3
<1>16. BookKept'  BY <1>1, <1>5 DEF BookKept
<1>17. CostsKept'
  <2>1. /\ \A i \in 1..m :
             /\ executions[i].filled >= IF Sim!Quantity <= Seed THEN Sim!Quantity ELSE Seed
             /\ executions[i].filled <= Sim!Quantity
        /\ totals.shortfall = Total(Sim!Column("shortfall"))
        /\ totals.cost = Total(Sim!Column("cost"))
        /\ totals.cost = totals.shortfall + totals.temporary + totals.permanent
    BY DEF SessionInv, CostsKept, m
  <2>2. \A i \in 1..(m + 1) :
          /\ executions'[i].filled >= IF Sim!Quantity <= Seed THEN Sim!Quantity ELSE Seed
          /\ executions'[i].filled <= Sim!Quantity
    <3>1. \A i \in 1..(m + 1) : i \in 1..m \/ i = m + 1  BY <1>7
    <3>2. QED  BY <1>5, <1>7, <2>1, <3>1
  <2>3. ASSUME NEW f \in {"shortfall", "cost"}
        PROVE  Total(Sim!Column(f))' = Total(Sim!Column(f)) + exec[f]
    <3> DEFINE old == Sim!Column(f)
               new == Sim!Column(f)'
               x == exec[f]
    <3>1. x \in Int
      <4>1. CASE f = "shortfall"  BY <1>10, <4>1
      <4>2. CASE f = "cost"  BY <1>10, <4>2
      <4>3. QED  BY <2>3, <4>1, <4>2
    <3>2. \A i \in 1..m : executions[i][f] \in Int
      <4>1. ASSUME NEW i \in 1..m PROVE executions[i][f] \in Int
        <5>1. executions[i] \in SessionExecution  BY <1>2 DEF m
        <5>2. executions[i]["shortfall"] \in Int /\ executions[i]["cost"] \in Int
          BY <5>1 DEF SessionExecution
        <5>3. QED  BY <2>3, <5>2
      <4>2. QED  BY <4>1
    <3>3. old = [i \in 1..m |-> executions[i][f]]  BY DEF Sim!Column, m
    <3>4. new = [i \in 1..(m + 1) |-> executions'[i][f]]  BY <1>7 DEF Sim!Column
    <3>5. executions'[m + 1][f] = x  BY <1>7
    <3> HIDE DEF old, new, x
    <3>6. old \in Seq(Int) /\ Len(old) = m /\ \A i \in 1..m : old[i] = executions[i][f]
      BY <1>7, <3>2, <3>3
    <3>7. new \in Seq(Int) /\ Len(new) = m + 1 /\ new[m + 1] = x
          /\ \A i \in 1..m : new[i] = old[i]
      <4>1. \A i \in 1..(m + 1) : executions'[i][f] \in Int
        <5>1. \A i \in 1..(m + 1) : i \in 1..m \/ i = m + 1  BY <1>7
        <5>2. QED  BY <1>7, <3>1, <3>2, <3>5, <5>1
      <4>2. new \in [1..(m + 1) -> Int]  BY <3>4, <4>1
      <4>3. new \in Seq(Int) /\ Len(new) = m + 1  BY <1>7, <4>2
      <4>4. m + 1 \in 1..(m + 1) /\ \A i \in 1..m : i \in 1..(m + 1)  BY <1>7
      <4>5. new[m + 1] = x  BY <3>4, <3>5, <4>4
      <4>6. \A i \in 1..m : new[i] = old[i]  BY <1>7, <3>4, <3>6, <4>4
      <4>7. QED  BY <4>3, <4>5, <4>6
    <3>8. new = Append(old, x)
      <4>1. Len(new) = Len(old) + 1 /\ new[Len(old) + 1] = x
            /\ \A i \in 1..Len(old) : new[i] = old[i]
        BY <3>6, <3>7
      <4>2. QED  BY <3>1, <3>6, <3>7, <4>1, AppendIs
    <3>9. Total(new) = Total(old) + x  BY <3>1, <3>6, <3>8, TotalAppend
    <3>10. QED  BY <3>9 DEF old, new, x
  <2>4. Total(Sim!Column("shortfall"))' = totals.shortfall + exec.shortfall
        /\ Total(Sim!Column("cost"))' = totals.cost + exec.cost
    BY <2>1, <2>3
  <2>5. totals'.cost = totals'.shortfall + totals'.temporary + totals'.permanent
    BY <1>5, <1>10, <1>11, <2>1
  <2>6. QED  BY <1>7, <1>11, <2>2, <2>4, <2>5 DEF CostsKept
<1>18. Sim!SummaryAgrees'
  <2>1. simPc' # "done"  BY <1>1
  <2>2. QED  BY <2>1 DEF Sim!SummaryAgrees
<1>19. QED  BY <1>12, <1>13, <1>14, <1>15, <1>16, <1>17, <1>18 DEF SessionInv

\* Gaps between successive times add up to the time from the first to the last.
LEMMA GapsSpan ==
  ASSUME NEW times \in Seq(Int), times # <<>>, NEW gaps \in Seq(Int),
         Len(gaps) = Len(times) - 1,
         \A i \in 1..Len(gaps) : gaps[i] = times[i + 1] - times[i]
  PROVE  Total(gaps) = times[Len(times)] - times[1]
<1> DEFINE n == Len(gaps)
           r == Running(gaps)
           T == {i \in 0..n : r[i] = times[i + 1] - times[1]}
<1>1. n \in Nat /\ Len(times) = n + 1 /\ \A i \in 1..(n + 1) : times[i] \in Int  OBVIOUS
<1>2. r \in [0..n -> Int] /\ r[0] = 0 /\ \A i \in 1..n : r[i] = r[i - 1] + gaps[i]
  BY RunningIs
<1> HIDE DEF r
<1>3. 0 \in T
  <2>1. 1 \in 1..(n + 1) /\ 0 \in 0..n  BY <1>1
  <2>2. times[0 + 1] - times[1] = 0  BY <1>1, <2>1
  <2>3. QED  BY <1>2, <2>1, <2>2
<1>4. ASSUME NEW i \in 0..n, i < n, i \in T PROVE i + 1 \in T
  <2>1. i + 1 \in 1..n /\ i + 1 \in 0..n /\ (i + 1) - 1 = i  BY <1>1, <1>4
  <2>2. 1 \in 1..(n + 1) /\ i + 1 \in 1..(n + 1) /\ (i + 1) + 1 \in 1..(n + 1)  BY <1>1, <1>4
  <2>3. r[i + 1] = r[i] + gaps[i + 1]  BY <1>2, <2>1
  <2>4. gaps[i + 1] = times[(i + 1) + 1] - times[i + 1]  BY <2>1
  <2>5. r[i] = times[i + 1] - times[1]  BY <1>4
  <2>6. times[1] \in Int /\ times[i + 1] \in Int /\ times[(i + 1) + 1] \in Int  BY <1>1, <2>2
  <2>7. r[i + 1] = times[(i + 1) + 1] - times[1]  BY <2>3, <2>4, <2>5, <2>6
  <2>8. QED  BY <2>1, <2>7
<1> HIDE DEF T
<1>5. n \in T
  <2>1. \A i \in 0..n : i \in T  BY <1>1, <1>3, <1>4, UpTo
  <2>2. QED  BY <1>1, <2>1
<1>6. QED  BY <1>1, <1>5 DEF T, Total, r

\* One more execution in a sum of fractions, each of a quantity up to k or
\* down to k.
LEMMA FractionStep ==
  ASSUME NEW a \in Nat, NEW d \in Nat, NEW u \in Nat, NEW x \in Nat, NEW t \in Nat, NEW k \in Nat
  PROVE  /\ k * a <= t * d /\ k <= u => k * (a * u + x * d) <= (t + x) * (d * u)
         /\ t * d <= k * a /\ u <= k => (t + x) * (d * u) <= k * (a * u + x * d)
<1>1. /\ k * a \in Nat /\ t * d \in Nat /\ x * d \in Nat /\ a * u \in Nat /\ d * u \in Nat
      /\ (k * a) * u \in Nat /\ (t * d) * u \in Nat /\ k * (x * d) \in Nat /\ u * (x * d) \in Nat
  OBVIOUS
<1>2. k * (a * u + x * d) = (k * a) * u + k * (x * d)  OBVIOUS
<1>3. (t + x) * (d * u) = (t * d) * u + u * (x * d)  OBVIOUS
<1>4. ASSUME k * a <= t * d, k <= u PROVE k * (a * u + x * d) <= (t + x) * (d * u)
  <2>1. (k * a) * u <= (t * d) * u  BY <1>1, <1>4, ProductOrder
  <2>2. k * (x * d) <= u * (x * d)  BY <1>1, <1>4, ProductOrder
  <2>3. QED  BY <1>1, <1>2, <1>3, <2>1, <2>2
<1>5. ASSUME t * d <= k * a, u <= k PROVE (t + x) * (d * u) <= k * (a * u + x * d)
  <2>1. (t * d) * u <= (k * a) * u  BY <1>1, <1>5, ProductOrder
  <2>2. u * (x * d) <= k * (x * d)  BY <1>1, <1>5, ProductOrder
  <2>3. QED  BY <1>1, <1>2, <1>3, <2>1, <2>2
<1>6. QED  BY <1>4, <1>5

\* The least an order of a session is filled with.
LEMMA SmallestFill ==
  /\ Sim!Min({Sim!Quantity, Sim!SeedQuantity}) =
       IF Sim!Quantity <= Seed THEN Sim!Quantity ELSE Seed
  /\ Sim!Quantity \in Nat
  /\ Sim!Min({Sim!Quantity, Sim!SeedQuantity}) \in Nat \ {0}
<1> DEFINE quantity == Sim!Quantity
<1>1. quantity \in Nat /\ quantity >= 1
  BY InSim, TheLarger, SessionAssumption DEF Sim!Quantity
<1>2. Seed \in Nat /\ Seed >= 1
  <2> DEFINE zero == [s \in Sim!Side |-> [i \in Sim!Levels |-> 0]]
  <2>1. zero \in [Sim!Side -> [Sim!Levels -> Nat]]  OBVIOUS
  <2>2. "Buy" \in Sim!Side  BY DEF Sim!Side
  <2>3. QED  BY <2>1, <2>2, SeedingAdds
<1>3. Sim!SeedQuantity = Seed  BY DEF Sim!SeedQuantity, Seed
<1> HIDE DEF quantity
<1>4. Min({quantity, Seed}) = IF quantity <= Seed THEN quantity ELSE Seed
  BY <1>1, <1>2, TheSmaller
<1>5. QED  BY <1>1, <1>2, <1>3, <1>4, InSim DEF quantity

\* Slippage is shortfall per unit: the two are as far apart as what the orders
\* of a session are filled with.
LEMMA SlippageBounds ==
  ASSUME executions \in Seq(SessionExecution), NEW least \in Nat \ {0}, NEW most \in Nat,
         \A i \in 1..Len(executions) :
           executions[i].filled >= least /\ executions[i].filled <= most
  PROVE  /\ least * Sim!Slippage.num <= Total(Sim!Column("shortfall")) * Sim!Slippage.den
         /\ Total(Sim!Column("shortfall")) * Sim!Slippage.den <= most * Sim!Slippage.num
<1> DEFINE n == Len(executions)
           col == Sim!Column("shortfall")
           r == Running(col)
           Fraction == [num : Nat, den : Nat]
           Units(i) == Sim!Max({1, executions[i].filled})
           Sum(f, i) == [num |-> f.num * Units(i) + executions[i].shortfall * f.den,
                         den |-> f.den * Units(i)]
           round == [i \in 1..n |-> [f \in Fraction |-> Sum(f, i)]]
           Body(g) == [i \in 0..n |->
             IF i = 0 THEN Sim!NoSlippage
             ELSE [num |-> g[i - 1].num * Units(i) + executions[i].shortfall * g[i - 1].den,
                   den |-> g[i - 1].den * Units(i)]]
           g == CHOOSE h : h = Body(h)
           T == {i \in 0..n : /\ least * g[i].num <= r[i] * g[i].den
                              /\ r[i] * g[i].den <= most * g[i].num}
<1>1. n \in Nat  OBVIOUS
<1>2. ASSUME NEW i \in 1..n
      PROVE  /\ Units(i) = executions[i].filled /\ Units(i) \in Nat
             /\ executions[i].shortfall \in Nat
             /\ Units(i) >= least /\ Units(i) <= most
  <2> DEFINE x == executions[i].filled
  <2>1. executions[i] \in SessionExecution  OBVIOUS
  <2>2. x \in Nat /\ executions[i].shortfall \in Nat  BY <2>1 DEF SessionExecution
  <2>3. x >= least /\ x <= most /\ x >= 1  BY <2>2
  <2> HIDE DEF x
  <2>4. Max({1, x}) = x  BY <2>2, <2>3, TheLarger
  <2>5. QED  BY <2>2, <2>3, <2>4, InSim DEF x
<1> HIDE DEF Units
<1>3. round \in [1..n -> [Fraction -> Fraction]]
  <2>1. ASSUME NEW i \in 1..n, NEW f \in Fraction PROVE Sum(f, i) \in Fraction
    <3> DEFINE a == f.num
               d == f.den
               u == Units(i)
               x == executions[i].shortfall
    <3>1. a \in Nat /\ d \in Nat /\ u \in Nat /\ x \in Nat  BY <1>2
    <3>2. Sum(f, i) = [num |-> a * u + x * d, den |-> d * u]  OBVIOUS
    <3> HIDE DEF a, d, u, x, Sum
    <3>3. \A p, q \in Nat : p * q \in Nat /\ p + q \in Nat  OBVIOUS
    <3>4. a * u \in Nat /\ x * d \in Nat /\ d * u \in Nat  BY <3>1, <3>3, Zenon
    <3>5. a * u + x * d \in Nat  BY <3>3, <3>4, Zenon
    <3>6. QED  BY <3>2, <3>4, <3>5
  <2> HIDE DEF Fraction, Sum, n
  <2>2. QED  BY <2>1
<1>4. Sim!NoSlippage \in Fraction  BY DEF Sim!NoSlippage
<1> HIDE DEF round
<1>5. PICK f \in [0..n -> Fraction] : IsRun(f, n, Sim!NoSlippage, round)
  <2> HIDE DEF Fraction, n
  <2>1. QED  BY <1>1, <1>3, <1>4, LoopRuns
<1>6. f = Body(f)
  <2>1. ASSUME NEW i \in 1..n PROVE f[i] = Sum(f[i - 1], i)
    <3>1. i - 1 \in 0..n  BY <1>1
    <3>2. f[i - 1] \in Fraction  BY <1>5, <3>1
    <3>3. f[i] = round[i][f[i - 1]]  BY <1>5 DEF IsRun
    <3> HIDE DEF Fraction, Sum
    <3>4. QED  BY <3>2, <3>3 DEF round
  <2>2. \A i \in 0..n : i # 0 => i \in 1..n  BY <1>1
  <2>3. f[0] = Sim!NoSlippage  BY <1>5 DEF IsRun
  <2>4. \A i \in 0..n : f[i] = Body(f)[i]  BY <2>1, <2>2, <2>3
  <2>5. f = [i \in 0..n |-> f[i]]  BY <1>5
  <2>6. Body(f) = [i \in 0..n |-> Body(f)[i]]  OBVIOUS
  <2> HIDE DEF Body, n
  <2>7. QED  BY <2>4, <2>5, <2>6
<1>7. g = Body(g)
  <2> HIDE DEF Body
  <2>1. (CHOOSE h : h = Body(h)) = Body(CHOOSE h : h = Body(h))  BY <1>6
  <2>2. QED  BY <2>1
<1>8. Sim!Slippage = g[n]  BY DEF Sim!Slippage, Units
<1> HIDE DEF g
<1>9. /\ g[0] = [num |-> 0, den |-> 1]
      /\ \A i \in 1..n : g[i] = Sum(g[i - 1], i)
  <2>1. 0 \in 0..n /\ \A i \in 1..n : i \in 0..n /\ i # 0  BY <1>1
  <2>2. g[0] = Body(g)[0] /\ \A i \in 1..n : g[i] = Body(g)[i]  BY <1>7
  <2> HIDE DEF n
  <2>3. QED  BY <2>1, <2>2 DEF Sim!NoSlippage
<1> HIDE DEF Body
<1>10. /\ col \in Seq(Int) /\ Len(col) = n
       /\ \A i \in 1..n : col[i] = executions[i].shortfall
  <2>1. col = [i \in 1..n |-> executions[i].shortfall]  BY DEF Sim!Column
  <2> HIDE DEF n, col
  <2>2. col \in [1..n -> Int]  BY <1>2, <2>1
  <2>3. QED  BY <1>1, <2>1, <2>2
<1> HIDE DEF col
<1>11. /\ r \in [0..n -> Int] /\ r[0] = 0
       /\ \A i \in 1..n : r[i] = r[i - 1] + executions[i].shortfall
  <2>1. \A i \in 1..n : r[i] = r[i - 1] + col[i]  BY <1>10, RunningIs
  <2>2. QED  BY <1>10, <2>1, RunningIs
<1> HIDE DEF r
<1> DEFINE U == {i \in 0..n : i \in T /\ g[i].num \in Nat /\ g[i].den \in Nat /\ r[i] \in Nat}
<1>12. 0 \in U
  <2>1. 0 \in 0..n /\ g[0].num = 0 /\ g[0].den = 1  BY <1>1, <1>9
  <2>2. least * 0 = 0 /\ 0 * 1 = 0 /\ most * 0 = 0  OBVIOUS
  <2>3. /\ least * g[0].num <= r[0] * g[0].den /\ r[0] * g[0].den <= most * g[0].num
        /\ g[0].num \in Nat /\ g[0].den \in Nat /\ r[0] \in Nat
    BY <1>11, <2>1, <2>2
  <2>4. QED  BY <2>1, <2>3
<1>13. ASSUME NEW i \in 0..n, i < n, i \in U PROVE i + 1 \in U
  <2> DEFINE a == g[i].num
             d == g[i].den
             t == r[i]
             u == Units(i + 1)
             x == executions[i + 1].shortfall
  <2> HIDE DEF U, n, Units
  <2>1. i + 1 \in 1..n /\ i + 1 \in 0..n /\ (i + 1) - 1 = i  BY <1>1, <1>13
  <2>2. /\ a \in Nat /\ d \in Nat /\ t \in Nat
        /\ least * a <= t * d /\ t * d <= most * a
    BY <1>13 DEF U
  <2>3. u \in Nat /\ x \in Nat /\ u >= least /\ u <= most  BY <1>2, <2>1
  <2>4. g[i + 1].num = a * u + x * d /\ g[i + 1].den = d * u
    <3> DEFINE p == a * u + x * d
               q == d * u
    <3>1. g[i + 1] = [num |-> p, den |-> q]  BY <1>9, <2>1
    <3> HIDE DEF p, q
    <3>2. g[i + 1].num = p /\ g[i + 1].den = q  BY <3>1
    <3>3. QED  BY <3>2 DEF p, q
  <2>5. r[i + 1] = t + x  BY <1>11, <2>1
  <2> HIDE DEF a, d, t, u, x
  <2>6. least \in Nat /\ least <= u  BY <2>3
  <2>7. least * (a * u + x * d) <= (t + x) * (d * u)  BY <2>2, <2>3, <2>6, FractionStep
  <2>8. (t + x) * (d * u) <= most * (a * u + x * d)  BY <2>2, <2>3, FractionStep
  <2>9. a * u + x * d \in Nat /\ d * u \in Nat /\ t + x \in Nat
    <3>1. a \in Nat /\ d \in Nat /\ t \in Nat /\ u \in Nat /\ x \in Nat  BY <2>2, <2>3
    <3>2. \A p, q \in Nat : p * q \in Nat /\ p + q \in Nat  OBVIOUS
    <3>3. a * u \in Nat /\ x * d \in Nat /\ d * u \in Nat  BY <3>1, <3>2, Zenon
    <3>4. QED  BY <3>1, <3>2, <3>3, Zenon
  <2>10. QED  BY <2>1, <2>4, <2>5, <2>7, <2>8, <2>9 DEF U
<1> HIDE DEF U
<1>14. n \in U
  <2>1. \A i \in 0..n : i \in U  BY <1>1, <1>12, <1>13, UpTo
  <2>2. QED  BY <1>1, <2>1
<1>15. Total(col) = r[n]  BY <1>10 DEF Total, r
<1>16. n \in T  BY <1>14 DEF U
<1>17. QED  BY <1>8, <1>15, <1>16 DEF col

\* The report sums the gaps and costs of what was recorded.
LEMMA ReportKeeps ==
  ASSUME SessionInv, Sim!Report
  PROVE  SessionInv'
<1> DEFINE n == Len(arrivals)
<1>1. /\ simPc = "report" /\ simPc' = "done" /\ summary' = Sim!Summary
      /\ UNCHANGED <<maxEvents, clock, limit, queue, book, arrivals, executions, totals,
                     generated>>
  BY DEF Sim!Report
<1>2. SessionTypes'  BY <1>1 DEF SessionInv, SessionTypes
<1>3. EventsPlaced'  BY <1>1 DEF SessionInv, EventsPlaced
<1>4. EventsOrdered'  BY <1>1 DEF SessionInv, EventsOrdered
<1>5. SessionPhases'  BY <1>1 DEF SessionInv, SessionPhases
<1>6. BookKept' /\ CostsKept'  BY <1>1, BookStays, CostsStay DEF SessionInv
<1>7. ASSUME n > 1
      PROVE  /\ Sim!Summary.span = arrivals[n].ready - arrivals[1].ready
             /\ Sim!Min({Sim!Quantity, Sim!SeedQuantity}) * Sim!Summary.slippage.num
                  <= totals.shortfall * Sim!Summary.slippage.den
             /\ totals.shortfall * Sim!Summary.slippage.den
                  <= Sim!Quantity * Sim!Summary.slippage.num
             /\ Sim!Summary.cost = totals.shortfall + totals.temporary + totals.permanent
  <2> DEFINE gap == [i \in 1..(n - 1) |-> arrivals[i + 1].ready - arrivals[i].ready]
             gaps == [i \in 1..(n - 1) |-> Sim!Max({0, gap[i]})]
             times == [i \in 1..n |-> arrivals[i].ready]
  <2>1. n \in Nat /\ arrivals \in Seq(SessionEvent)  BY DEF SessionInv, SessionTypes
  <2>2. \A i \in 1..n : arrivals[i].ready \in Nat
    <3>1. ASSUME NEW i \in 1..n PROVE arrivals[i].ready \in Nat
      <4>1. arrivals[i] \in SessionEvent  BY <2>1
      <4>2. QED  BY <4>1 DEF SessionEvent
    <3>2. QED  BY <3>1
  <2>3. \A i, j \in 1..n : i <= j => arrivals[i].ready <= arrivals[j].ready
    BY DEF SessionInv, EventsOrdered
  <2> HIDE DEF n
  <2>4. ASSUME NEW i \in 1..(n - 1)
        PROVE  gaps[i] = times[i + 1] - times[i] /\ gaps[i] \in Int
    <3> DEFINE x == arrivals[i].ready
               y == arrivals[i + 1].ready
    <3>1. i \in 1..n /\ i + 1 \in 1..n /\ i <= i + 1  BY <2>1
    <3>2. x \in Nat /\ y \in Nat /\ x <= y  BY <2>2, <2>3, <3>1
    <3>3. times[i] = x /\ times[i + 1] = y /\ gap[i] = y - x  BY <3>1
    <3>4. gaps[i] = Max({0, gap[i]})  BY InSim
    <3> HIDE DEF x, y, gap, gaps, times
    <3>5. Max({0, y - x}) = y - x
      <4>1. y - x \in Int /\ y - x >= 0  BY <3>2
      <4>2. Max({0, y - x}) = IF 0 >= y - x THEN 0 ELSE y - x  BY <4>1, TheLarger
      <4>3. QED  BY <4>1, <4>2
    <3>6. QED  BY <3>2, <3>3, <3>4, <3>5
  <2>5. /\ times \in Seq(Int) /\ Len(times) = n
    <3>1. times \in [1..n -> Int]  BY <2>2
    <3> HIDE DEF times
    <3>2. QED  BY <2>1, <3>1
  <2>6. gaps \in Seq(Int) /\ Len(gaps) = n - 1
    <3>1. gaps = [i \in 1..(n - 1) |-> gaps[i]]  OBVIOUS
    <3> HIDE DEF gaps
    <3>2. gaps \in [1..(n - 1) -> Int]  BY <2>4, <3>1
    <3>3. n - 1 \in Nat  BY <1>7, <2>1
    <3>4. QED  BY <3>2, <3>3
  <2>7. Sim!Summary.span = Sim!Total(gaps)
        /\ Sim!Summary.slippage = Sim!Slippage
        /\ Sim!Summary.cost = Sim!Total(Sim!Column("cost"))
    BY <1>7, <2>1 DEF Sim!Summary, n
  <2>8. 1 \in 1..n /\ n \in 1..n  BY <1>7, <2>1
  <2>9. times[n] = arrivals[n].ready /\ times[1] = arrivals[1].ready  BY <2>8
  <2> HIDE DEF gaps, times
  <2>10. Total(gaps) = times[n] - times[1]
    <3>1. times # <<>>
      <4>1. Len(times) > 0  BY <1>7, <2>5, <2>1
      <4>2. QED  BY <4>1
    <3>2. \A i \in 1..Len(gaps) : gaps[i] = times[i + 1] - times[i]  BY <2>4, <2>6
    <3>3. Len(gaps) = Len(times) - 1  BY <2>5, <2>6
    <3>4. Total(gaps) = times[Len(times)] - times[1]  BY <2>5, <2>6, <3>1, <3>2, <3>3, GapsSpan
    <3>5. QED  BY <2>5, <3>4
  <2>11. /\ totals.shortfall = Total(Sim!Column("shortfall"))
         /\ totals.cost = Total(Sim!Column("cost"))
         /\ totals.cost = totals.shortfall + totals.temporary + totals.permanent
    BY DEF SessionInv, CostsKept
  <2>12. /\ Sim!Min({Sim!Quantity, Sim!SeedQuantity}) * Sim!Slippage.num
              <= totals.shortfall * Sim!Slippage.den
         /\ totals.shortfall * Sim!Slippage.den <= Sim!Quantity * Sim!Slippage.num
    <3> DEFINE least == Sim!Min({Sim!Quantity, Sim!SeedQuantity})
               most  == Sim!Quantity
    <3>1. /\ least = IF most <= Seed THEN most ELSE Seed
          /\ most \in Nat /\ least \in Nat \ {0}
      BY SmallestFill
    <3>2. executions \in Seq(SessionExecution)  BY DEF SessionInv, SessionTypes
    <3>3. \A i \in 1..Len(executions) :
            executions[i].filled >= least /\ executions[i].filled <= most
      BY <3>1 DEF SessionInv, CostsKept
    <3> HIDE DEF least, most
    <3>4. /\ least * Sim!Slippage.num <= Total(Sim!Column("shortfall")) * Sim!Slippage.den
          /\ Total(Sim!Column("shortfall")) * Sim!Slippage.den <= most * Sim!Slippage.num
      BY <3>1, <3>2, <3>3, SlippageBounds
    <3>5. QED  BY <2>11, <3>4 DEF least, most
  <2>13. QED  BY <2>7, <2>9, <2>10, <2>11, <2>12, InSim
<1>8. Sim!SummaryAgrees'  BY <1>1, <1>7 DEF Sim!SummaryAgrees
<1>9. QED  BY <1>2, <1>3, <1>4, <1>5, <1>6, <1>8 DEF SessionInv

\* Every step of a session.
LEMMA SessionSteps ==
  ASSUME SessionInv, [Sim!Next]_simVars
  PROVE  SessionInv'
<1>1. CASE UNCHANGED simVars
  <2>1. SessionTypes'  BY <1>1 DEF simVars, SessionInv, SessionTypes
  <2>2. EventsPlaced'  BY <1>1 DEF simVars, SessionInv, EventsPlaced
  <2>3. EventsOrdered'  BY <1>1 DEF simVars, SessionInv, EventsOrdered
  <2>4. SessionPhases'  BY <1>1 DEF simVars, SessionInv, SessionPhases
  <2>5. BookKept' /\ CostsKept'  BY <1>1, BookStays, CostsStay DEF simVars, SessionInv
  <2>6. Sim!SummaryAgrees'  BY <1>1 DEF simVars, SessionInv, Sim!SummaryAgrees
  <2>7. QED  BY <2>1, <2>2, <2>3, <2>4, <2>5, <2>6 DEF SessionInv
<1>2. CASE \E w \in Waits, s \in Sim!Side, d \in Delays : Sim!Sample(w, s, d)
  BY <1>2, SampleKeeps
<1>3. CASE Sim!SessionOver  BY <1>3, OverKeeps
<1>4. CASE \E e \in queue : Sim!Skip(e)  BY <1>4, SkipKeeps
<1>5. CASE \E e \in queue : Sim!Trade(e)  BY <1>5, SessionTradeKeeps
<1>6. CASE Sim!FlushDone  BY <1>6, FlushDoneKeeps
<1>7. CASE Sim!Report  BY <1>7, ReportKeeps
<1>8. QED  BY <1>1, <1>2, <1>3, <1>4, <1>5, <1>6, <1>7 DEF Sim!Next

\* The members of a sequence that repeats nothing are as many as it is long.
LEMMA DistinctMembers ==
  ASSUME NEW S, NEW q \in Seq(S), \A i, j \in 1..Len(q) : q[i] = q[j] => i = j
  PROVE  Cardinality({q[i] : i \in DOMAIN q}) = Len(q)
<1> DEFINE n == Len(q)
           T == {q[i] : i \in 1..n}
<1>1. n \in Nat /\ DOMAIN q = 1..n  OBVIOUS
<1>2. IsFiniteSet(1..n) /\ Cardinality(1..n) = n  BY <1>1, FS_Interval
<1>3. q \in [1..n -> T]  BY <1>1
<1>4. q \in Surjection(1..n, T)  BY <1>3 DEF Surjection
<1>5. q \in Injection(1..n, T)
  <2>1. \A i, j \in 1..n : q[i] = q[j] => i = j  OBVIOUS
  <2> HIDE DEF n, T
  <2>2. QED  BY <1>3, <2>1 DEF Injection, IsInjective
<1>6. Cardinality(T) = Cardinality(1..n)  BY <1>2, <1>4, <1>5, FS_Surjection
<1>7. QED  BY <1>1, <1>2, <1>6

\* The invariant makes a session report what happened in it.
LEMMA SessionSound ==
  ASSUME SessionInv
  PROVE  SessionIsAccounted
<1> DEFINE n == Len(arrivals)
<1>1. /\ n \in Nat /\ arrivals \in Seq(SessionEvent) /\ DOMAIN arrivals = 1..n
      /\ maxEvents \in Nat /\ queue \subseteq generated
      /\ executions \in Seq(SessionExecution) /\ DOMAIN executions = 1..Len(executions)
  BY DEF SessionInv, SessionTypes
<1>2. Sim!ReadyInTimeIsRecorded
  <2> DEFINE seen == {arrivals[i] : i \in DOMAIN arrivals}
             inTime == {e \in generated : e.ready <= Session}
  <2>1. SUFFICES ASSUME simPc = "done"
        PROVE  /\ Cardinality(seen) = n
               /\ \A i \in 1..(n - 1) : arrivals[i].ready <= arrivals[i + 1].ready
               /\ seen \subseteq inTime
               /\ maxEvents > 0 => n <= maxEvents
               /\ \/ seen = inTime
                  \/ /\ n = maxEvents
                     /\ \A e \in inTime \ seen, a \in seen : a.ready <= e.ready
    BY InSim DEF Sim!ReadyInTimeIsRecorded
  <2>2. /\ \A i, j \in 1..n : arrivals[i] = arrivals[j] => i = j
        /\ \A i \in 1..n : arrivals[i] \in generated \ queue /\ arrivals[i].ready <= Session
        /\ \A e \in generated \ queue : e.ready > Session \/ \E i \in 1..n : arrivals[i] = e
        /\ \A i, j \in 1..n : i <= j => arrivals[i].ready <= arrivals[j].ready
        /\ \A i \in 1..n : \A e \in queue : arrivals[i].ready <= e.ready
        /\ maxEvents > 0 => n <= maxEvents
        /\ \/ \A e \in queue : e.ready > Session
           \/ maxEvents > 0 /\ n = maxEvents
    BY <2>1 DEF SessionInv, EventsPlaced, EventsOrdered, SessionPhases
  <2>3. Cardinality(seen) = n  BY <1>1, <2>2, DistinctMembers
  <2>4. \A i \in 1..(n - 1) : arrivals[i].ready <= arrivals[i + 1].ready
    <3>1. \A i \in 1..(n - 1) : i \in 1..n /\ i + 1 \in 1..n /\ i <= i + 1  BY <1>1
    <3>2. QED  BY <2>2, <3>1
  <2>5. seen \subseteq inTime  BY <1>1, <2>2
  <2>6. \A e \in generated : e.ready \in Nat
    BY DEF SessionInv, SessionTypes, SessionEvent
  <2>7. \A e \in inTime \ seen : e \in queue
    <3>1. ASSUME NEW e \in inTime, e \notin queue PROVE e \in seen
      <4>1. e \in generated \ queue /\ e.ready <= Session /\ e.ready \in Nat  BY <2>6, <3>1
      <4>2. ~(e.ready > Session)  BY <4>1, SessionAssumption
      <4>3. PICK i \in 1..n : arrivals[i] = e  BY <2>2, <4>1, <4>2
      <4>4. QED  BY <1>1, <4>3
    <3>2. QED  BY <3>1
  <2>8. CASE \A e \in queue : e.ready > Session
    <3>1. inTime \subseteq seen
      <4>1. ASSUME NEW e \in inTime, e \notin seen PROVE FALSE
        <5>1. e.ready > Session /\ e.ready <= Session /\ e.ready \in Nat  BY <2>6, <2>7, <2>8, <4>1
        <5>2. QED  BY <5>1, SessionAssumption
      <4>2. QED  BY <4>1
    <3>2. seen = inTime  BY <2>5, <3>1
    <3>3. QED  BY <2>2, <2>3, <2>4, <2>5, <3>2
  <2>9. CASE maxEvents > 0 /\ n = maxEvents
    <3>1. \A e \in inTime \ seen, a \in seen : a.ready <= e.ready
      <4>1. ASSUME NEW e \in inTime \ seen, NEW a \in seen PROVE a.ready <= e.ready
        <5>1. e \in queue  BY <2>7, <4>1
        <5>2. PICK i \in 1..n : a = arrivals[i]  BY <1>1, <4>1
        <5>3. QED  BY <2>2, <5>1, <5>2
      <4>2. QED  BY <4>1
    <3>2. QED  BY <2>2, <2>3, <2>4, <2>5, <2>9, <3>1
  <2>10. QED  BY <2>2, <2>8, <2>9
<1>3. Sim!NeverBetterThanReference
  <2>1. ASSUME NEW i \in DOMAIN executions PROVE executions[i].shortfall >= 0
    <3>1. executions[i] \in SessionExecution  BY <1>1, <2>1
    <3>2. executions[i].shortfall \in Nat  BY <3>1 DEF SessionExecution
    <3>3. QED  BY <3>2
  <2>2. QED  BY <2>1 DEF Sim!NeverBetterThanReference
<1>4. Sim!LiquidityKept
  <2>1. \A s \in Sim!Side : Sim!Total(book[s]) >= Sim!SeedQuantity
    <3>1. Sim!SeedQuantity = Seed  BY DEF Sim!SeedQuantity, Seed
    <3>2. QED  BY <3>1, InSim DEF SessionInv, BookKept
  <2>2. ASSUME NEW i \in DOMAIN executions
        PROVE  executions[i].filled \in
                 Sim!Min({Sim!Quantity, Sim!SeedQuantity})..Sim!Quantity
    <3> DEFINE least == Sim!Min({Sim!Quantity, Sim!SeedQuantity})
               most  == Sim!Quantity
    <3>1. /\ least = IF most <= Seed THEN most ELSE Seed
          /\ most \in Nat /\ least \in Nat
      BY SmallestFill
    <3>2. executions[i].filled >= least /\ executions[i].filled <= most
      BY <1>1, <3>1 DEF SessionInv, CostsKept
    <3>3. executions[i].filled \in Nat
      <4>1. executions[i] \in SessionExecution  BY <1>1
      <4>2. QED  BY <4>1 DEF SessionExecution
    <3> HIDE DEF least, most
    <3>4. QED  BY <3>1, <3>2, <3>3 DEF least, most
  <2>3. QED  BY <2>1, <2>2 DEF Sim!LiquidityKept
<1>5. Sim!SummaryAgrees  BY DEF SessionInv
<1>6. QED  BY <1>2, <1>3, <1>4, <1>5 DEF SessionIsAccounted, Sim!SessionIsAccounted
-----------------------------------------------------------------------------
(* The parts side by side                                                    *)

\* What one part does is a step of it and leaves the variables of the others
\* alone.
LEMMA PartsStep ==
  ASSUME [Next]_vars
  PROVE  /\ [Adaptive!Next]_adaptiveVars /\ [Bridge!Next]_bridgeVars
         /\ [Calibration!Next]_calibrationVars /\ [Regime!Next]_regimeVars
         /\ [Sim!Next]_simVars
BY DEF Next, vars

(* The controls of the adaptive engine are justified by the latest executions,
   for every window, scale and range of the controls: its sums are kept
   incrementally and never drift from those of the window
   (adaptive_engine.cpp:71-136).                                             *)
THEOREM ControlsJustified == Spec => []ControlsAreJustified
<1>1. Init => AdaptiveInv  BY AdaptiveStarts DEF Init
<1>2. AdaptiveInv /\ [Next]_vars => AdaptiveInv'  BY AdaptiveSteps, PartsStep
<1>3. AdaptiveInv => ControlsAreJustified  BY AdaptiveSound
<1>4. QED  BY <1>1, <1>2, <1>3, PTL DEF Spec

(* Calls of the Hawkes library free what they allocate, keep their callback
   registered while native code may call it, all use the library or all the
   fallback, and raise what the library refuses, for any number of threads
   (simulate.py, hawkes_c_api.cpp).                                          *)
THEOREM CallsSound == Spec => []CallsAreSound
<1>1. Init => BridgeInv  BY BridgeStarts DEF Init
<1>2. BridgeInv /\ [Next]_vars => BridgeInv'  BY BridgeSteps, PartsStep
<1>3. BridgeInv => CallsAreSound  BY BridgeSound
<1>4. QED  BY <1>1, <1>2, <1>3, PTL DEF Spec

(* The market of the grid search reports of every strategy what it traded, for
   any strategies, caps, prices and number of steps: no order is cut by the risk
   cap, profit and returns are those of the executions, and the drawdown is the
   largest fall of the equity (run_week7_strategy_calibration.py:85-240).    *)
THEOREM ReportHolds == Spec => []ReportIsTheTrades
<1>1. Init => CalibrationInv  BY CalibrationStarts DEF Init
<1>2. CalibrationInv /\ [Next]_vars => CalibrationInv'  BY CalibrationMoves, PartsStep
<1>3. CalibrationInv => ReportIsTheTrades  BY CalibrationSound
<1>4. QED  BY <1>1, <1>2, <1>3, PTL DEF Spec

(* The adaptive strategy changes its regime only after a signal that persisted,
   trades within the cap of the regime, and its statistics are those of its
   steps, for any regimes, sizes, caps and windows
   (run_week7_adaptive_simulation.py:56-262).                                *)
THEOREM RegimeFollowed == Spec => []StepsFollowRegime
<1>1. Init => RegimeInv  BY RegimeStarts DEF Init
<1>2. RegimeInv /\ [Next]_vars => RegimeInv'  BY RegimeSteps, PartsStep
<1>3. RegimeInv => StepsFollowRegime  BY RegimeSound
<1>4. QED  BY <1>1, <1>2, <1>3, PTL DEF Spec

(* A session reports what happened in it, for any waits, delays, limits, sizes
   and depth of the seeded book: every event ready in time is recorded, in the
   order of readiness, unless the run stopped at its limit; no trade is better
   than its reference price, because the book is never crossed and never runs
   dry; and the sums behind the means are those of what was recorded
   (simulator_core.cpp:90-317).                                              *)
THEOREM SessionHolds == Spec => []SessionIsAccounted
<1>1. Init => SessionInv  BY SessionStarts DEF Init
<1>2. SessionInv /\ [Next]_vars => SessionInv'  BY SessionSteps, PartsStep
<1>3. SessionInv => SessionIsAccounted  BY SessionSound
<1>4. QED  BY <1>1, <1>2, <1>3, PTL DEF Spec

=============================================================================
