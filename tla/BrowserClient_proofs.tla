------------------------- MODULE BrowserClient_proofs -------------------------
(***************************************************************************)
(* Theorems about EventStream, for a log of any length, any ids, any       *)
(* refusals and any number of reconnections; and about the browser client: *)
(* the stream of a client is the one of EventStream, whatever else the     *)
(* client does; every interceptor has its one slot, which a call visits    *)
(* once; and callers are told what they were promised.                     *)
(***************************************************************************)
EXTENDS BrowserClient, FiniteSetTheorems, WellFoundedInduction, TLAPS

-----------------------------------------------------------------------------
(* The event stream.                                                       *)

InLoop  == {"chunks", "validate", "yielded"}
InHand  == {"validate", "yielded"}
Reading == InLoop \union {"read"}

\* Where the last id stands relative to the connection.
Order ==
    /\ lastEventId \in named \union {0}
    /\ pc \in {"read", "chunks"} => lastEventId <= position
    /\ pc \in InHand => chunks > 0 /\ lastEventId <= Current
    /\ position + chunks <= LogLength

\* Ids count as soon as their event has been parsed ...
IdsCounted ==
    /\ pc \in Reading => \A e \in named : e <= position => e <= lastEventId
    /\ pc \in InHand /\ Current \in named => lastEventId = Current

\* ... and never again stand before an event the consumer got.
IdsReached == \A d \in yielded, e \in named : e <= d => e <= lastEventId

\* An event with an id that is about to be yielded is later than all before.
Fresh == pc = "validate" /\ Current \in named => \A d \in yielded : d < Current

\* What the connection has passed was yielded or refused.
Handled ==
    /\ pc \in Reading =>
          \A e \in 1 .. position :
              e \in yielded \/ e \in refused \intersect named
    /\ pc = "yielded" => Current \in yielded

\* An abort leaves the consumer at most what the last read holds.
Spared ==
    /\ ~aborted => afterAbort = 0
    /\ afterAbort + (IF pc = "yielded" THEN chunks - 1 ELSE chunks) <= BatchSize

\* The inductive invariant.
StreamInv ==
    /\ TypeOK
    /\ Order /\ IdsCounted /\ IdsReached /\ Fresh /\ Handled /\ Spared
    /\ NamedAtMostOnce /\ SkippedOnlyRefused

-----------------------------------------------------------------------------

\* The bounds are numbers.
LEMMA StreamBounds ==
    /\ LogLength \in Nat /\ BatchSize \in Nat /\ MaxAttempt \in Nat
    /\ MaxOpen \in Nat
    /\ \A n \in RetryLimits : n \in Nat
  BY StreamAssumption

\* A saturated counter stays within its bound.
LEMMA UpToBound ==
    ASSUME NEW bound \in Nat, NEW n \in Nat
    PROVE  UpTo(bound, n) \in 0 .. bound /\ UpTo(bound, n) <= n
  BY DEF UpTo

\* Nothing has been read or yielded at first.
LEMMA StreamInvInit == Init => StreamInv
<1> SUFFICES ASSUME Init PROVE StreamInv
  OBVIOUS
<1>1. TypeOK
  <2>1. /\ pc \in Places /\ limit \in RetryLimits /\ aborted \in BOOLEAN
        /\ named \subseteq Events /\ refused \subseteq Events
        /\ yielded \subseteq Events /\ repeated \subseteq yielded
    BY DEF Init, Places
  <2>2. /\ lastEventId \in 0 .. LogLength /\ position \in 0 .. LogLength
        /\ attempt \in 0 .. MaxAttempt /\ chunks \in 0 .. BatchSize
        /\ forgotten \in 0 .. MaxOpen /\ afterAbort \in 0 .. LogLength
        /\ chunks = 0
    BY StreamBounds DEF Init
  <2> QED
    BY <2>1, <2>2 DEF TypeOK
<1>2. Order /\ IdsCounted /\ IdsReached /\ Fresh /\ Handled /\ Spared
  BY StreamBounds DEF Init, Order, IdsCounted, IdsReached, Fresh, Handled,
     Spared, Reading, InLoop, InHand
<1>3. NamedAtMostOnce /\ SkippedOnlyRefused
  BY DEF Init, NamedAtMostOnce, SkippedOnlyRefused
<1> QED
  BY <1>1, <1>2, <1>3 DEF StreamInv

\* Every step preserves it.
LEMMA StreamInvPreserved == StreamInv /\ [Next]_vars => StreamInv'
<1> SUFFICES ASSUME StreamInv, [Next]_vars PROVE StreamInv'
  OBVIOUS
<1> USE StreamBounds DEF StreamInv, TypeOK, Order, IdsCounted, IdsReached,
    Fresh, Handled, Spared, NamedAtMostOnce, SkippedOnlyRefused, Reading,
    InLoop, InHand, Current, optionVars, historyVars, Events, Places
<1>1. CASE UNCHANGED vars
  BY <1>1 DEF vars
<1>2. CASE Internal
  <2>1. CASE Top
    <3>1. attempt' \in 0 .. MaxAttempt
      <4>1. attempt' \in {attempt, UpTo(MaxAttempt, attempt + 1)}
        BY <2>1 DEF Top, StopAborted, Attempt
      <4>2. attempt + 1 \in Nat
        OBVIOUS
      <4> QED
        BY <4>1, <4>2, UpToBound
    <3> QED
      BY <2>1, <3>1 DEF Top, StopAborted, Attempt
  <2>2. CASE GiveUp \/ BackOff \/ Wake
    BY <2>2 DEF GiveUp, BackOff, Wake
  <2>3. CASE ReadOn
    BY <2>3 DEF ReadOn
  <2>4. CASE ParseChunk
    BY <2>4 DEF ParseChunk
  <2>5. CASE Refuse
    <3>1. forgotten' \in 0 .. MaxOpen
      BY <2>5, UpToBound DEF Refuse, Forget
    <3> QED
      BY <2>5, <3>1 DEF Refuse
  <2>6. CASE Yield
    <3>1. /\ afterAbort' \in 0 .. LogLength
          /\ afterAbort' <= afterAbort + 1
          /\ ~aborted => afterAbort' = 0
      <4>1. /\ afterAbort \in 0 .. LogLength /\ LogLength \in Nat
            /\ ~aborted => afterAbort = 0
        OBVIOUS
      <4>2. afterAbort' = IF aborted THEN UpTo(LogLength, afterAbort + 1)
                          ELSE afterAbort
        BY <2>6 DEF Yield
      <4> HIDE DEF StreamInv
      <4>3. afterAbort + 1 \in Nat
        BY <4>1
      <4> QED
        BY <4>1, <4>2, <4>3, UpToBound
    <3>2. repeated' \subseteq yielded' /\ yielded' \subseteq Events
      BY <2>6 DEF Yield
    <3>3. repeated' \intersect named' = {}
      BY <2>6 DEF Yield
    <3>4. IdsReached'
      BY <2>6 DEF Yield
    <3>5. Handled' /\ SkippedOnlyRefused'
      BY <2>6 DEF Yield
    <3> QED
      BY <2>6, <3>1, <3>2, <3>3, <3>4, <3>5 DEF Yield
  <2> QED
    BY <1>2, <2>1, <2>2, <2>3, <2>4, <2>5, <2>6 DEF Internal
<1>3. CASE Consumer
  <2>1. CASE Start
    BY <2>1 DEF Start
  <2>2. CASE Resume
    BY <2>2 DEF Resume
  <2>3. CASE StopIterating
    <3>1. forgotten' \in 0 .. MaxOpen
      BY <2>3, UpToBound DEF StopIterating, Forget
    <3> QED
      BY <2>3, <3>1 DEF StopIterating
  <2> QED
    BY <1>3, <2>1, <2>2, <2>3 DEF Consumer
<1>4. CASE Network
  <2>1. CASE Connect
    BY <2>1 DEF Connect
  <2>2. CASE FetchFails \/ ReadDone \/ ReadFails
    BY <2>2 DEF FetchFails, ReadDone, ReadFails
  <2>3. ASSUME NEW n \in 1 .. BatchSize, ReadEvents(n) PROVE StreamInv'
    BY <2>3 DEF ReadEvents
  <2> QED
    BY <1>4, <2>1, <2>2, <2>3 DEF Network
<1>5. CASE Abort
  BY <1>5 DEF Abort
<1>6. CASE ForgottenCloses
  BY <1>6 DEF ForgottenCloses
<1> QED
  BY <1>1, <1>2, <1>3, <1>4, <1>5, <1>6 DEF Next

\* So it holds throughout.
LEMMA StreamInvariant == Spec => []StreamInv
  BY StreamInvInit, StreamInvPreserved, PTL DEF Spec

-----------------------------------------------------------------------------

\* The client's variables stay in their types.
THEOREM StreamTypeCorrect == Spec => []TypeOK
<1>1. StreamInv => TypeOK
  BY DEF StreamInv
<1> QED
  BY <1>1, StreamInvariant, PTL

\* Events with ids reach the consumer at most once and in order, over any
\* number of reconnections.
THEOREM DeliveredOnce == Spec => []NamedAtMostOnce
<1>1. StreamInv => NamedAtMostOnce
  BY DEF StreamInv
<1> QED
  BY <1>1, StreamInvariant, PTL

\* Resuming skips nothing that was not refused.
THEOREM NothingElseSkipped == Spec => []SkippedOnlyRefused
<1>1. StreamInv => SkippedOnlyRefused
  BY DEF StreamInv
<1> QED
  BY <1>1, StreamInvariant, PTL

\* After an abort at most the rest of one read is yielded.
THEOREM AbortHeeded == Spec => []AbortStopsReading
<1>1. StreamInv => AbortStopsReading
  BY StreamBounds
  DEF StreamInv, TypeOK, Order, Spared, AbortStopsReading, InHand
<1> QED
  BY <1>1, StreamInvariant, PTL
-----------------------------------------------------------------------------

\* The refused events that a connection was left open for, at most.
Spent == {e \in refused : e <= lastEventId /\ ~(pc = "validate" /\ e = Current)}

Stopped == IF pc = "over" THEN 1 ELSE 0

\* Each of them has one forgotten connection, and a stopped iteration another.
ForgottenInv ==
    refused \subseteq named => forgotten <= Cardinality(Spent) + Stopped

\* The events are finitely many, and so are those spent.
LEMMA SpentFinite ==
    TypeOK => /\ IsFiniteSet(refused) /\ IsFiniteSet(Spent)
              /\ Cardinality(Spent) \in Nat /\ Cardinality(refused) \in Nat
              /\ Cardinality(Spent) <= Cardinality(refused)
<1> SUFFICES ASSUME TypeOK
             PROVE  /\ IsFiniteSet(refused) /\ IsFiniteSet(Spent)
                    /\ Cardinality(Spent) \in Nat
                    /\ Cardinality(refused) \in Nat
                    /\ Cardinality(Spent) <= Cardinality(refused)
  OBVIOUS
<1>1. IsFiniteSet(Events)
  BY StreamBounds, FS_Interval DEF Events
<1>2. IsFiniteSet(refused) /\ Spent \subseteq refused
  BY <1>1, FS_Subset DEF TypeOK, Spent
<1> QED
  BY <1>2, FS_Subset, FS_CardinalityType

\* As long as no connection is forgotten, the bound need only not shrink.
LEMMA SpentGrows ==
    ASSUME StreamInv, StreamInv', ForgottenInv, UNCHANGED <<named, refused>>,
           forgotten' <= forgotten, Spent \subseteq Spent', pc # "over"
    PROVE  ForgottenInv'
<1>1. TypeOK /\ TypeOK'
  BY DEF StreamInv
<1>2. /\ IsFiniteSet(Spent')
      /\ Cardinality(Spent) \in Nat /\ Cardinality(Spent') \in Nat
  <2>1. (TypeOK => IsFiniteSet(Spent) /\ Cardinality(Spent) \in Nat)'
    BY SpentFinite, PTL
  <2> QED
    BY <1>1, <2>1, SpentFinite
<1>4. Cardinality(Spent) <= Cardinality(Spent')
  BY <1>2, FS_Subset
<1>3. forgotten \in Nat /\ forgotten' \in Nat
  BY StreamBounds DEF StreamInv, TypeOK
<1> QED
  BY <1>2, <1>3, <1>4 DEF ForgottenInv, Stopped

\* Forgetting adds at most one.
LEMMA ForgetOne ==
    ASSUME TypeOK, Forget PROVE forgotten' <= forgotten + 1
<1>1. forgotten \in Nat /\ forgotten + 1 \in Nat /\ MaxOpen \in Nat
  BY StreamBounds DEF TypeOK
<1>2. forgotten' \in {forgotten, UpTo(MaxOpen, forgotten + 1)}
  BY DEF Forget
<1> QED
  BY <1>1, <1>2, UpToBound

\* Every refusal spends an event that was not spent before.
LEMMA ForgottenInvPreserved ==
    StreamInv /\ StreamInv' /\ ForgottenInv /\ [Next]_vars => ForgottenInv'
<1> SUFFICES ASSUME StreamInv, StreamInv', ForgottenInv, [Next]_vars
             PROVE  ForgottenInv'
  OBVIOUS
<1>0. /\ lastEventId \in Nat /\ position \in Nat /\ forgotten \in Nat
      /\ refused \subseteq Nat /\ TypeOK
      /\ Cardinality(Spent) \in Nat
  BY StreamBounds, SpentFinite DEF StreamInv, TypeOK, Events
<1>1. CASE UNCHANGED vars
  <2>1. Spent' = Spent /\ Stopped' = Stopped
    BY <1>1 DEF vars, Spent, Stopped, Current
  <2> QED
    BY <1>1, <2>1 DEF vars, ForgottenInv
<1>2. CASE Refuse
  <2>1. /\ UNCHANGED <<named, refused, lastEventId, position>>
        /\ pc = "validate" /\ pc' = "caught" /\ Current \in refused
    BY <1>2 DEF Refuse, optionVars
  <2>2. forgotten' <= forgotten + 1 /\ forgotten' \in Nat
    BY <1>0, <1>2, ForgetOne, StreamBounds DEF Refuse, StreamInv, TypeOK
  <2>3. ASSUME refused \subseteq named
        PROVE  Spent' = Spent \union {Current} /\ Current \notin Spent
    <3>1. lastEventId = Current
      BY <2>1, <2>3 DEF StreamInv, IdsCounted, InHand
    <3> QED
      BY <1>0, <2>1, <3>1 DEF Spent, Current
  <2>4. refused \subseteq named => Cardinality(Spent') = Cardinality(Spent) + 1
    BY <1>0, <2>3, SpentFinite, FS_AddElement
  <2> QED
    BY <1>0, <2>1, <2>2, <2>4 DEF ForgottenInv, Stopped
<1>3. CASE StopIterating
  <2>1. /\ UNCHANGED <<named, refused, lastEventId, position>>
        /\ pc = "yielded" /\ pc' = "over"
    BY <1>3 DEF StopIterating, optionVars
  <2>2. forgotten' <= forgotten + 1 /\ forgotten' \in Nat
    BY <1>0, <1>3, ForgetOne, StreamBounds DEF StopIterating, StreamInv, TypeOK
  <2>3. Spent' = Spent
    BY <2>1 DEF Spent, Current
  <2> QED
    BY <1>0, <2>1, <2>2, <2>3 DEF ForgottenInv, Stopped
<1>4. CASE ForgottenCloses
  <2>1. Spent' = Spent /\ Stopped' = Stopped
    BY <1>4 DEF ForgottenCloses, optionVars, Spent, Stopped, Current
  <2>2. forgotten' <= forgotten /\ forgotten' \in Nat
    BY <1>0, <1>4 DEF ForgottenCloses
  <2>3. UNCHANGED <<named, refused>>
    BY <1>4 DEF ForgottenCloses, optionVars
  <2> QED
    BY <1>0, <2>1, <2>2, <2>3 DEF ForgottenInv, Stopped
<1>5. CASE Top \/ GiveUp \/ BackOff \/ Wake \/ ReadOn \/ ParseChunk \/ Yield
           \/ Start \/ Resume
           \/ FetchFails \/ (\E n \in 1 .. BatchSize : ReadEvents(n))
           \/ ReadDone \/ ReadFails
  <2>1. UNCHANGED <<named, refused, forgotten>> /\ pc # "over"
    BY <1>5 DEF Top, StopAborted, Attempt, GiveUp, BackOff, Wake, ReadOn,
       ParseChunk, Yield, Start, Resume, FetchFails, ReadEvents, ReadDone,
       ReadFails, optionVars
  <2>2. Spent \subseteq Spent'
    <3>1. CASE ParseChunk
      <4>1. /\ pc = "chunks" /\ pc' = "validate" /\ lastEventId <= position
            /\ position' = position /\ refused' = refused
            /\ lastEventId' = lastEventId \/ lastEventId' = Current
        BY <3>1 DEF ParseChunk, StreamInv, Order, optionVars
      <4>2. lastEventId <= lastEventId' /\ Current' = Current
        BY <1>0, <4>1 DEF Current
      <4>3. ASSUME NEW e \in Spent PROVE e \in Spent'
        <5>1. e \in refused' /\ e \in Nat /\ e <= lastEventId
          BY <1>0, <4>1 DEF Spent
        <5>2. e <= lastEventId' /\ e # Current'
          BY <1>0, <4>1, <4>2, <5>1 DEF Current
        <5> QED
          BY <5>1, <5>2 DEF Spent
      <4> QED
        BY <4>3
    <3>2. CASE ~ParseChunk
      <4>1. pc' # "validate" /\ lastEventId' = lastEventId
        BY <1>5, <3>2 DEF Top, StopAborted, Attempt, GiveUp, BackOff, Wake,
           ReadOn, Yield, Start, Resume, FetchFails, ReadEvents, ReadDone,
           ReadFails
      <4> QED
        BY <2>1, <4>1 DEF Spent
    <3> QED
      BY <3>1, <3>2
  <2> QED
    BY <1>0, <2>1, <2>2, SpentGrows
<1>6. CASE Connect
  <2>1. /\ UNCHANGED <<named, refused, forgotten, lastEventId>>
        /\ pc # "over" /\ pc' = "read"
    BY <1>6 DEF Connect, optionVars
  <2>2. Spent \subseteq Spent'
    BY <2>1 DEF Spent
  <2> QED
    BY <1>0, <2>1, <2>2, SpentGrows
<1>7. CASE Abort
  <2>1. /\ UNCHANGED <<named, refused, pc, lastEventId, position>>
        /\ pc # "over" /\ forgotten' = 0
    BY <1>7 DEF Abort, optionVars
  <2>2. Spent \subseteq Spent'
    BY <2>1 DEF Spent, Current
  <2> QED
    BY <1>0, <2>1, <2>2, SpentGrows
<1> QED
  BY <1>1, <1>2, <1>3, <1>4, <1>5, <1>6, <1>7
  DEF Next, Internal, Consumer, Network

\* Whatever is refused and however often the client reconnects, it leaves open
\* at most one connection for each refused event and one for its end.
THEOREM FewForgotten == Spec => []ForgottenBounded
<1>1. Init => ForgottenInv
  <2> SUFFICES ASSUME Init PROVE ForgottenInv
    OBVIOUS
  <2>1. Cardinality(Spent) \in Nat
    BY StreamInvInit, SpentFinite DEF StreamInv
  <2> QED
    BY <2>1 DEF Init, ForgottenInv, Stopped
<1>2. StreamInv /\ ForgottenInv => ForgottenBounded
  <2> SUFFICES ASSUME StreamInv, ForgottenInv, refused \subseteq named
               PROVE  forgotten <= Cardinality(refused) + Stopped
    BY DEF ForgottenBounded, Stopped
  <2>1. forgotten \in Nat
    BY StreamBounds DEF StreamInv, TypeOK
  <2> QED
    BY <2>1, SpentFinite DEF StreamInv, ForgottenInv, Stopped
<1> QED
  BY <1>1, <1>2, StreamInvariant, ForgottenInvPreserved, PTL DEF Spec

-----------------------------------------------------------------------------
(* The browser client.                                                     *)

Content == Fns \union {NoFn}
Slots(l, n) == 1 .. Len(fns[l][n])
Arrays(l) == 1 .. Len(fns[l])

-----------------------------------------------------------------------------
(* The lists.                                                              *)

RegistryTyped ==
    /\ app \in Apps
    /\ fns \in [Lists -> Seq(Seq(Content))]
    /\ \A l \in Lists : Len(fns[l]) >= 1
    /\ id \in [Installs -> Nat]
    /\ home \in [Installs -> Nat]
    /\ withdrawn \subseteq Fns

\* An interceptor sits in its list, in the array it was put into, as long as
\* nobody took it out.
Homed ==
    \A l \in Lists : \A n \in Arrays(l) : \A i \in Slots(l, n) :
        LET f == fns[l][n][i]
        IN f # NoFn => /\ ListOf(f) = l
                       /\ f \notin withdrawn
                       /\ IF f = Csrf THEN n = 1 ELSE home[f] = n

\* It has one slot.
Single ==
    \A l \in Lists : \A n \in Arrays(l) : \A i, j \in Slots(l, n) :
        fns[l][n][i] = fns[l][n][j] /\ fns[l][n][i] # NoFn => i = j

\* An id is a slot of the array its interceptor was put into, and is its own
\* until it is taken out.
Identified ==
    \A f \in Installs :
        /\ home[f] \in 0 .. Len(fns[ListOf(f)])
        /\ home[f] = 0 => id[f] = 0 /\ f \notin withdrawn
        /\ id[f] # 0 => /\ id[f] \in Slots(ListOf(f), home[f])
                        /\ f \in withdrawn
                             \/ fns[ListOf(f)][home[f]][id[f]] = f

\* The interceptor of createBrowserApiClient comes first and no id of its array
\* is its own.
CsrfFirst ==
    app.token =>
        /\ 1 \in Slots("request", 1)
        /\ fns["request"][1][1] = Csrf
        /\ \A f \in Installs :
              ListOf(f) = "request" /\ home[f] = 1 => id[f] # 1

RegistryInv == RegistryTyped /\ Homed /\ Single /\ Identified /\ CsrfFirst

-----------------------------------------------------------------------------
(* The walks.                                                              *)

\* The lists that a walker may have been through at a stage.
Behind(s) ==
    IF s \in {"idle", "before"} THEN {}
    ELSE IF s \in {"request", "fetch"} THEN {"request"}
    ELSE IF s \in {"response", "answered", "check"} THEN {"request", "response"}
    ELSE Lists

Stages == Lists \union {"idle", "before", "fetch", "answered", "check",
                        "failed", "settled"}

\* What is ahead of a walk has not run, and what is due and has not run is
\* ahead.
Ahead(w, l, n, k) ==
    /\ n \in Arrays(l)
    /\ k \in Slots(l, n)
    /\ \A i \in Slots(l, n) : i > k => fns[l][n][i] \notin Range(ran[w])
    /\ \A f \in due[w] :
          \/ f \in Range(ran[w])
          \/ \E i \in Slots(l, n) : i > k /\ fns[l][n][i] = f

Walking(w) ==
    /\ stage[w] \in Stages
    /\ ran[w] \in Seq(Fns)
    /\ walk[w] \in [array : Nat, at : Nat]
    /\ due[w] \subseteq Fns
    /\ IsInjective(ran[w])
    /\ w # Stream =>
          \A f \in Range(ran[w]) : ListOf(f) \in Behind(stage[w])
    /\ IF stage[w] \in Lists
       THEN Ahead(w, stage[w], walk[w].array, walk[w].at)
       ELSE due[w] \subseteq Range(ran[w])

WalkInv ==
    /\ stage \in [Walkers -> Stages]
    /\ ran \in [Walkers -> Seq(Fns)]
    /\ walk \in [Walkers -> [array : Nat, at : Nat]]
    /\ due \in [Walkers -> SUBSET Fns]
    /\ stage[Stream] \in {"idle", "request", "fetch"}
    /\ \A w \in Walkers : Walking(w)

-----------------------------------------------------------------------------
(* A stream is that of EventStream.                                        *)

\* Every step of the client is a step of its stream or leaves it alone.
LEMMA StreamStep == [BrowserNext]_browserVars => [Next]_vars
<1> SUFFICES ASSUME [BrowserNext]_browserVars PROVE [Next]_vars
  OBVIOUS
<1>1. CASE UNCHANGED browserVars
  BY <1>1 DEF browserVars
<1>2. CASE StartStream
  BY <1>2 DEF StartStream, Next, Consumer
<1>3. CASE StreamAttempt
  BY <1>3 DEF StreamAttempt, Next, Internal, Top
<1>4. CASE StreamRequestReturned
  BY <1>4 DEF StreamRequestReturned
<1>5. CASE StreamConnect \/ StreamFetchFails
  BY <1>5 DEF StreamConnect, StreamFetchFails, Next, Network
<1>6. CASE StreamGoesOn
  BY <1>6 DEF StreamGoesOn, Next, Internal, Top
<1>7. CASE Outside
  BY <1>7 DEF Outside, Next, Consumer, Network
<1>8. CASE UNCHANGED vars
  BY <1>8
<1> QED
  BY <1>1, <1>2, <1>3, <1>4, <1>5, <1>6, <1>7, <1>8 DEF BrowserNext

-----------------------------------------------------------------------------
(* What the operations on a list do to its slots.                          *)

\* An interceptor that may be added has a list of its own.
LEMMA ListsOfFns ==
    /\ \A f \in Fns : ListOf(f) \in Lists
    /\ Csrf \notin Installs /\ NoFn \notin Fns
    /\ \A a \in Apps : a.installs \subseteq Installs
  BY ApiClientAssumption DEF ListOf, Fns, Lists

LEMMA InUseTyped ==
    ASSUME RegistryTyped, NEW l \in Lists
    PROVE  /\ InUse(l) = fns[l][Len(fns[l])] /\ InUse(l) \in Seq(Content)
           /\ Len(fns[l]) \in Arrays(l)
           /\ \A n \in Arrays(l) : /\ fns[l][n] \in Seq(Content)
                                   /\ \A i \in Slots(l, n) :
                                         fns[l][n][i] \in Content
  BY DEF RegistryTyped, InUse, Last, Arrays, Slots

\* A slot gets another content.
LEMMA PutCells ==
    ASSUME RegistryTyped, NEW l \in Lists, NEW i, Filled(l, i),
           NEW content \in Content, PutInto(l, i, content)
    PROVE  /\ fns' \in [Lists -> Seq(Seq(Content))]
           /\ \A k \in Lists : Len(fns'[k]) = Len(fns[k])
           /\ \A k \in Lists : \A n \in Arrays(k) :
                  /\ Len(fns'[k][n]) = Len(fns[k][n])
                  /\ \A j \in Slots(k, n) :
                        fns'[k][n][j] = IF k = l /\ n = Len(fns[l]) /\ j = i
                                        THEN content ELSE fns[k][n][j]
<1> DEFINE m == Len(fns[l])
<1>1. /\ fns \in [Lists -> Seq(Seq(Content))] /\ fns[l] \in Seq(Seq(Content))
      /\ m \in Nat /\ m \in Arrays(l)
      /\ fns[l][m] \in Seq(Content) /\ i \in 1 .. Len(fns[l][m])
      /\ fns' = [fns EXCEPT ![l][m][i] = content]
  BY InUseTyped DEF RegistryTyped, Arrays, Filled, PutInto
<1> DEFINE array == [fns[l][m] EXCEPT ![i] = content]
           list == [fns[l] EXCEPT ![m] = array]
<1>2. /\ array \in Seq(Content) /\ Len(array) = Len(fns[l][m])
      /\ \A j \in 1 .. Len(fns[l][m]) :
            array[j] = IF j = i THEN content ELSE fns[l][m][j]
  BY <1>1
<1>3. /\ list \in Seq(Seq(Content)) /\ Len(list) = Len(fns[l])
      /\ \A n \in 1 .. Len(fns[l]) :
            list[n] = IF n = m THEN array ELSE fns[l][n]
  <2> HIDE DEF array
  <2> QED
    BY <1>1, <1>2 DEF Arrays
<1>4. fns' = [fns EXCEPT ![l] = list]
  BY <1>1
<1> HIDE DEF list, array
<1> QED
  BY <1>1, <1>2, <1>3, <1>4 DEF Arrays, Slots

\* One more slot at the end of the array in use.
LEMMA UseCells ==
    ASSUME RegistryTyped, NEW l \in Lists, NEW f \in Installs, ListOf(f) = l,
           Use(f)
    PROVE  /\ fns' \in [Lists -> Seq(Seq(Content))]
           /\ \A k \in Lists : Len(fns'[k]) = Len(fns[k])
           /\ \A k \in Lists : \A n \in Arrays(k) :
                  /\ Len(fns'[k][n]) = IF k = l /\ n = Len(fns[l])
                                       THEN Len(fns[k][n]) + 1
                                       ELSE Len(fns[k][n])
                  /\ \A j \in Slots(k, n) : fns'[k][n][j] = fns[k][n][j]
           /\ fns'[l][Len(fns[l])][Len(InUse(l)) + 1] = f
<1> DEFINE m == Len(fns[l])
<1>1. /\ fns \in [Lists -> Seq(Seq(Content))] /\ fns[l] \in Seq(Seq(Content))
      /\ m \in Nat /\ m \in Arrays(l)
      /\ fns[l][m] \in Seq(Content) /\ InUse(l) = fns[l][m]
      /\ f \in Content
      /\ fns' = [fns EXCEPT ![l][m] = Append(fns[l][m], f)]
  <2>1. fns' = [fns EXCEPT ![l][m] = Append(fns[l][m], f)]
    BY DEF Use
  <2>2. /\ fns[l][m] \in Seq(Content) /\ InUse(l) = fns[l][m]
        /\ m \in Arrays(l)
    BY InUseTyped
  <2>3. /\ fns \in [Lists -> Seq(Seq(Content))]
        /\ fns[l] \in Seq(Seq(Content)) /\ m \in Nat
    BY DEF RegistryTyped
  <2>4. f \in Content
    BY DEF Content, Fns
  <2> QED
    BY <2>1, <2>2, <2>3, <2>4
<1> DEFINE array == Append(fns[l][m], f)
           list == [fns[l] EXCEPT ![m] = array]
<1>2. /\ array \in Seq(Content) /\ Len(array) = Len(fns[l][m]) + 1
      /\ \A j \in 1 .. Len(fns[l][m]) : array[j] = fns[l][m][j]
      /\ array[Len(fns[l][m]) + 1] = f
  BY <1>1
<1>3. /\ list \in Seq(Seq(Content)) /\ Len(list) = Len(fns[l])
      /\ \A n \in 1 .. Len(fns[l]) :
            list[n] = IF n = m THEN array ELSE fns[l][n]
  <2> HIDE DEF array
  <2> QED
    BY <1>1, <1>2 DEF Arrays
<1>4. fns' = [fns EXCEPT ![l] = list]
  BY <1>1
<1> HIDE DEF list, array
<1>5. /\ fns'[l] = list /\ \A k \in Lists : k # l => fns'[k] = fns[k]
      /\ fns' \in [Lists -> Seq(Seq(Content))]
  BY <1>1, <1>3, <1>4
<1>6. /\ \A n \in Arrays(l) : n # m => fns'[l][n] = fns[l][n]
      /\ fns'[l][m] = array
  BY <1>1, <1>3, <1>5 DEF Arrays
<1> QED
  BY <1>1, <1>2, <1>3, <1>5, <1>6 DEF Arrays, Slots

\* One more array, which is empty.
LEMMA ClearCells ==
    ASSUME RegistryTyped, NEW l \in Lists, Clear(l)
    PROVE  /\ fns' \in [Lists -> Seq(Seq(Content))]
           /\ \A k \in Lists : Len(fns'[k]) = IF k = l THEN Len(fns[k]) + 1
                                              ELSE Len(fns[k])
           /\ \A k \in Lists : \A n \in Arrays(k) : fns'[k][n] = fns[k][n]
           /\ fns'[l][Len(fns[l]) + 1] = <<>>
<1>1. /\ fns \in [Lists -> Seq(Seq(Content))] /\ fns[l] \in Seq(Seq(Content))
      /\ fns' = [fns EXCEPT ![l] = Append(fns[l], <<>>)]
  BY DEF RegistryTyped, Clear
<1>2. /\ Append(fns[l], <<>>) \in Seq(Seq(Content))
      /\ Len(Append(fns[l], <<>>)) = Len(fns[l]) + 1
      /\ \A n \in 1 .. Len(fns[l]) : Append(fns[l], <<>>)[n] = fns[l][n]
      /\ Append(fns[l], <<>>)[Len(fns[l]) + 1] = <<>>
  <2>1. <<>> \in Seq(Content)
    OBVIOUS
  <2> QED
    BY <1>1, <2>1
<1> QED
  BY <1>1, <1>2 DEF Arrays

-----------------------------------------------------------------------------
(* Interceptors keep their places.                                         *)

\* A slot that is not that of createBrowserApiClient is emptied or taken over
\* by an interceptor that was nowhere before.
LEMMA PutKeepsPlaces ==
    ASSUME RegistryInv, NEW l \in Lists, NEW i, Filled(l, i),
           NEW content \in Content, PutInto(l, i, content), UNCHANGED app,
           app.token => InUse(l)[i] # Csrf,
           content # NoFn => /\ content \in Installs
                             /\ ListOf(content) = l /\ home[content] = 0,
           home' \in [Installs -> Nat],
           \A f \in Installs : home'[f] = IF f = content THEN Len(fns[l])
                                        ELSE home[f],
           id' \in [Installs -> Nat],
           \A f \in Installs : id'[f] \in {0, IF f = content THEN i
                                            ELSE id[f]}
    PROVE  RegistryInv'
<1>0. /\ fns' \in [Lists -> Seq(Seq(Content))]
      /\ \A k \in Lists : Len(fns'[k]) = Len(fns[k])
      /\ \A k \in Lists : \A n \in Arrays(k) :
             /\ Len(fns'[k][n]) = Len(fns[k][n])
             /\ \A j \in Slots(k, n) :
                   fns'[k][n][j] = IF k = l /\ n = Len(fns[l]) /\ j = i
                                   THEN content ELSE fns[k][n][j]
  BY PutCells DEF RegistryInv
<1> DEFINE m == Len(fns[l])
           old == fns[l][m][i]
<1> USE DEF RegistryInv
<1>1. /\ i \in Slots(l, m) /\ m \in Arrays(l) /\ InUse(l) = fns[l][m]
      /\ i \in DOMAIN InUse(l) /\ old \in Fns /\ old # NoFn /\ m \in Nat
      /\ i \in Nat /\ i # 0 /\ m # 0
      /\ withdrawn' = withdrawn \union {old}
      /\ fns' = [fns EXCEPT ![l][m][i] = content]
  BY InUseTyped DEF Filled, PutInto, Slots, Content, Arrays
<1>2. /\ fns' \in [Lists -> Seq(Seq(Content))]
      /\ \A k \in Lists : Len(fns'[k]) = Len(fns[k])
      /\ \A k \in Lists : \A n \in Arrays(k) :
             /\ Len(fns'[k][n]) = Len(fns[k][n])
             /\ \A j \in Slots(k, n) :
                   fns'[k][n][j] = IF k = l /\ n = m /\ j = i
                                   THEN content ELSE fns[k][n][j]
  BY <1>0
<1>3. /\ \A k \in Lists : Arrays(k)' = Arrays(k)
      /\ \A k \in Lists : \A n \in Arrays(k) : Slots(k, n)' = Slots(k, n)
  BY <1>2 DEF Arrays, Slots
<1> HIDE DEF m
<1>4. RegistryTyped'
  BY <1>1, <1>2 DEF RegistryTyped
<1>5. \A k \in Lists : \A n \in Arrays(k) : \A j \in Slots(k, n) :
          /\ fns[k][n][j] # NoFn => /\ fns[k][n][j] # content
                                    /\ (fns[k][n][j] = old
                                          => k = l /\ n = m /\ j = i)
  <2> SUFFICES ASSUME NEW k \in Lists, NEW n \in Arrays(k),
                      NEW j \in Slots(k, n), fns[k][n][j] # NoFn
               PROVE  /\ fns[k][n][j] # content
                      /\ fns[k][n][j] = old => k = l /\ n = m /\ j = i
    OBVIOUS
  <2>1. fns[k][n][j] # content
    BY ListsOfFns DEF Homed, Arrays
  <2>2. ASSUME fns[k][n][j] = old PROVE k = l /\ n = m
    BY <1>1, <2>2 DEF Homed
  <2>3. ASSUME fns[k][n][j] = old PROVE j = i
    BY <1>1, <2>2, <2>3 DEF Single
  <2> QED
    BY <2>1, <2>2, <2>3
<1>6. Homed'
  <2> SUFFICES ASSUME NEW k \in Lists, NEW n \in Arrays(k),
                      NEW j \in Slots(k, n), fns'[k][n][j] # NoFn
               PROVE  LET f == fns'[k][n][j]
                      IN /\ ListOf(f) = k
                         /\ f \notin withdrawn'
                         /\ IF f = Csrf THEN n = 1 ELSE home'[f] = n
    BY <1>3 DEF Homed
  <2>1. CASE k = l /\ n = m /\ j = i
    <3>1. fns'[k][n][j] = content /\ content \in Installs
      BY <1>1, <1>2, <2>1
    <3>2. content # old /\ content \notin withdrawn
      BY <1>1, <1>5, <3>1, ListsOfFns DEF Identified
    <3> QED
      BY <1>1, <2>1, <3>1, <3>2, ListsOfFns DEF m
  <2>2. CASE ~(k = l /\ n = m /\ j = i)
    <3>1. fns'[k][n][j] = fns[k][n][j]
      BY <1>2, <2>2
    <3>2. /\ fns[k][n][j] # old /\ fns[k][n][j] # content
          /\ fns[k][n][j] \in Fns
      BY <1>5, <2>2, <3>1, InUseTyped DEF Content
    <3> QED
      BY <1>1, <3>1, <3>2 DEF Homed, Fns
  <2> QED
    BY <2>1, <2>2
<1>7. Single'
  <2> SUFFICES ASSUME NEW k \in Lists, NEW n \in Arrays(k),
                      NEW a \in Slots(k, n), NEW b \in Slots(k, n),
                      fns'[k][n][a] = fns'[k][n][b], fns'[k][n][a] # NoFn
               PROVE  a = b
    BY <1>3 DEF Single
  <2>1. \A j \in Slots(k, n) :
           fns'[k][n][j] = IF k = l /\ n = m /\ j = i THEN content
                           ELSE fns[k][n][j]
    BY <1>2
  <2>2. \A j \in Slots(k, n) :
           fns[k][n][j] # NoFn => fns[k][n][j] # content
    BY <1>5
  <2>3. fns[k][n][a] = fns[k][n][b] /\ fns[k][n][a] # NoFn => a = b
    BY DEF Single
  <2> HIDE DEF RegistryInv
  <2> QED
    BY <2>1, <2>2, <2>3
<1>8. Identified'
  <2> SUFFICES ASSUME NEW f \in Installs
               PROVE  /\ home'[f] \in 0 .. Len(fns'[ListOf(f)])
                      /\ home'[f] = 0 => id'[f] = 0 /\ f \notin withdrawn'
                      /\ id'[f] # 0 =>
                            /\ id'[f] \in 1 .. Len(fns'[ListOf(f)][home'[f]])
                            /\ f \in withdrawn'
                               \/ fns'[ListOf(f)][home'[f]][id'[f]] = f
    BY DEF Identified, Slots, ListOf
  <2>1. ListOf(f) \in Lists /\ f # NoFn /\ f # Csrf
    BY ListsOfFns DEF Fns
  <2>2. CASE f = content
    <3>1. /\ home'[f] = m /\ id'[f] \in {0, i} /\ ListOf(f) = l
      BY <2>1, <2>2 DEF m
    <3>2. fns'[l][m][i] = f /\ i \in 1 .. Len(fns'[l][m])
      BY <1>1, <1>2, <2>2 DEF Slots
    <3> QED
      BY <1>1, <1>2, <3>1, <3>2 DEF Arrays
  <2>3. CASE f # content
    <3>1. home'[f] = home[f] /\ id'[f] \in {0, id[f]}
      BY <2>3
    <3>2. home[f] = 0 => f # old
      BY <1>1, <2>1 DEF Homed
    <3>3. home[f] # 0 => home[f] \in Arrays(ListOf(f))
      BY <1>4, <2>1 DEF Identified, Arrays, RegistryTyped
    <3>4. ASSUME id'[f] # 0
          PROVE  /\ home[f] \in Arrays(ListOf(f))
                 /\ id'[f] \in Slots(ListOf(f), home[f])
                 /\ f \in withdrawn \/ fns[ListOf(f)][home[f]][id'[f]] = f
      BY <3>1, <3>3, <3>4 DEF Identified
    <3>5. ASSUME id'[f] # 0, f \notin withdrawn'
          PROVE  fns'[ListOf(f)][home[f]][id'[f]] = f
      BY <1>1, <1>2, <2>1, <3>4, <3>5
    <3>6. /\ home[f] \in 0 .. Len(fns'[ListOf(f)])
          /\ home[f] = 0 => id'[f] = 0 /\ f \notin withdrawn'
      BY <1>1, <1>2, <2>1, <3>1, <3>2 DEF Identified
    <3>7. id'[f] # 0 => id'[f] \in 1 .. Len(fns'[ListOf(f)][home[f]])
      BY <1>2, <2>1, <3>4 DEF Slots
    <3> QED
      BY <3>1, <3>5, <3>6, <3>7
  <2> QED
    BY <2>2, <2>3
<1>9. CsrfFirst'
  <2> SUFFICES ASSUME app.token
               PROVE  /\ 1 \in Slots("request", 1)'
                      /\ fns'["request"][1][1] = Csrf
                      /\ \A f \in Installs :
                            ListOf(f) = "request" /\ home'[f] = 1
                            => id'[f] # 1
    BY DEF CsrfFirst
  <2>1. "request" \in Lists /\ 1 \in Arrays("request")
    BY DEF Lists, RegistryTyped, Arrays
  <2>2. ~("request" = l /\ 1 = m /\ 1 = i)
    BY <1>1 DEF CsrfFirst
  <2>3. 1 \in Slots("request", 1)' /\ fns'["request"][1][1] = Csrf
    BY <1>2, <1>3, <2>1, <2>2 DEF CsrfFirst
  <2>4. ASSUME NEW f \in Installs, ListOf(f) = "request", home'[f] = 1
        PROVE  id'[f] # 1
    <3>1. CASE f = content
      BY <1>1, <2>2, <2>4, <3>1, ListsOfFns DEF m, Fns
    <3>2. CASE f # content
      BY <2>4, <3>2 DEF CsrfFirst
    <3> QED
      BY <3>1, <3>2
  <2> QED
    BY <2>3, <2>4
<1> QED
  BY <1>4, <1>6, <1>7, <1>8, <1>9

\* One that was nowhere before gets a slot of its own.
LEMMA UseKeepsPlaces ==
    ASSUME RegistryInv, NEW f \in Installs, Use(f)
    PROVE  RegistryInv'
<1> DEFINE l == ListOf(f)
           m == Len(fns[l])
           last == Len(fns[l][m]) + 1
<1> USE DEF RegistryInv
<1>1. /\ l \in Lists /\ m \in Arrays(l) /\ m \in Nat /\ m # 0
      /\ InUse(l) = fns[l][m] /\ last \in Nat /\ last # 0
      /\ f \in Fns /\ f # NoFn /\ f # Csrf
      /\ home[f] = 0 /\ f \notin withdrawn
      /\ id' = [id EXCEPT ![f] = last] /\ home' = [home EXCEPT ![f] = m]
      /\ UNCHANGED <<app, withdrawn>>
  <2>1. l \in Lists /\ f \in Fns /\ f # NoFn /\ f # Csrf
    BY ListsOfFns DEF Fns
  <2>2. /\ home[f] = 0 /\ f \notin withdrawn
        /\ UNCHANGED <<app, withdrawn>>
        /\ home' = [home EXCEPT ![f] = m]
        /\ id' = [id EXCEPT ![f] = Len(InUse(l)) + 1]
    BY DEF Use, Identified
  <2>3. m \in Arrays(l) /\ InUse(l) = fns[l][m] /\ fns[l][m] \in Seq(Content)
    BY <2>1, InUseTyped
  <2>4. m \in Nat /\ m # 0 /\ last \in Nat /\ last # 0
    BY <2>1, <2>3 DEF Arrays, RegistryTyped
  <2> QED
    BY <2>1, <2>2, <2>3, <2>4
<1>2. /\ fns' \in [Lists -> Seq(Seq(Content))]
      /\ \A k \in Lists : Len(fns'[k]) = Len(fns[k])
      /\ \A k \in Lists : \A n \in Arrays(k) :
             /\ Len(fns'[k][n]) = IF k = l /\ n = Len(fns[l])
                                  THEN Len(fns[k][n]) + 1 ELSE Len(fns[k][n])
             /\ \A j \in Slots(k, n) : fns'[k][n][j] = fns[k][n][j]
      /\ fns'[l][Len(fns[l])][Len(InUse(l)) + 1] = f
  BY <1>1, UseCells
<1>3. /\ \A k \in Lists : Arrays(k)' = Arrays(k)
      /\ \A k \in Lists : \A n \in Arrays(k) :
            \A j \in Slots(k, n)' :
               \/ j \in Slots(k, n) /\ fns'[k][n][j] = fns[k][n][j]
               \/ k = l /\ n = m /\ j = last /\ fns'[k][n][j] = f
  <2>1. \A k \in Lists : \A n \in Arrays(k) : Len(fns[k][n]) \in Nat
    BY InUseTyped
  <2>2. \A k \in Lists : Arrays(k)' = Arrays(k)
    BY <1>2 DEF Arrays
  <2>3. SUFFICES ASSUME NEW k \in Lists, NEW n \in Arrays(k),
                        NEW j \in Slots(k, n)'
                 PROVE  \/ j \in Slots(k, n) /\ fns'[k][n][j] = fns[k][n][j]
                        \/ /\ k = l /\ n = m /\ j = last
                           /\ fns'[k][n][j] = f
    BY <2>2
  <2>4. CASE k = l /\ n = m
    <3>1. j \in 1 .. Len(fns[k][n]) \/ j = last
      BY <1>2, <2>1, <2>4 DEF Slots
    <3> QED
      BY <1>1, <1>2, <2>4, <3>1 DEF Slots
  <2>5. CASE ~(k = l /\ n = m)
    BY <1>2, <2>5 DEF Slots
  <2> QED
    BY <2>4, <2>5
<1>4. \A k \in Lists : \A n \in Arrays(k) : \A j \in Slots(k, n) :
          fns[k][n][j] # f
  BY <1>1 DEF Homed, Arrays
<1> HIDE DEF l, m, last
<1>5. RegistryTyped'
  BY <1>1, <1>2 DEF RegistryTyped
<1>6. Homed'
  <2> SUFFICES ASSUME NEW k \in Lists, NEW n \in Arrays(k),
                      NEW j \in Slots(k, n)', fns'[k][n][j] # NoFn
               PROVE  LET g == fns'[k][n][j]
                      IN /\ ListOf(g) = k
                         /\ g \notin withdrawn'
                         /\ IF g = Csrf THEN n = 1 ELSE home'[g] = n
    BY <1>3 DEF Homed
  <2>1. CASE j \in Slots(k, n) /\ fns'[k][n][j] = fns[k][n][j]
    <3>1. fns[k][n][j] # f /\ fns[k][n][j] \in Fns
      BY <1>4, <2>1, InUseTyped DEF Content
    <3> QED
      BY <1>1, <2>1, <3>1 DEF Homed, Fns
  <2>2. CASE k = l /\ n = m /\ j = last /\ fns'[k][n][j] = f
    BY <1>1, <2>2 DEF RegistryTyped, l
  <2> QED
    BY <1>3, <2>1, <2>2
<1>7. Single'
  <2> SUFFICES ASSUME NEW k \in Lists, NEW n \in Arrays(k),
                      NEW a \in Slots(k, n)', NEW b \in Slots(k, n)',
                      fns'[k][n][a] = fns'[k][n][b], fns'[k][n][a] # NoFn
               PROVE  a = b
    BY <1>3 DEF Single
  <2> QED
    BY <1>3, <1>4 DEF Single
<1>8. Identified'
  <2> SUFFICES ASSUME NEW g \in Installs
               PROVE  /\ home'[g] \in 0 .. Len(fns'[ListOf(g)])
                      /\ home'[g] = 0 => id'[g] = 0 /\ g \notin withdrawn'
                      /\ id'[g] # 0 =>
                            /\ id'[g] \in 1 .. Len(fns'[ListOf(g)][home'[g]])
                            /\ g \in withdrawn'
                               \/ fns'[ListOf(g)][home'[g]][id'[g]] = g
    BY DEF Identified, Slots, ListOf
  <2>1. ListOf(g) \in Lists
    BY ListsOfFns DEF Fns
  <2>2. CASE g = f
    <3>1. /\ home'[g] = m /\ id'[g] = last /\ ListOf(g) = l
      BY <1>1, <2>2 DEF RegistryTyped, l
    <3>2. fns'[l][m][last] = f /\ last \in 1 .. Len(fns'[l][m])
      <4>1. l \in Lists /\ m \in Arrays(l) /\ InUse(l) = fns[l][m]
        BY <1>1
      <4>2. fns'[l][m][last] = f
        BY <1>2, <4>1 DEF last, m
      <4>3. Len(fns'[l][m]) = last
        BY <1>2, <4>1 DEF last, m
      <4> QED
        BY <1>1, <4>2, <4>3
    <3>3. m \in 0 .. Len(fns'[l])
      <4>1. m \in 1 .. Len(fns[l])
        BY <1>1 DEF Arrays
      <4>2. Len(fns'[l]) = Len(fns[l])
        BY <1>1, <1>2
      <4> QED
        BY <4>1, <4>2
    <3> QED
      BY <1>1, <2>2, <3>1, <3>2, <3>3
  <2>3. CASE g # f
    <3>1. home'[g] = home[g] /\ id'[g] = id[g]
      BY <1>1, <2>3 DEF RegistryTyped
    <3>2. home[g] # 0 => home[g] \in Arrays(ListOf(g))
      BY <2>1 DEF Identified, Arrays, RegistryTyped
    <3>3. ASSUME id[g] # 0
          PROVE  /\ home[g] \in Arrays(ListOf(g))
                 /\ id[g] \in Slots(ListOf(g), home[g])
                 /\ g \in withdrawn \/ fns[ListOf(g)][home[g]][id[g]] = g
      BY <3>2, <3>3 DEF Identified
    <3>4. ASSUME id[g] # 0
          PROVE  id[g] \in 1 .. Len(fns'[ListOf(g)][home[g]])
      <4>1. Len(fns[ListOf(g)][home[g]]) \in Nat
        BY <2>1, <3>3, <3>4, InUseTyped
      <4>2. \/ Len(fns'[ListOf(g)][home[g]]) = Len(fns[ListOf(g)][home[g]])
            \/ Len(fns'[ListOf(g)][home[g]]) = Len(fns[ListOf(g)][home[g]]) + 1
        BY <1>2, <2>1, <3>3, <3>4
      <4>3. id[g] \in 1 .. Len(fns[ListOf(g)][home[g]])
        BY <3>3, <3>4 DEF Slots
      <4> QED
        BY <4>1, <4>2, <4>3
    <3>5. home[g] \in 0 .. Len(fns'[ListOf(g)])
      BY <1>2, <2>1 DEF Identified
    <3>6. ASSUME id[g] # 0, g \notin withdrawn
          PROVE  fns'[ListOf(g)][home[g]][id[g]] = g
      BY <1>2, <2>1, <3>3, <3>6
    <3> QED
      BY <1>1, <3>1, <3>4, <3>5, <3>6 DEF Identified
  <2> QED
    BY <2>2, <2>3
<1>9. CsrfFirst'
  <2> SUFFICES ASSUME app.token
               PROVE  /\ 1 \in Slots("request", 1)'
                      /\ fns'["request"][1][1] = Csrf
                      /\ \A g \in Installs :
                            ListOf(g) = "request" /\ home'[g] = 1
                            => id'[g] # 1
    BY <1>1 DEF CsrfFirst
  <2>1. "request" \in Lists /\ 1 \in Arrays("request")
    BY DEF Lists, RegistryTyped, Arrays
  <2>2. /\ 1 \in Slots("request", 1) /\ fns["request"][1][1] = Csrf
        /\ Len(fns["request"][1]) \in Nat
    BY <2>1, InUseTyped DEF CsrfFirst
  <2>3. 1 \in Slots("request", 1)' /\ fns'["request"][1][1] = Csrf
    <3>1. \/ Len(fns'["request"][1]) = Len(fns["request"][1])
          \/ Len(fns'["request"][1]) = Len(fns["request"][1]) + 1
      BY <1>2, <2>1
    <3>2. fns'["request"][1][1] = fns["request"][1][1]
      BY <1>2, <2>1, <2>2
    <3> QED
      BY <2>2, <3>1, <3>2 DEF Slots
  <2>4. ASSUME NEW g \in Installs, ListOf(g) = "request", home'[g] = 1
        PROVE  id'[g] # 1
    <3>1. CASE g = f
      <4>1. l = "request" /\ m = 1 /\ id'[g] = last
        BY <1>1, <2>4, <3>1 DEF l, RegistryTyped
      <4> QED
        BY <2>2, <4>1 DEF last, Slots
    <3>2. CASE g # f
      BY <1>1, <2>4, <3>2 DEF CsrfFirst, RegistryTyped
    <3> QED
      BY <3>1, <3>2
  <2> QED
    BY <2>3, <2>4
<1> QED
  BY <1>5, <1>6, <1>7, <1>8, <1>9

\* A new array has no slots.
LEMMA ClearKeepsPlaces ==
    ASSUME RegistryInv, NEW l \in Lists, Clear(l)
    PROVE  RegistryInv'
<1> USE DEF RegistryInv
<1>1. /\ fns' \in [Lists -> Seq(Seq(Content))]
      /\ \A k \in Lists : Len(fns'[k]) = IF k = l THEN Len(fns[k]) + 1
                                         ELSE Len(fns[k])
      /\ \A k \in Lists : \A n \in Arrays(k) : fns'[k][n] = fns[k][n]
      /\ fns'[l][Len(fns[l]) + 1] = <<>>
  BY ClearCells
<1>2. UNCHANGED <<app, id, home, withdrawn>>
  BY DEF Clear
<1>3. /\ \A k \in Lists : Len(fns[k]) \in Nat /\ Len(fns[k]) >= 1
      /\ \A k \in Lists : \A n \in Arrays(k)' :
            \/ n \in Arrays(k) /\ Slots(k, n)' = Slots(k, n)
                  /\ fns'[k][n] = fns[k][n]
            \/ Slots(k, n)' = {}
  <2>1. \A k \in Lists : Len(fns[k]) \in Nat /\ Len(fns[k]) >= 1
    BY DEF RegistryTyped
  <2>2. SUFFICES ASSUME NEW k \in Lists, NEW n \in Arrays(k)'
                 PROVE  \/ n \in Arrays(k) /\ fns'[k][n] = fns[k][n]
                        \/ fns'[k][n] = <<>>
    BY <2>1 DEF Slots
  <2>3. n \in Arrays(k) \/ (k = l /\ n = Len(fns[l]) + 1)
    <3>1. Len(fns'[k]) = IF k = l THEN Len(fns[k]) + 1 ELSE Len(fns[k])
      BY <1>1
    <3>2. n \in 1 .. Len(fns'[k]) /\ Len(fns[k]) \in Nat
      BY <2>1 DEF Arrays
    <3>3. n \in 1 .. Len(fns[k]) \/ (k = l /\ n = Len(fns[k]) + 1)
      BY <3>1, <3>2
    <3> QED
      BY <3>3 DEF Arrays
  <2> QED
    BY <1>1, <2>3
<1>4. RegistryTyped'
  <2>1. \A k \in Lists : Len(fns'[k]) >= 1
    <3> SUFFICES ASSUME NEW k \in Lists PROVE Len(fns'[k]) >= 1
      OBVIOUS
    <3>1. Len(fns[k]) \in Nat /\ Len(fns[k]) >= 1
      BY <1>3
    <3>2. \/ Len(fns'[k]) = Len(fns[k]) + 1
          \/ Len(fns'[k]) = Len(fns[k])
      BY <1>1
    <3> QED
      BY <3>1, <3>2
  <2> QED
    BY <1>1, <1>2, <2>1 DEF RegistryTyped
<1>5. Homed'
  BY <1>2, <1>3 DEF Homed
<1>6. Single'
  BY <1>3 DEF Single
<1>7. Identified'
  <2> SUFFICES ASSUME NEW g \in Installs
               PROVE  /\ home[g] \in 0 .. Len(fns'[ListOf(g)])
                      /\ home[g] = 0 => id[g] = 0 /\ g \notin withdrawn
                      /\ id[g] # 0 =>
                            /\ id[g] \in 1 .. Len(fns'[ListOf(g)][home[g]])
                            /\ g \in withdrawn
                               \/ fns'[ListOf(g)][home[g]][id[g]] = g
    BY <1>2 DEF Identified, Slots, ListOf
  <2>1. ListOf(g) \in Lists
    BY ListsOfFns DEF Fns
  <2>2. home[g] # 0 => home[g] \in Arrays(ListOf(g))
    BY <2>1 DEF Identified, Arrays, RegistryTyped
  <2>3. home[g] \in 0 .. Len(fns'[ListOf(g)])
    <3>1. home[g] \in 0 .. Len(fns[ListOf(g)])
      BY DEF Identified
    <3>2. \/ Len(fns'[ListOf(g)]) = Len(fns[ListOf(g)]) + 1
          \/ Len(fns'[ListOf(g)]) = Len(fns[ListOf(g)])
      BY <1>1, <2>1
    <3> QED
      BY <1>3, <2>1, <3>1, <3>2
  <2>4. home[g] = 0 => id[g] = 0 /\ g \notin withdrawn
    BY DEF Identified
  <2>5. ASSUME id[g] # 0
        PROVE  /\ id[g] \in 1 .. Len(fns'[ListOf(g)][home[g]])
               /\ g \in withdrawn
                     \/ fns'[ListOf(g)][home[g]][id[g]] = g
    <3>1. fns'[ListOf(g)][home[g]] = fns[ListOf(g)][home[g]]
      BY <1>1, <2>1, <2>2, <2>4, <2>5
    <3> QED
      BY <2>5, <3>1 DEF Identified, Slots
  <2> QED
    BY <2>3, <2>4, <2>5
<1>8. CsrfFirst'
  <2>1. "request" \in Lists /\ 1 \in Arrays("request")
    BY <1>3 DEF Lists, Arrays
  <2>2. fns'["request"][1] = fns["request"][1]
    BY <1>1, <2>1
  <2> QED
    BY <1>2, <2>2 DEF CsrfFirst, Slots, ListOf
<1> QED
  BY <1>4, <1>5, <1>6, <1>7, <1>8

\* No id leads to the interceptor of createBrowserApiClient.
LEMMA CsrfHasNoId ==
    ASSUME RegistryInv, NEW f \in Installs, id[f] # 0,
           Filled(ListOf(f), id[f]), app.token
    PROVE  InUse(ListOf(f))[id[f]] # Csrf
<1> SUFFICES ASSUME InUse(ListOf(f))[id[f]] = Csrf PROVE FALSE
  OBVIOUS
<1> DEFINE l == ListOf(f)
           m == Len(fns[l])
<1>1. /\ l \in Lists /\ m \in Arrays(l) /\ id[f] \in Slots(l, m)
      /\ fns[l][m][id[f]] = Csrf /\ Csrf # NoFn
  BY ListsOfFns, InUseTyped DEF RegistryInv, Fns, Filled, Slots
<1> HIDE DEF l, m
<1>2. m = 1 /\ l = "request"
  <2>1. ListOf(Csrf) = "request"
    BY DEF ListOf
  <2> QED
    BY <1>1, <2>1 DEF RegistryInv, Homed
<1>3. id[f] = 1
  BY <1>1, <1>2 DEF RegistryInv, CsrfFirst, Single
<1>4. home[f] = 1
  <2>1. home[f] \in 0 .. m /\ home[f] # 0
    BY DEF RegistryInv, Identified, l, m
  <2> QED
    BY <1>2, <2>1
<1> QED
  BY <1>2, <1>3, <1>4 DEF RegistryInv, CsrfFirst, l

\* The lists keep their places whatever is done to them.
LEMMA RegistryKeepsPlaces == RegistryInv /\ Registry => RegistryInv'
<1> SUFFICES ASSUME RegistryInv, Registry PROVE RegistryInv'
  OBVIOUS
<1>1. /\ id \in [Installs -> Nat]
      /\ NoFn \notin Installs /\ NoFn \in Content /\ Installs \subseteq Content
      /\ home \in [Installs -> Nat]
  BY ListsOfFns DEF RegistryInv, RegistryTyped, Content, Fns
<1>2. ASSUME NEW f \in Installs, Eject(f) PROVE RegistryInv'
  <2>1. /\ ListOf(f) \in Lists /\ Filled(ListOf(f), id[f])
        /\ PutInto(ListOf(f), id[f], NoFn) /\ UNCHANGED <<app, id, home>>
        /\ app.token => InUse(ListOf(f))[id[f]] # Csrf
    BY <1>2, ListsOfFns, CsrfHasNoId DEF Eject, calling, Fns
  <2>2. home' \in [Installs -> Nat] /\ \A g \in Installs :
            home'[g] = IF g = NoFn THEN Len(fns[ListOf(f)]) ELSE home[g]
    BY <1>1, <2>1
  <2>3. id' \in [Installs -> Nat] /\ \A g \in Installs :
            id'[g] \in {0, IF g = NoFn THEN id[f] ELSE id[g]}
    BY <1>1, <2>1
  <2> QED
    BY <1>1, <2>1, <2>2, <2>3, PutKeepsPlaces
<1>3. ASSUME NEW f \in Installs, EjectFunction(f) PROVE RegistryInv'
  <2>1. PICK i \in DOMAIN InUse(ListOf(f)) :
            InUse(ListOf(f))[i] \in Installs /\ PutInto(ListOf(f), i, NoFn)
    BY <1>3 DEF EjectFunction, FirstOf, Holds
  <2>2. /\ ListOf(f) \in Lists /\ Filled(ListOf(f), i)
        /\ UNCHANGED <<app, id, home>>
        /\ app.token => InUse(ListOf(f))[i] # Csrf
    BY <1>3, <2>1, ListsOfFns DEF EjectFunction, calling, Fns, Filled
  <2>3. home' \in [Installs -> Nat] /\ \A g \in Installs :
            home'[g] = IF g = NoFn THEN Len(fns[ListOf(f)]) ELSE home[g]
    BY <1>1, <2>2
  <2>4. id' \in [Installs -> Nat] /\ \A g \in Installs :
            id'[g] \in {0, IF g = NoFn THEN i ELSE id[g]}
    BY <1>1, <2>2
  <2> QED
    BY <1>1, <2>1, <2>2, <2>3, <2>4, PutKeepsPlaces
<1>4. ASSUME NEW f \in Installs, NEW g \in Installs, Update(f, g)
      PROVE  RegistryInv'
  <2>1. /\ ListOf(f) \in Lists /\ Filled(ListOf(f), id[f])
        /\ PutInto(ListOf(f), id[f], g) /\ UNCHANGED app
        /\ app.token => InUse(ListOf(f))[id[f]] # Csrf
        /\ ListOf(g) = ListOf(f) /\ home[g] = 0 /\ id[f] # 0
        /\ id' = [id EXCEPT ![g] = id[f], ![f] = 0]
        /\ home' = [home EXCEPT ![g] = Len(fns[ListOf(f)])]
    BY <1>4, ListsOfFns, CsrfHasNoId DEF Update, Replacement, calling, Fns
  <2>2. f # g
    BY <2>1 DEF RegistryInv, Identified
  <2>3. home' \in [Installs -> Nat] /\ \A h \in Installs :
            home'[h] = IF h = g THEN Len(fns[ListOf(f)]) ELSE home[h]
    BY <1>1, <2>1 DEF RegistryInv, RegistryTyped
  <2>4. id' \in [Installs -> Nat] /\ \A h \in Installs :
            id'[h] \in {0, IF h = g THEN id[f] ELSE id[h]}
    BY <1>1, <2>1, <2>2
  <2>5. /\ g \in Content
        /\ g # NoFn => g \in Installs /\ ListOf(g) = ListOf(f) /\ home[g] = 0
    BY <1>1, <2>1
  <2> QED
    BY <2>1, <2>3, <2>4, <2>5, PutKeepsPlaces, SMTT(60)
<1>5. ASSUME NEW f \in Installs, NEW g \in Installs, UpdateFunction(f, g)
      PROVE  RegistryInv'
  <2>1. PICK i \in DOMAIN InUse(ListOf(f)) :
            InUse(ListOf(f))[i] \in Installs /\ PutInto(ListOf(f), i, g)
    BY <1>5 DEF UpdateFunction, FirstOf, Holds
  <2>2. /\ ListOf(f) \in Lists /\ Filled(ListOf(f), i)
        /\ UNCHANGED <<app, id>>
        /\ app.token => InUse(ListOf(f))[i] # Csrf
        /\ ListOf(g) = ListOf(f) /\ home[g] = 0
        /\ home' = [home EXCEPT ![g] = Len(fns[ListOf(f)])]
    BY <1>5, <2>1, ListsOfFns
    DEF UpdateFunction, Replacement, calling, Fns, Filled
  <2>3. home' \in [Installs -> Nat] /\ \A h \in Installs :
            home'[h] = IF h = g THEN Len(fns[ListOf(f)]) ELSE home[h]
    BY <1>1, <2>2 DEF RegistryInv, RegistryTyped
  <2>4. id' \in [Installs -> Nat] /\ \A h \in Installs :
            id'[h] \in {0, IF h = g THEN i ELSE id[h]}
    BY <1>1, <2>2 DEF RegistryInv, Identified
  <2>5. /\ g \in Content
        /\ g # NoFn => g \in Installs /\ ListOf(g) = ListOf(f) /\ home[g] = 0
    BY <1>1, <2>2
  <2> QED
    BY <2>1, <2>2, <2>3, <2>4, <2>5, PutKeepsPlaces, SMTT(60)
<1>6. CASE SetConfig
  BY <1>6 DEF SetConfig, registryVars, RegistryInv, RegistryTyped, Homed,
     Single, Identified, CsrfFirst, Arrays, Slots, ListOf
<1> QED
  BY <1>2, <1>3, <1>4, <1>5, <1>6, UseKeepsPlaces, ClearKeepsPlaces
  DEF Registry

\* Calls leave them alone.
LEMMA CallsLeavePlaces ==
    RegistryInv /\ UNCHANGED <<app, registryVars>> => RegistryInv'
  BY DEF registryVars, RegistryInv, RegistryTyped, Homed, Single, Identified,
     CsrfFirst, Arrays, Slots, ListOf

\* At first there is no interceptor but that of createBrowserApiClient.
LEMMA PlacesInit == ApiInit => RegistryInv
<1> SUFFICES ASSUME ApiInit PROVE RegistryInv
  OBVIOUS
<1>1. /\ app \in Apps /\ withdrawn = {}
      /\ id = [f \in Installs |-> 0] /\ home = [f \in Installs |-> 0]
      /\ fns = [l \in Lists |->
              <<IF l = "request" /\ app.token THEN <<Csrf>> ELSE <<>> >>]
  BY DEF ApiInit
<1>2. \A l \in Lists :
          /\ Len(fns[l]) = 1 /\ fns[l][1] = IF l = "request" /\ app.token
                                           THEN <<Csrf>> ELSE <<>>
          /\ fns[l] \in Seq(Seq(Content))
  <2>1. <<Csrf>> \in Seq(Content) /\ <<>> \in Seq(Content)
    BY DEF Content, Fns
  <2> QED
    BY <1>1, <2>1
<1>3. RegistryTyped
  BY <1>1, <1>2 DEF RegistryTyped
<1>4. Homed /\ Single
  <2>1. \A l \in Lists : \A n \in Arrays(l) : \A i \in Slots(l, n) :
            n = 1 /\ i = 1 /\ l = "request" /\ fns[l][n][i] = Csrf
    <3> SUFFICES ASSUME NEW l \in Lists, NEW n \in Arrays(l),
                        NEW i \in Slots(l, n)
                 PROVE  /\ n = 1 /\ i = 1 /\ l = "request"
                        /\ fns[l][n][i] = Csrf
      OBVIOUS
    <3>1. n = 1
      <4>1. Len(fns[l]) = 1
        BY <1>2
      <4>2. n \in 1 .. 1
        BY <4>1 DEF Arrays
      <4> QED
        BY ONLY <4>2
    <3>2. l = "request" /\ fns[l][1] = <<Csrf>>
      BY <1>2, <3>1 DEF Slots
    <3> QED
      BY <3>1, <3>2 DEF Slots
  <2> QED
    BY <1>1, <2>1 DEF Homed, Single, ListOf
<1>5. Identified
  <2>1. \A f \in Installs : ListOf(f) \in Lists
    BY ListsOfFns DEF Fns
  <2> QED
    BY <1>1, <1>2, <2>1 DEF Identified
<1>6. CsrfFirst
  BY <1>1, <1>2 DEF CsrfFirst, Slots, Lists
<1> QED
  BY <1>3, <1>4, <1>5, <1>6 DEF RegistryInv

-----------------------------------------------------------------------------
(* A walk goes on.                                                         *)

\* A set of naturals that is not empty has a least element.
LEMMA LeastOf ==
    ASSUME NEW T \in SUBSET Nat, T # {}
    PROVE  \E x \in T : \A y \in T : x =< y
<1> DEFINE R == OpToRel(<, Nat)
<1>1. IsWellFoundedOn(R, Nat)
  BY NatLessThanWellFounded
<1>2. \A y, x \in Nat : y < x => <<y, x>> \in R
  BY DEF OpToRel
<1> HIDE DEF R
<1>3. PICK x \in T : \A y \in T : ~ (<<y, x>> \in R)
  BY <1>1, WFMin
<1>4. ASSUME NEW y \in T PROVE x =< y
  <2>1. x \in Nat /\ y \in Nat /\ ~(y < x)
    BY <1>2, <1>3
  <2> QED
    BY <2>1
<1> QED
  BY <1>4

\* Following finds the next slot that is not empty, if there is one.
LEMMA FollowingSlot ==
    ASSUME NEW array \in Seq(Content), NEW k \in Nat
    PROVE  LET next == Following(array, k)
           IN \/ /\ next = 0
                 /\ \A j \in 1 .. Len(array) : j > k => array[j] = NoFn
              \/ /\ next \in 1 .. Len(array) /\ next > k
                 /\ array[next] # NoFn /\ array[next] \in Fns
                 /\ \A j \in 1 .. Len(array) :
                       j > k /\ j < next => array[j] = NoFn
<1> DEFINE slots == {j \in DOMAIN array : j > k /\ array[j] # NoFn}
           next == Following(array, k)
<1>1. DOMAIN array = 1 .. Len(array) /\ slots \in SUBSET Nat
  OBVIOUS
<1>2. CASE slots = {}
  <2>1. next = 0
    BY <1>2 DEF Following
  <2> QED
    BY <1>1, <1>2, <2>1
<1>3. CASE slots # {}
  <2>1. \E x \in slots : \A y \in slots : x =< y
    BY <1>1, <1>3, LeastOf
  <2>2. next = CHOOSE x \in slots : \A y \in slots : x =< y
    BY <1>3 DEF Following
  <2> HIDE DEF next
  <2>3. next \in slots /\ \A y \in slots : next =< y
    BY <2>1, <2>2
  <2>4. array[next] \in Fns
    BY <1>1, <2>3 DEF Content
  <2>5. ASSUME NEW j \in 1 .. Len(array), j > k, j < next
        PROVE  array[j] = NoFn
    BY <1>1, <2>3, <2>5
  <2> QED
    BY <1>1, <2>3, <2>4, <2>5 DEF next
<1> QED
  BY <1>2, <1>3

\* One more interceptor is called.
LEMMA AppendOne ==
    ASSUME NEW s \in Seq(Fns), NEW f \in Fns, f \notin Range(s), IsInjective(s)
    PROVE  /\ Append(s, f) \in Seq(Fns) /\ IsInjective(Append(s, f))
           /\ Range(Append(s, f)) = Range(s) \union {f}
           /\ Last(Append(s, f)) = f /\ Append(s, f) # <<>>
<1>1. /\ Append(s, f) \in Seq(Fns) /\ Len(Append(s, f)) = Len(s) + 1
      /\ \A i \in 1 .. Len(s) : Append(s, f)[i] = s[i]
      /\ Append(s, f)[Len(s) + 1] = f
      /\ Len(s) \in Nat /\ DOMAIN s = 1 .. Len(s)
      /\ DOMAIN Append(s, f) = 1 .. Len(s) + 1
  OBVIOUS
<1>2. \A i \in 1 .. Len(s) : s[i] \in Range(s) /\ s[i] # f
  BY <1>1 DEF Range
<1>3. IsInjective(Append(s, f))
  BY <1>1, <1>2 DEF IsInjective
<1>4. Range(Append(s, f)) = Range(s) \union {f}
  BY <1>1 DEF Range
<1> QED
  BY <1>1, <1>3, <1>4 DEF Last

\* At most one more is called, which was added and not taken out.
Called(w, before) ==
    /\ \A v \in Walkers \ {w} : ran'[v] = ran[v]
    /\ \/ ran'[w] = before
       \/ \E f \in Fns : /\ f \notin withdrawn
                         /\ f = Csrf \/ home[f] # 0
                         /\ Last(ran'[w]) = f
                         /\ Range(ran'[w]) = Range(before) \union {f}

\* Going on from a slot finds what is due and nothing twice.
LEMMA AdvanceWalks ==
    ASSUME RegistryInv, WalkInv, NEW w \in Walkers, NEW l \in Lists,
           NEW n \in Arrays(l), NEW from \in Nat, NEW before \in Seq(Fns),
           IsInjective(before), Advance(w, l, n, from, before),
           due' \in [Walkers -> SUBSET Fns], UNCHANGED <<fns, withdrawn>>,
           \A i \in Slots(l, n) : i > from => fns[l][n][i] \notin Range(before),
           \A f \in due'[w] :
               \/ f \in Range(before)
               \/ \E i \in Slots(l, n) : i > from /\ fns[l][n][i] = f,
           w # Stream => \A f \in Range(before) : ListOf(f) \in Behind(l)
    PROVE  /\ Walking(w)'
           /\ stage' \in [Walkers -> Stages] /\ ran' \in [Walkers -> Seq(Fns)]
           /\ walk' \in [Walkers -> [array : Nat, at : Nat]]
           /\ stage'[w] \in {l, AfterWalk[l]}
           /\ \A v \in Walkers \ {w} : /\ stage'[v] = stage[v]
                                       /\ walk'[v] = walk[v]
                                       /\ ran'[v] = ran[v]
           /\ Called(w, before)
<1> DEFINE array == fns[l][n]
           next == Following(array, from)
<1>1. /\ array \in Seq(Content) /\ n \in Nat /\ Slots(l, n) = 1 .. Len(array)
      /\ NoFn \notin Fns
  BY InUseTyped, ListsOfFns DEF RegistryInv, Arrays, Slots
<1>2. \/ /\ next = 0
         /\ \A j \in 1 .. Len(array) : j > from => array[j] = NoFn
      \/ /\ next \in 1 .. Len(array) /\ next > from
         /\ array[next] # NoFn /\ array[next] \in Fns
         /\ \A j \in 1 .. Len(array) :
               j > from /\ j < next => array[j] = NoFn
  BY <1>1, FollowingSlot
<1>3. /\ walk' = [walk EXCEPT ![w] = [array |-> n, at |-> next]]
      /\ stage' = [stage EXCEPT ![w] = IF next = 0 THEN AfterWalk[l] ELSE l]
      /\ ran' = [ran EXCEPT ![w] = IF next = 0 THEN before
                                   ELSE Append(before, array[next])]
  BY DEF Advance
<1>4. /\ AfterWalk[l] \in Stages \ Lists /\ l \in Stages
      /\ Behind(AfterWalk[l]) = Behind(l) /\ l \in Behind(l)
  BY DEF AfterWalk, Lists, Stages, Behind
<1> HIDE DEF array, next
<1>5. /\ walk'[w] = [array |-> n, at |-> next]
      /\ stage'[w] = IF next = 0 THEN AfterWalk[l] ELSE l
      /\ ran'[w] = IF next = 0 THEN before ELSE Append(before, array[next])
      /\ \A v \in Walkers \ {w} :
            stage'[v] = stage[v] /\ walk'[v] = walk[v] /\ ran'[v] = ran[v]
  BY <1>3 DEF WalkInv
<1>6. CASE next = 0
  <2>1. due'[w] \subseteq Range(before)
    BY <1>1, <1>2, <1>6 DEF array
  <2>2. Walking(w)'
    BY <1>1, <1>4, <1>5, <1>6, <2>1 DEF Walking
  <2>3. Called(w, before)
    BY <1>5, <1>6 DEF Called
  <2> QED
    BY <1>1, <1>3, <1>4, <1>5, <1>6, <2>2, <2>3 DEF WalkInv
<1>7. CASE next # 0
  <2>1. /\ next \in 1 .. Len(array) /\ next > from /\ next \in Nat
        /\ array[next] # NoFn /\ array[next] \in Fns
        /\ \A j \in 1 .. Len(array) : j > from /\ j < next => array[j] = NoFn
        /\ array[next] \notin Range(before)
    BY <1>1, <1>2, <1>7 DEF array
  <2>2. /\ ran'[w] \in Seq(Fns) /\ IsInjective(ran'[w])
        /\ Range(ran'[w]) = Range(before) \union {array[next]}
        /\ Last(ran'[w]) = array[next]
    BY <1>5, <1>7, <2>1, AppendOne
  <2>3. ListOf(array[next]) = l /\ array[next] \notin withdrawn
    BY <1>1, <2>1 DEF RegistryInv, Homed, array
  <2>4. \A i \in 1 .. Len(array) : i > next => array[i] \notin Range(ran'[w])
    <3> SUFFICES ASSUME NEW i \in 1 .. Len(array), i > next
                 PROVE  array[i] \notin Range(before) /\ array[i] # array[next]
      BY <2>2
    <3>1. array[i] \notin Range(before)
      BY <1>1, <2>1 DEF array
    <3>2. array[i] # array[next]
      BY <1>1, <2>1 DEF RegistryInv, Single, array
    <3> QED
      BY <3>1, <3>2
  <2>5. ASSUME NEW f \in due'[w], f \notin Range(ran'[w])
        PROVE  \E i \in 1 .. Len(array) : i > next /\ array[i] = f
    <3>1. PICK i \in 1 .. Len(array) : i > from /\ array[i] = f
      BY <1>1, <2>2, <2>5 DEF array
    <3>2. i # next /\ array[i] # NoFn
      BY <1>1, <2>2, <2>5, <3>1
    <3> QED
      BY <2>1, <3>1, <3>2
  <2>6. Ahead(w, stage[w], walk[w].array, walk[w].at)'
    <3>1. /\ stage'[w] = l /\ walk'[w].array = n /\ walk'[w].at = next
          /\ n \in 1 .. Len(fns[l]) /\ Len(fns[l][n]) = Len(array)
      BY <1>1, <1>5, <1>7 DEF Arrays, Slots, array
    <3>2. \A i \in 1 .. Len(fns'[l][n]) :
              i > next => fns'[l][n][i] \notin Range(ran'[w])
      BY <2>4 DEF array
    <3>3. \A f \in due'[w] : \/ f \in Range(ran'[w])
                            \/ \E i \in 1 .. Len(fns'[l][n]) :
                                  i > next /\ fns'[l][n][i] = f
      BY <2>5 DEF array
    <3> QED
      BY <2>1, <3>1, <3>2, <3>3 DEF Ahead, Arrays, Slots
  <2>7. Walking(w)'
    <3>1. /\ walk'[w] \in [array : Nat, at : Nat] /\ stage'[w] = l
          /\ due'[w] \subseteq Fns
      BY <1>1, <1>5, <1>7, <2>1
    <3>2. w # Stream =>
              \A f \in Range(ran'[w]) : ListOf(f) \in Behind(stage'[w])
      BY <1>4, <2>2, <2>3, <3>1
    <3> QED
      BY <1>4, <2>2, <2>6, <3>1, <3>2 DEF Walking, ListOf, Behind
  <2>8. Called(w, before)
    <3>1. array[next] = Csrf \/ home[array[next]] # 0
      BY <1>1, <2>1 DEF RegistryInv, Homed, Arrays, array
    <3> QED
      BY <1>5, <2>1, <2>2, <2>3, <3>1 DEF Called
  <2> QED
    BY <1>1, <1>3, <1>4, <1>5, <1>7, <2>1, <2>2, <2>3, <2>7, <2>8 DEF WalkInv
<1> QED
  BY <1>6, <1>7

\* Other walkers do not notice.
LEMMA OthersWalk ==
    ASSUME WalkInv, NEW w \in Walkers, UNCHANGED fns,
           stage'[w] = stage[w], walk'[w] = walk[w], ran'[w] = ran[w],
           due'[w] = due[w]
    PROVE  Walking(w)'
<1>1. Walking(w)
  BY DEF WalkInv
<1>2. ASSUME stage[w] \in Lists
      PROVE  Ahead(w, stage[w], walk[w].array, walk[w].at)'
  <2>1. Ahead(w, stage[w], walk[w].array, walk[w].at)
    BY <1>1, <1>2 DEF Walking
  <2> QED
    BY <2>1 DEF Ahead, Arrays, Slots
<1> QED
  BY <1>1, <1>2 DEF Walking, ListOf, Behind

\* A call or a connection enters a list it has not been through.
LEMMA EnterKeepsWalks ==
    ASSUME RegistryInv, WalkInv, NEW w \in Walkers, NEW l \in Lists,
           NEW before, Enter(w, l, before), UNCHANGED <<fns, withdrawn>>,
           \/ /\ w = Stream /\ l = "request" /\ before = <<>>
           \/ /\ w # Stream /\ before = ran[w]
              /\ Behind(stage[w]) \subseteq Behind(l) \ {l}
    PROVE  WalkInv' /\ Called(w, before)
<1> DEFINE n == Len(fns[l])
<1>1. /\ n \in Arrays(l) /\ InUse(l) = fns[l][n] /\ NoFn \notin Fns
      /\ fns[l][n] \in Seq(Content)
  BY InUseTyped, ListsOfFns DEF RegistryInv
<1>2. /\ due' = [due EXCEPT ![w] = Present(fns[l][n])]
      /\ Advance(w, l, n, 0, before)
  BY <1>1 DEF Enter
<1>3. /\ Present(fns[l][n]) \subseteq Fns
      /\ \A f \in Present(fns[l][n]) :
            \E i \in Slots(l, n) : i > 0 /\ fns[l][n][i] = f
  BY <1>1 DEF Present, Slots, Content
<1>4. /\ due' \in [Walkers -> SUBSET Fns] /\ due'[w] = Present(fns[l][n])
      /\ \A v \in Walkers \ {w} : due'[v] = due[v]
  BY <1>2, <1>3 DEF WalkInv
<1>5. /\ before \in Seq(Fns) /\ IsInjective(before)
      /\ w # Stream => \A f \in Range(before) : ListOf(f) \in Behind(l)
      /\ \A f \in Range(before) : f \in Fns /\ ListOf(f) # l
  <2>1. CASE w = Stream
    BY <2>1 DEF IsInjective, Range
  <2>2. CASE w # Stream
    <3>1. /\ before = ran[w] /\ Walking(w)
          /\ Behind(stage[w]) \subseteq Behind(l) \ {l}
      BY <2>2 DEF WalkInv
    <3>2. before \in Seq(Fns) /\ IsInjective(before)
      BY <3>1 DEF Walking
    <3>3. \A f \in Range(before) : ListOf(f) \in Behind(stage[w])
      BY <2>2, <3>1 DEF Walking
    <3>4. \A f \in Range(before) : f \in Fns
      BY <3>2 DEF Range
    <3> QED
      BY <3>1, <3>2, <3>3, <3>4
  <2> QED
    BY <2>1, <2>2
<1>6. \A i \in Slots(l, n) : i > 0 => fns[l][n][i] \notin Range(before)
  BY <1>1, <1>5 DEF RegistryInv, Homed
<1>7. \A f \in due'[w] : \/ f \in Range(before)
                        \/ \E i \in Slots(l, n) : i > 0 /\ fns[l][n][i] = f
  BY <1>3, <1>4
<1> HIDE DEF n
<1>8. /\ Walking(w)'
      /\ stage' \in [Walkers -> Stages] /\ ran' \in [Walkers -> Seq(Fns)]
      /\ walk' \in [Walkers -> [array : Nat, at : Nat]]
      /\ stage'[w] \in {l, AfterWalk[l]}
      /\ \A v \in Walkers \ {w} :
            stage'[v] = stage[v] /\ walk'[v] = walk[v] /\ ran'[v] = ran[v]
      /\ Called(w, before)
  BY <1>1, <1>2, <1>4, <1>5, <1>6, <1>7, AdvanceWalks
<1>9. \A v \in Walkers : Walking(v)'
  BY <1>4, <1>8, OthersWalk
<1>10. stage'[Stream] \in {"idle", "request", "fetch"}
  <2>1. CASE w = Stream
    BY <1>8, <2>1 DEF AfterWalk
  <2>2. CASE w # Stream
    BY <1>8, <2>2 DEF Walkers, WalkInv
  <2> QED
    BY <2>1, <2>2
<1> QED
  BY <1>4, <1>8, <1>9, <1>10 DEF WalkInv

\* It goes on in the array it began with.
LEMMA GoOnKeepsWalks ==
    ASSUME RegistryInv, WalkInv, NEW w \in Walkers, stage[w] \in Lists,
           GoOn(w), UNCHANGED <<fns, withdrawn>>
    PROVE  WalkInv' /\ Called(w, ran[w])
<1> DEFINE l == stage[w]
           n == walk[w].array
           k == walk[w].at
           before == ran[w]
<1>1. Walking(w) /\ Ahead(w, l, n, k)
  BY DEF WalkInv, Walking
<1>2. /\ n \in Arrays(l) /\ k \in Nat /\ before \in Seq(Fns)
      /\ IsInjective(before)
      /\ w # Stream => \A f \in Range(before) : ListOf(f) \in Behind(l)
      /\ \A i \in Slots(l, n) : i > k => fns[l][n][i] \notin Range(before)
      /\ \A f \in due[w] :
            \/ f \in Range(before)
            \/ \E i \in Slots(l, n) : i > k /\ fns[l][n][i] = f
  BY <1>1 DEF Walking, Ahead
<1>3. Advance(w, l, n, k, before) /\ due' = due
  BY DEF GoOn
<1>4. due' \in [Walkers -> SUBSET Fns]
  BY <1>3 DEF WalkInv
<1> HIDE DEF l, n, k, before
<1>5. l \in Lists
  BY DEF l
<1>6. /\ Walking(w)'
      /\ stage' \in [Walkers -> Stages] /\ ran' \in [Walkers -> Seq(Fns)]
      /\ walk' \in [Walkers -> [array : Nat, at : Nat]]
      /\ stage'[w] \in {l, AfterWalk[l]}
      /\ \A v \in Walkers \ {w} :
            stage'[v] = stage[v] /\ walk'[v] = walk[v] /\ ran'[v] = ran[v]
      /\ Called(w, before)
  <2>1. \A f \in due'[w] :
            \/ f \in Range(before)
            \/ \E i \in Slots(l, n) : i > k /\ fns[l][n][i] = f
    BY <1>2, <1>3
  <2> QED
    BY <1>2, <1>3, <1>4, <1>5, <2>1, AdvanceWalks, SMTT(60)
<1>7. \A v \in Walkers : Walking(v)'
  BY <1>3, <1>6, OthersWalk
<1>8. stage'[Stream] \in {"idle", "request", "fetch"}
  <2>1. CASE w = Stream
    BY <1>5, <1>6, <2>1 DEF AfterWalk, WalkInv, Lists, l
  <2>2. CASE w # Stream
    BY <1>6, <2>2 DEF Walkers, WalkInv
  <2> QED
    BY <2>1, <2>2
<1> QED
  BY <1>4, <1>6, <1>7, <1>8 DEF WalkInv, before

\* Between two lists, and at the end.
LEMMA RestKeepsWalks ==
    ASSUME WalkInv, NEW w \in Walkers, NEW s \in Stages \ Lists,
           UNCHANGED <<fns, walk, ran>>, stage' = [stage EXCEPT ![w] = s],
           \/ stage[w] \notin Lists /\ due' = due
           \/ due' = [due EXCEPT ![w] = {}],
           IF w = Stream THEN s = "idle"
           ELSE Behind(stage[w]) \subseteq Behind(s)
    PROVE  WalkInv'
<1>1. /\ stage' \in [Walkers -> Stages] /\ due' \in [Walkers -> SUBSET Fns]
      /\ stage'[w] = s /\ \A v \in Walkers \ {w} : stage'[v] = stage[v]
      /\ \A v \in Walkers \ {w} : due'[v] = due[v]
      /\ \/ stage[w] \notin Lists /\ due'[w] = due[w]
         \/ due'[w] = {}
  BY DEF WalkInv
<1>2. Walking(w)'
  <2>1. /\ ran'[w] = ran[w] /\ ran[w] \in Seq(Fns) /\ IsInjective(ran[w])
        /\ walk'[w] \in [array : Nat, at : Nat]
        /\ due'[w] \subseteq Fns /\ due'[w] \subseteq Range(ran[w])
    BY <1>1 DEF WalkInv, Walking
  <2>2. w # Stream => \A f \in Range(ran[w]) : ListOf(f) \in Behind(s)
    BY DEF WalkInv, Walking
  <2> QED
    BY <1>1, <2>1, <2>2 DEF Walking, ListOf, Behind
<1>3. \A v \in Walkers : Walking(v)'
  BY <1>1, <1>2, OthersWalk
<1>4. stage'[Stream] \in {"idle", "request", "fetch"}
  BY <1>1 DEF WalkInv, Walkers
<1> QED
  BY <1>1, <1>3, <1>4 DEF WalkInv

\* Whatever was called has been added.
KnownInv ==
    \A w \in Walkers : \A f \in Range(ran[w]) : f = Csrf \/ home[f] # 0

\* The walks when a slot gets another content.
LEMMA PutKeepsWalks ==
    ASSUME RegistryInv, WalkInv, KnownInv, NEW l \in Lists, NEW i, Filled(l, i),
           NEW content \in Content, PutInto(l, i, content),
           UNCHANGED <<stage, walk, ran>>,
           content # NoFn => content \in Installs /\ home[content] = 0
    PROVE  WalkInv'
<1> DEFINE m == Len(fns[l])
           old == fns[l][m][i]
<1>1. /\ \A k \in Lists : Len(fns'[k]) = Len(fns[k])
      /\ \A k \in Lists : \A n \in Arrays(k) :
             /\ Len(fns'[k][n]) = Len(fns[k][n])
             /\ \A j \in Slots(k, n) :
                   fns'[k][n][j] = IF k = l /\ n = m /\ j = i
                                   THEN content ELSE fns[k][n][j]
  BY PutCells DEF RegistryInv
<1>2. due' = [w \in Walkers |-> due[w] \ {old}]
  BY InUseTyped DEF PutInto, RegistryInv
<1> HIDE DEF m, old
<1>3. content \notin {Csrf} /\ \A w \in Walkers : content \notin Range(ran[w])
  <2>1. CASE content = NoFn
    <3>1. \A w \in Walkers : Range(ran[w]) \subseteq Fns
      BY DEF WalkInv, Range
    <3> QED
      BY <2>1, <3>1, ListsOfFns DEF Fns
  <2>2. CASE content # NoFn
    BY <2>2, ListsOfFns DEF KnownInv
  <2> QED
    BY <2>1, <2>2
<1>4. /\ due' \in [Walkers -> SUBSET Fns]
      /\ \A w \in Walkers : due'[w] = due[w] \ {old}
  BY <1>2 DEF WalkInv
<1>5. ASSUME NEW w \in Walkers PROVE Walking(w)'
  <2>1. /\ stage'[w] = stage[w] /\ walk'[w] = walk[w] /\ ran'[w] = ran[w]
        /\ Walking(w)
    BY DEF WalkInv
  <2>2. ASSUME stage[w] \in Lists
        PROVE  Ahead(w, stage[w], walk[w].array, walk[w].at)'
    <3> DEFINE k == stage[w]
               n == walk[w].array
               at == walk[w].at
    <3>1. Ahead(w, k, n, at)
      BY <2>1, <2>2 DEF Walking
    <3> HIDE DEF k, n, at
    <3>2. k \in Lists /\ n \in Arrays(k)
      BY <2>2, <3>1 DEF Ahead, k
    <3>3. /\ n \in 1 .. Len(fns'[k]) /\ at \in 1 .. Len(fns'[k][n])
          /\ Len(fns'[k][n]) = Len(fns[k][n])
      BY <1>1, <3>1, <3>2 DEF Ahead, Arrays, Slots
    <3>4. ASSUME NEW j \in Slots(k, n), j > at
          PROVE  fns'[k][n][j] \notin Range(ran[w])
      BY <1>1, <1>3, <3>1, <3>2, <3>4 DEF Ahead
    <3>5. ASSUME NEW f \in due[w], f # old, f \notin Range(ran[w])
          PROVE  \E j \in Slots(k, n) : j > at /\ fns'[k][n][j] = f
      <4>1. PICK j \in Slots(k, n) : j > at /\ fns[k][n][j] = f
        BY <3>1, <3>5 DEF Ahead
      <4>2. ~(k = l /\ n = m /\ j = i)
        BY <3>5, <4>1 DEF old
      <4> QED
        BY <1>1, <3>2, <4>1, <4>2
    <3> QED
      BY <1>4, <2>1, <3>3, <3>4, <3>5 DEF Ahead, Arrays, Slots, k, n, at
  <2> QED
    BY <1>4, <2>1, <2>2 DEF Walking, ListOf, Behind
<1> QED
  BY <1>4, <1>5 DEF WalkInv

\* The walks when a list grows at its end, or gets a new array.
LEMMA GrowthKeepsWalks ==
    ASSUME RegistryInv, WalkInv, KnownInv, UNCHANGED <<stage, walk, ran, due>>,
           \A k \in Lists : Arrays(k) \subseteq 1 .. Len(fns'[k]),
           \A k \in Lists : \A n \in Arrays(k) :
               /\ Slots(k, n) \subseteq 1 .. Len(fns'[k][n])
               /\ \A j \in Slots(k, n) : fns'[k][n][j] = fns[k][n][j]
               /\ \A j \in 1 .. Len(fns'[k][n]) \ Slots(k, n) :
                     \A w \in Walkers : fns'[k][n][j] \notin Range(ran[w])
    PROVE  WalkInv'
<1>1. ASSUME NEW w \in Walkers PROVE Walking(w)'
  <2>1. /\ stage'[w] = stage[w] /\ walk'[w] = walk[w] /\ ran'[w] = ran[w]
        /\ due'[w] = due[w] /\ Walking(w)
    BY DEF WalkInv
  <2>2. ASSUME stage[w] \in Lists
        PROVE  Ahead(w, stage[w], walk[w].array, walk[w].at)'
    <3> DEFINE k == stage[w]
               n == walk[w].array
               at == walk[w].at
    <3>1. Ahead(w, k, n, at)
      BY <2>1, <2>2 DEF Walking
    <3> HIDE DEF k, n, at
    <3>2. k \in Lists /\ n \in Arrays(k) /\ at \in Slots(k, n)
      BY <2>2, <3>1 DEF Ahead, k
    <3>3. n \in 1 .. Len(fns'[k]) /\ at \in 1 .. Len(fns'[k][n])
      BY <3>2
    <3>4. ASSUME NEW j \in 1 .. Len(fns'[k][n]), j > at
          PROVE  fns'[k][n][j] \notin Range(ran[w])
      BY <3>1, <3>2, <3>4 DEF Ahead, Slots
    <3>5. ASSUME NEW f \in due[w], f \notin Range(ran[w])
          PROVE  \E j \in 1 .. Len(fns'[k][n]) : j > at /\ fns'[k][n][j] = f
      <4>1. PICK j \in Slots(k, n) : j > at /\ fns[k][n][j] = f
        BY <3>1, <3>5 DEF Ahead
      <4> QED
        BY <3>2, <4>1 DEF Slots
    <3> QED
      BY <2>1, <3>3, <3>4, <3>5 DEF Ahead, Arrays, Slots, k, n, at
  <2> QED
    BY <2>1, <2>2 DEF Walking, ListOf, Behind
<1> QED
  BY <1>1 DEF WalkInv

LEMMA UseKeepsWalks ==
    ASSUME RegistryInv, WalkInv, KnownInv, NEW f \in Installs, Use(f)
    PROVE  WalkInv'
<1> DEFINE l == ListOf(f)
           m == Len(fns[l])
<1>1. l \in Lists /\ home[f] = 0 /\ f # Csrf /\ InUse(l) = fns[l][m]
  BY ListsOfFns, InUseTyped DEF Use, Fns, RegistryInv
<1>2. /\ \A k \in Lists : Len(fns'[k]) = Len(fns[k])
      /\ \A k \in Lists : \A n \in Arrays(k) :
             /\ Len(fns'[k][n]) = IF k = l /\ n = Len(fns[l])
                                  THEN Len(fns[k][n]) + 1 ELSE Len(fns[k][n])
             /\ \A j \in Slots(k, n) : fns'[k][n][j] = fns[k][n][j]
      /\ fns'[l][Len(fns[l])][Len(InUse(l)) + 1] = f
  BY <1>1, UseCells DEF RegistryInv
<1>3. \A w \in Walkers : f \notin Range(ran[w])
  BY <1>1 DEF KnownInv
<1> HIDE DEF l, m
<1>4. \A k \in Lists : Arrays(k) \subseteq 1 .. Len(fns'[k])
  BY <1>2 DEF Arrays
<1>5. ASSUME NEW k \in Lists, NEW n \in Arrays(k)
      PROVE  /\ Slots(k, n) \subseteq 1 .. Len(fns'[k][n])
             /\ \A j \in 1 .. Len(fns'[k][n]) \ Slots(k, n) :
                   fns'[k][n][j] = f
  <2>1. Len(fns[k][n]) \in Nat
    BY InUseTyped DEF RegistryInv
  <2>2. CASE k = l /\ n = m
    <3>1. Len(fns'[k][n]) = Len(fns[k][n]) + 1
      BY <1>2, <2>2 DEF m
    <3>2. fns'[k][n][Len(fns[k][n]) + 1] = f
      BY <1>1, <1>2, <2>2 DEF m
    <3> QED
      BY <2>1, <3>1, <3>2 DEF Slots
  <2>3. CASE ~(k = l /\ n = m)
    BY <1>2, <2>3 DEF Slots, m
  <2> QED
    BY <2>2, <2>3
<1>6. UNCHANGED <<stage, walk, ran, due>>
  BY DEF Use, callVars
<1> QED
  BY <1>2, <1>3, <1>4, <1>5, <1>6, GrowthKeepsWalks

LEMMA ClearKeepsWalks ==
    ASSUME RegistryInv, WalkInv, KnownInv, NEW l \in Lists, Clear(l)
    PROVE  WalkInv'
<1>1. /\ \A k \in Lists : Len(fns'[k]) = IF k = l THEN Len(fns[k]) + 1
                                         ELSE Len(fns[k])
      /\ \A k \in Lists : \A n \in Arrays(k) : fns'[k][n] = fns[k][n]
  BY ClearCells DEF RegistryInv
<1>2. \A k \in Lists : Arrays(k) \subseteq 1 .. Len(fns'[k])
  <2> SUFFICES ASSUME NEW k \in Lists, NEW n \in Arrays(k)
               PROVE  n \in 1 .. Len(fns'[k])
    OBVIOUS
  <2>1. Len(fns[k]) \in Nat /\ n \in 1 .. Len(fns[k])
    BY DEF RegistryInv, RegistryTyped, Arrays
  <2>2. Len(fns'[k]) = Len(fns[k]) + 1 \/ Len(fns'[k]) = Len(fns[k])
    BY <1>1
  <2> QED
    BY <2>1, <2>2
<1>3. \A k \in Lists : \A n \in Arrays(k) :
          1 .. Len(fns'[k][n]) = Slots(k, n)
  BY <1>1 DEF Slots
<1>4. UNCHANGED <<stage, walk, ran, due>>
  BY DEF Clear, callVars
<1> QED
  BY <1>1, <1>2, <1>3, <1>4, GrowthKeepsWalks

\* All walks survive what is done to the lists.
LEMMA RegistryKeepsWalks ==
    RegistryInv /\ WalkInv /\ KnownInv /\ Registry => WalkInv' /\ KnownInv'
<1> SUFFICES ASSUME RegistryInv, WalkInv, KnownInv, Registry
             PROVE  WalkInv' /\ KnownInv'
  OBVIOUS
<1>1. NoFn \in Content /\ Installs \subseteq Content /\ NoFn \notin Installs
  BY ListsOfFns DEF Content, Fns
<1>2. ASSUME NEW f \in Installs, Eject(f) \/ EjectFunction(f)
      PROVE  WalkInv' /\ UNCHANGED <<ran, home>>
  <2>1. PICK i : Filled(ListOf(f), i) /\ PutInto(ListOf(f), i, NoFn)
    BY <1>1, <1>2 DEF Eject, EjectFunction, FirstOf, Holds, Filled
  <2>2. /\ UNCHANGED <<stage, walk, ran, home>> /\ ListOf(f) \in Lists
        /\ NoFn \in Content
    BY <1>1, <1>2, ListsOfFns DEF Eject, EjectFunction, calling, Fns
  <2> QED
    BY <2>1, <2>2, PutKeepsWalks
<1>3. ASSUME NEW f \in Installs, NEW g \in Installs,
             Update(f, g) \/ UpdateFunction(f, g)
      PROVE  WalkInv' /\ KnownInv'
  <2>0. PICK i : Filled(ListOf(f), i) /\ PutInto(ListOf(f), i, g)
    BY <1>1, <1>3 DEF Update, UpdateFunction, FirstOf, Holds, Filled
  <2>1. /\ UNCHANGED <<stage, walk, ran>> /\ ListOf(f) \in Lists
        /\ g \in Content /\ home[g] = 0
        /\ home' = [home EXCEPT ![g] = Len(fns[ListOf(f)])]
    BY <1>1, <1>3, ListsOfFns
    DEF Update, UpdateFunction, Replacement, calling, Fns
  <2>2. Len(fns[ListOf(f)]) # 0 /\ home \in [Installs -> Nat]
    BY <2>1 DEF RegistryInv, RegistryTyped
  <2>3. \A h : home[h] # 0 /\ h \in Installs => home'[h] # 0
    BY <2>1, <2>2
  <2>4. \A w \in Walkers : Range(ran[w]) \subseteq Fns
    BY DEF WalkInv, Range
  <2> QED
    BY <2>0, <2>1, <2>3, <2>4, PutKeepsWalks DEF KnownInv, Fns
<1>4. ASSUME NEW f \in Installs, Use(f) PROVE KnownInv'
  <2>1. /\ UNCHANGED ran /\ home' = [home EXCEPT ![f] = Len(fns[ListOf(f)])]
        /\ ListOf(f) \in Lists
    BY <1>4, ListsOfFns DEF Use, callVars, Fns
  <2>2. Len(fns[ListOf(f)]) # 0 /\ home \in [Installs -> Nat]
    BY <2>1 DEF RegistryInv, RegistryTyped
  <2>3. \A h : home[h] # 0 /\ h \in Installs => home'[h] # 0
    BY <2>1, <2>2
  <2>4. \A w \in Walkers : Range(ran[w]) \subseteq Fns
    BY DEF WalkInv, Range
  <2> QED
    BY <2>1, <2>3, <2>4 DEF KnownInv, Fns
<1>5. ASSUME NEW l \in Lists, Clear(l) PROVE UNCHANGED <<ran, home>>
  BY <1>5 DEF Clear, callVars
<1>6. CASE SetConfig
  <2>1. UNCHANGED <<fns, home, stage, walk, ran, due>>
    BY <1>6 DEF SetConfig, callVars, registryVars
  <2>2. ASSUME NEW w \in Walkers PROVE Walking(w)'
    <3>1. Walking(w)
      BY DEF WalkInv
    <3> QED
      BY <2>1, <3>1 DEF Walking, Ahead, Arrays, Slots, ListOf, Behind
  <2> QED
    BY <2>1, <2>2 DEF KnownInv, WalkInv
<1> QED
  BY <1>2, <1>3, <1>4, <1>5, <1>6, UseKeepsWalks, ClearKeepsWalks
  DEF Registry, KnownInv

-----------------------------------------------------------------------------
(* Every step keeps the places and the walks.                              *)

ApiInv == RegistryInv /\ WalkInv /\ KnownInv

\* Nobody calls what was taken out.
CallsPresent ==
    \A w \in Walkers : ran'[w] # ran[w] /\ ran'[w] # <<>>
                       => Last(ran'[w]) \notin withdrawn

LEMMA CalledKeeps ==
    ASSUME ApiInv, WalkInv', NEW w \in Walkers,
           NEW before \in {<<>>, ran[w]}, Called(w, before),
           UNCHANGED <<app, registryVars>>
    PROVE  ApiInv' /\ CallsPresent
<1>1. RegistryInv'
  BY CallsLeavePlaces DEF ApiInv
<1>2. /\ \A v \in Walkers \ {w} : ran'[v] = ran[v]
      /\ \/ ran'[w] = before
         \/ \E f \in Fns : /\ f \notin withdrawn
                           /\ f = Csrf \/ home[f] # 0
                           /\ Last(ran'[w]) = f
                           /\ Range(ran'[w]) = Range(before) \union {f}
  BY DEF Called
<1>3. Range(before) \subseteq Range(ran[w])
  BY DEF Range
<1>4. CallsPresent
  BY <1>2 DEF CallsPresent
<1>5. KnownInv'
  <2>1. ASSUME NEW v \in Walkers, NEW f \in Range(ran'[v])
        PROVE  f = Csrf \/ home[f] # 0
    <3>1. CASE v = w
      BY <1>2, <1>3, <2>1, <3>1 DEF ApiInv, KnownInv
    <3>2. CASE v # w
      BY <1>2, <2>1, <3>2 DEF ApiInv, KnownInv
    <3> QED
      BY <3>1, <3>2
  <2> QED
    BY <2>1 DEF KnownInv, registryVars
<1> QED
  BY <1>1, <1>4, <1>5 DEF ApiInv

\* What enters a list, goes on in it, and rests.
LEMMA EnterKeeps ==
    ASSUME ApiInv, NEW w \in Walkers, NEW l \in Lists,
           NEW before, Enter(w, l, before), UNCHANGED <<app, registryVars>>,
           \/ /\ w = Stream /\ l = "request" /\ before = <<>>
           \/ /\ w # Stream /\ before = ran[w]
              /\ Behind(stage[w]) \subseteq Behind(l) \ {l}
    PROVE  ApiInv' /\ CallsPresent
<1>1. UNCHANGED <<fns, withdrawn>> /\ before \in {<<>>, ran[w]}
  BY DEF registryVars
<1>2. WalkInv' /\ Called(w, before)
  BY <1>1, EnterKeepsWalks DEF ApiInv
<1> QED
  BY <1>1, <1>2, CalledKeeps

LEMMA GoOnKeeps ==
    ASSUME ApiInv, NEW w \in Walkers, stage[w] \in Lists,
           GoOn(w), UNCHANGED <<app, registryVars>>
    PROVE  ApiInv' /\ CallsPresent
<1>1. UNCHANGED <<fns, withdrawn>>
  BY DEF registryVars
<1>2. WalkInv' /\ Called(w, ran[w])
  BY <1>1, GoOnKeepsWalks DEF ApiInv
<1> QED
  BY <1>2, CalledKeeps

LEMMA RestKeeps ==
    ASSUME ApiInv, NEW w \in Walkers, NEW s \in Stages \ Lists,
           UNCHANGED <<app, registryVars, walk, ran>>,
           stage' = [stage EXCEPT ![w] = s],
           \/ stage[w] \notin Lists /\ due' = due
           \/ due' = [due EXCEPT ![w] = {}],
           IF w = Stream THEN s = "idle"
           ELSE Behind(stage[w]) \subseteq Behind(s)
    PROVE  ApiInv' /\ CallsPresent
<1>1. UNCHANGED fns
  BY DEF registryVars
<1>2. WalkInv'
  BY <1>1, RestKeepsWalks DEF ApiInv
<1>3. Called(w, ran[w])
  BY DEF Called
<1> QED
  BY <1>2, <1>3, CalledKeeps, SMTT(30)

\* The steps of a call.
LEMMA HandleKeeps ==
    ASSUME ApiInv, NEW c \in Calls, Handle(c)
    PROVE  ApiInv' /\ CallsPresent
<1>1. /\ c \in Walkers /\ c # Stream
      /\ "request" \in Lists /\ "response" \in Lists /\ "error" \in Lists
      /\ {"before", "check", "settled"} \subseteq Stages \ Lists
      /\ Behind("request") \ {"request"} = {}
      /\ Behind("response") \ {"response"} = {"request"}
      /\ Behind("error") \ {"error"} = {"request", "response"}
  BY ApiClientAssumption DEF Walkers, Lists, Stages, Behind
<1>2. CASE Call(c)
  <2>1. /\ stage[c] = "idle" /\ stage' = [stage EXCEPT ![c] = "before"]
        /\ due' = due /\ UNCHANGED <<app, registryVars, walk, ran>>
    BY <1>2 DEF Call
  <2>2. stage[c] \notin Lists /\ Behind(stage[c]) \subseteq Behind("before")
    BY <2>1 DEF Lists, Behind
  <2> QED
    BY <1>1, <2>1, <2>2, RestKeeps
<1>3. CASE Prepare(c)
  <2>1. /\ stage[c] = "before" /\ Enter(c, "request", ran[c])
        /\ UNCHANGED <<app, registryVars>>
    BY <1>3 DEF Prepare, outside
  <2>2. Behind(stage[c]) \subseteq Behind("request") \ {"request"}
    BY <2>1 DEF Behind
  <2> QED
    BY <1>1, <2>1, <2>2, EnterKeeps
<1>4. CASE PrepareFails(c) \/ RequestThrows(c) \/ FetchRejects(c)
           \/ ResponseThrows(c) \/ BodyFails(c) \/ CheckFails(c) \/ BadStatus(c)
  <2>1. /\ stage[c] \in {"before", "request", "fetch", "response", "answered",
                         "check"}
        /\ \E e : Throw(c, e)
        /\ UNCHANGED outside
    BY <1>4 DEF PrepareFails, RequestThrows, FetchRejects, ResponseThrows,
       BodyFails, CheckFails, BadStatus
  <2>2. Enter(c, "error", ran[c]) /\ UNCHANGED <<app, registryVars>>
    BY <2>1 DEF Throw, outside
  <2>3. Behind(stage[c]) \subseteq Behind("error") \ {"error"}
    BY <1>1, <2>1 DEF Behind
  <2> QED
    BY <1>1, <2>2, <2>3, EnterKeeps
<1>5. CASE RequestReturned(c) \/ ResponseReturned(c) \/ ErrorReturned(c)
  <2>1. /\ stage[c] \in Lists /\ GoOn(c) /\ UNCHANGED <<app, registryVars>>
    BY <1>1, <1>5 DEF RequestReturned, ResponseReturned, ErrorReturned, outside
  <2> QED
    BY <1>1, <2>1, GoOnKeeps
<1>6. CASE FetchAnswers(c)
  <2>1. /\ stage[c] = "fetch" /\ Enter(c, "response", ran[c])
        /\ UNCHANGED <<app, registryVars>>
    BY <1>6 DEF FetchAnswers, outside
  <2>2. Behind(stage[c]) \subseteq Behind("response") \ {"response"}
    BY <1>1, <2>1 DEF Behind
  <2> QED
    BY <1>1, <2>1, <2>2, EnterKeeps
<1>7. CASE Resolve(c) \/ CheckPasses(c) \/ Report(c)
  <2>1. /\ stage[c] \in {"answered", "check", "failed"}
        /\ stage' = [stage EXCEPT ![c] = "settled"] /\ due' = due
        /\ UNCHANGED <<app, registryVars, walk, ran>>
    BY <1>7 DEF Resolve, CheckPasses, Report, Settle, outside
  <2>2. stage[c] \notin Lists /\ Behind(stage[c]) \subseteq Behind("settled")
    BY <2>1 DEF Lists, Behind
  <2> QED
    BY <1>1, <2>1, <2>2, RestKeeps
<1>8. CASE ReadBody(c)
  <2>1. /\ stage[c] = "answered" /\ stage' = [stage EXCEPT ![c] = "check"]
        /\ due' = due /\ UNCHANGED <<app, registryVars, walk, ran>>
    BY <1>8 DEF ReadBody, outside
  <2>2. stage[c] \notin Lists /\ Behind(stage[c]) \subseteq Behind("check")
    BY <2>1 DEF Lists, Behind
  <2> QED
    BY <1>1, <2>1, <2>2, RestKeeps
<1>9. CASE ErrorThrows(c)
  <2>1. /\ stage[c] = "error" /\ stage' = [stage EXCEPT ![c] = "settled"]
        /\ due' = [due EXCEPT ![c] = {}]
        /\ UNCHANGED <<app, registryVars, walk, ran>>
    BY <1>9 DEF ErrorThrows, Settle, outside
  <2>2. Behind(stage[c]) \subseteq Behind("settled")
    BY <2>1 DEF Behind, Lists
  <2> QED
    BY <1>1, <2>1, <2>2, RestKeeps
<1> QED
  BY <1>2, <1>3, <1>4, <1>5, <1>6, <1>7, <1>8, <1>9 DEF Handle

\* Every step of the client.
LEMMA StepKeeps ==
    ASSUME ApiInv, [BrowserNext]_browserVars
    PROVE  ApiInv' /\ CallsPresent
<1>1. CASE UNCHANGED apiVars
  BY <1>1 DEF apiVars, callVars, registryVars, ApiInv, RegistryInv, WalkInv,
     KnownInv, RegistryTyped, Homed, Single, Identified, CsrfFirst, Arrays,
     Slots, ListOf, Walking, Ahead, Behind, CallsPresent
<1>2. Stream \in Walkers /\ "request" \in Lists /\ "idle" \in Stages \ Lists
  BY DEF Walkers, Lists, Stages
<1>3. CASE StreamAttempt
  <2>1. Enter(Stream, "request", <<>>) /\ UNCHANGED <<app, registryVars>>
    BY <1>3 DEF StreamAttempt, outside
  <2> QED
    BY <1>2, <2>1, EnterKeeps
<1>4. CASE StreamRequestReturned
  <2>1. /\ stage[Stream] \in Lists /\ GoOn(Stream)
        /\ UNCHANGED <<app, registryVars>>
    BY <1>2, <1>4 DEF StreamRequestReturned, RequestReturned, outside
  <2> QED
    BY <1>2, <2>1, GoOnKeeps
<1>5. CASE HandOver
  <2>1. /\ stage' = [stage EXCEPT ![Stream] = "idle"]
        /\ due' = [due EXCEPT ![Stream] = {}]
        /\ UNCHANGED <<app, registryVars, walk, ran>>
    BY <1>5 DEF HandOver, outside
  <2> QED
    BY <1>2, <2>1, RestKeeps
<1>6. CASE Registry
  <2>1. UNCHANGED ran
    BY <1>6
    DEF Registry, Use, Eject, EjectFunction, Update, UpdateFunction, Clear,
        SetConfig, calling, callVars
  <2> QED
    BY <1>6, <2>1, RegistryKeepsPlaces, RegistryKeepsWalks
    DEF ApiInv, CallsPresent
<1> QED
  BY <1>1, <1>3, <1>4, <1>5, <1>6, HandleKeeps
  DEF BrowserNext, browserVars, StartStream, StreamConnect, StreamFetchFails,
      StreamGoesOn, Outside

\* At first nobody is on his way.
LEMMA ApiInitKeeps == ApiInit => ApiInv
<1> SUFFICES ASSUME ApiInit PROVE ApiInv
  OBVIOUS
<1>1. \A w \in Walkers : /\ stage[w] = "idle" /\ ran[w] = <<>> /\ due[w] = {}
                         /\ walk[w] = [array |-> 1, at |-> 0]
  BY DEF ApiInit
<1>2. /\ <<>> \in Seq(Fns) /\ IsInjective(<<>>) /\ Range(<<>>) = {}
      /\ "idle" \in Stages \ Lists /\ Stream \in Walkers
  BY DEF IsInjective, Range, Stages, Lists, Walkers
<1>3. WalkInv
  <2>1. /\ stage \in [Walkers -> Stages] /\ ran \in [Walkers -> Seq(Fns)]
        /\ walk \in [Walkers -> [array : Nat, at : Nat]]
        /\ due \in [Walkers -> SUBSET Fns]
    BY <1>2 DEF ApiInit
  <2> QED
    BY <1>1, <1>2, <2>1 DEF WalkInv, Walking
<1>4. KnownInv
  BY <1>1, <1>2 DEF KnownInv
<1> QED
  BY <1>3, <1>4, PlacesInit DEF ApiInv

-----------------------------------------------------------------------------
(* The token of a request.                                                 *)

Requests == {"undefined", "plain", "token", "other"}

\* A request that met the interceptor of createBrowserApiClient has the token
\* if it needs one, and one that entered its array meets it first.
TokenInv ==
    /\ request \in [Walkers -> Requests]
    /\ \A w \in Walkers :
          /\ request[w] = "token" => asked[w].method \notin Safe
          /\ /\ stage[w] \in {"request", "fetch"}
             /\ app.token
             /\ walk[w].array = 1
             => \/ asked[w].method \in Safe
                \/ request[w] \in {"token", "other"}
                \/ stage[w] = "request" /\ Awaited(w) = Csrf

\* What a walk does to the stages.
LEMMA AdvanceStages ==
    ASSUME WalkInv, NEW w \in Walkers, NEW l, NEW n, NEW from, NEW before,
           Advance(w, l, n, from, before)
    PROVE  /\ stage'[w] \in {l, AfterWalk[l]} /\ walk'[w].array = n
           /\ \A v \in Walkers \ {w} : /\ stage'[v] = stage[v]
                                       /\ walk'[v] = walk[v]
                                       /\ ran'[v] = ran[v]
  BY DEF WalkInv, Advance

\* A request that enters the first array meets that interceptor first.
LEMMA EnterMeetsCsrf ==
    ASSUME ApiInv, NEW w \in Walkers, NEW before \in Seq(Fns),
           Enter(w, "request", before), app.token, Len(fns["request"]) = 1
    PROVE  stage'[w] = "request" /\ Last(ran'[w]) = Csrf
<1> DEFINE array == fns["request"][1]
           next == Following(array, 0)
<1>1. /\ array \in Seq(Content) /\ 1 \in 1 .. Len(array) /\ array[1] = Csrf
      /\ Csrf # NoFn
  <2>1. "request" \in Lists
    BY DEF Lists
  <2> QED
    BY <2>1, InUseTyped, ListsOfFns
    DEF ApiInv, RegistryInv, CsrfFirst, Slots, Arrays, Fns
<1>2. next = 1
  <2>1. \/ /\ next = 0
           /\ \A j \in 1 .. Len(array) : j > 0 => array[j] = NoFn
        \/ /\ next \in 1 .. Len(array) /\ next > 0
           /\ array[next] # NoFn /\ array[next] \in Fns
           /\ \A j \in 1 .. Len(array) : j > 0 /\ j < next => array[j] = NoFn
    BY <1>1, FollowingSlot
  <2> HIDE DEF next, array
  <2> QED
    BY <1>1, <2>1
<1>3. /\ stage' = [stage EXCEPT ![w] = IF next = 0 THEN "fetch" ELSE "request"]
      /\ ran' = [ran EXCEPT ![w] = IF next = 0 THEN before
                                   ELSE Append(before, array[next])]
  BY DEF Enter, Advance, AfterWalk
<1>4. stage'[w] = "request" /\ ran'[w] = Append(before, Csrf)
  BY <1>1, <1>2, <1>3 DEF ApiInv, WalkInv
<1>5. Last(Append(before, Csrf)) = Csrf
  BY DEF Last
<1> QED
  BY <1>4, <1>5

\* A new request enters the list.
LEMMA EnterKeepsToken ==
    ASSUME ApiInv, TokenInv, NEW w \in Walkers, NEW before \in Seq(Fns),
           Enter(w, "request", before), UNCHANGED <<app, asked>>,
           request' = [request EXCEPT ![w] = "plain"]
    PROVE  TokenInv'
<1>1. /\ stage'[w] \in {"request", "fetch"}
      /\ walk'[w].array = Len(fns["request"])
      /\ \A v \in Walkers \ {w} : /\ stage'[v] = stage[v]
                                  /\ walk'[v] = walk[v] /\ ran'[v] = ran[v]
  BY AdvanceStages DEF Enter, ApiInv, AfterWalk
<1>2. app.token /\ walk'[w].array = 1
      => stage'[w] = "request" /\ Last(ran'[w]) = Csrf
  BY <1>1, EnterMeetsCsrf
<1>3. /\ request' \in [Walkers -> Requests] /\ request'[w] = "plain"
      /\ \A v \in Walkers \ {w} : request'[v] = request[v]
  BY DEF TokenInv, Requests
<1>4. app' = app /\ asked' = asked
  OBVIOUS
<1> DEFINE Kept(v) ==
       /\ request[v] = "token" => asked[v].method \notin Safe
       /\ stage[v] \in {"request", "fetch"} /\ app.token /\ walk[v].array = 1
          => \/ asked[v].method \in Safe
             \/ request[v] \in {"token", "other"}
             \/ stage[v] = "request" /\ Awaited(v) = Csrf
<1>5. ASSUME NEW v \in Walkers \ {w} PROVE Kept(v)'
  <2>1. Kept(v)
    BY DEF TokenInv
  <2>2. /\ stage'[v] = stage[v] /\ walk'[v] = walk[v] /\ ran'[v] = ran[v]
        /\ request'[v] = request[v]
    BY <1>1, <1>3
  <2> QED
    BY <1>4, <2>1, <2>2 DEF Awaited
<1>6. Kept(w)'
  BY <1>2, <1>3, <1>4 DEF Awaited
<1> QED
  BY <1>3, <1>5, <1>6 DEF TokenInv

\* An interceptor for requests returns.
LEMMA ReturnKeepsToken ==
    ASSUME ApiInv, TokenInv, NEW w \in Walkers, RequestReturned(w)
    PROVE  TokenInv'
<1>1. /\ stage[w] = "request" /\ UNCHANGED <<app, asked>>
      /\ stage'[w] \in {"request", "fetch"}
      /\ walk'[w].array = walk[w].array
      /\ \A v \in Walkers \ {w} : /\ stage'[v] = stage[v]
                                  /\ walk'[v] = walk[v] /\ ran'[v] = ran[v]
  BY AdvanceStages
  DEF RequestReturned, GoOn, ApiInv, AfterWalk, outside
<1>2. PICK r \in IF Awaited(w) # Csrf THEN {request[w], "other"}
                 ELSE IF asked[w].method \in Safe THEN {request[w]}
                 ELSE {"token"} :
          request' = [request EXCEPT ![w] = r]
  BY DEF RequestReturned
<1>3. /\ request' \in [Walkers -> Requests] /\ request'[w] = r
      /\ \A v \in Walkers \ {w} : request'[v] = request[v]
  BY <1>2 DEF TokenInv, Requests
<1>4. /\ r = "token" => asked[w].method \notin Safe
      /\ app.token /\ walk[w].array = 1
            => asked[w].method \in Safe \/ r \in {"token", "other"}
  BY <1>1, <1>2 DEF TokenInv
<1> QED
  BY <1>1, <1>3, <1>4 DEF TokenInv, Awaited

\* A request that is done with needs no token.
LEMMA LeaveKeepsToken ==
    ASSUME TokenInv, NEW w \in Walkers, UNCHANGED <<app, asked, request>>,
           stage'[w] \notin {"request", "fetch"},
           \A v \in Walkers \ {w} : /\ stage'[v] = stage[v]
                                    /\ walk'[v] = walk[v] /\ ran'[v] = ran[v]
    PROVE  TokenInv'
  BY DEF TokenInv, Awaited

LEMMA StepKeepsToken ==
    ASSUME ApiInv, TokenInv, [BrowserNext]_browserVars
    PROVE  TokenInv'
<1>1. CASE UNCHANGED apiVars
  BY <1>1 DEF apiVars, callVars, TokenInv, Awaited
<1>2. CASE Registry
  BY <1>2
  DEF Registry, Use, Eject, EjectFunction, Update, UpdateFunction, Clear,
      SetConfig, calling, callVars, TokenInv, Awaited
<1>3. Stream \in Walkers /\ Calls \subseteq Walkers /\ WalkInv
  BY DEF Walkers, ApiInv
<1>4. CASE StreamAttempt
  <2>1. <<>> \in Seq(Fns)
    OBVIOUS
  <2> QED
    BY <1>3, <1>4, <2>1, EnterKeepsToken DEF StreamAttempt, outside
<1>5. CASE StreamRequestReturned
  BY <1>3, <1>5, ReturnKeepsToken DEF StreamRequestReturned
<1>6. CASE HandOver
  <2>1. /\ UNCHANGED <<app, asked, request, walk, ran>>
        /\ stage' = [stage EXCEPT ![Stream] = "idle"]
    BY <1>6 DEF HandOver, outside
  <2>2. /\ stage'[Stream] = "idle"
        /\ \A v \in Walkers \ {Stream} : stage'[v] = stage[v]
    BY <1>3, <2>1 DEF WalkInv
  <2> QED
    BY <1>3, <2>1, <2>2, LeaveKeepsToken
<1>7. ASSUME NEW c \in Calls, Prepare(c) PROVE TokenInv'
  <2>1. ran[c] \in Seq(Fns)
    BY <1>3 DEF WalkInv
  <2> QED
    BY <1>3, <1>7, <2>1, EnterKeepsToken DEF Prepare, outside
<1>8. ASSUME NEW c \in Calls, RequestReturned(c) PROVE TokenInv'
  BY <1>3, <1>8, ReturnKeepsToken
<1>9. ASSUME NEW c \in Calls, NEW l \in {"response", "error"},
             Enter(c, l, ran[c]) \/ (stage[c] = l /\ GoOn(c)),
             UNCHANGED <<app, asked, request>>
      PROVE  TokenInv'
  <2>1. /\ stage'[c] \in {l, AfterWalk[l]}
        /\ \A v \in Walkers \ {c} : /\ stage'[v] = stage[v]
                                    /\ walk'[v] = walk[v] /\ ran'[v] = ran[v]
    BY <1>3, <1>9, AdvanceStages DEF Enter, GoOn
  <2>2. stage'[c] \notin {"request", "fetch"}
    BY <2>1 DEF AfterWalk, Lists
  <2> QED
    BY <1>3, <1>9, <2>1, <2>2, LeaveKeepsToken
<1>10. ASSUME NEW c \in Calls, NEW s \in {"before", "check", "settled"},
              stage' = [stage EXCEPT ![c] = s],
              UNCHANGED <<app, asked, request, walk, ran>>
       PROVE  TokenInv'
  BY <1>3, <1>10, LeaveKeepsToken DEF WalkInv
<1>11. ASSUME NEW c \in Calls, Handle(c) PROVE TokenInv'
  <2>1. CASE Call(c) \/ ReadBody(c)
    BY <1>10, <2>1 DEF Call, ReadBody, outside
  <2>2. CASE Resolve(c) \/ CheckPasses(c) \/ Report(c) \/ ErrorThrows(c)
    BY <1>10, <2>2 DEF Resolve, CheckPasses, Report, ErrorThrows, Settle,
       outside
  <2>3. CASE \/ PrepareFails(c) \/ RequestThrows(c) \/ FetchRejects(c)
             \/ ResponseThrows(c) \/ BodyFails(c) \/ CheckFails(c)
             \/ BadStatus(c)
    BY <1>9, <2>3 DEF PrepareFails, RequestThrows, FetchRejects,
       ResponseThrows, BodyFails, CheckFails, BadStatus, Throw, outside
  <2>4. CASE FetchAnswers(c) \/ ResponseReturned(c) \/ ErrorReturned(c)
    BY <1>9, <2>4 DEF FetchAnswers, ResponseReturned, ErrorReturned, outside
  <2> QED
    BY <1>7, <1>8, <1>11, <2>1, <2>2, <2>3, <2>4 DEF Handle
<1> QED
  BY <1>1, <1>2, <1>4, <1>5, <1>6, <1>11
  DEF BrowserNext, browserVars, StartStream, StreamConnect, StreamFetchFails,
      StreamGoesOn, Outside

-----------------------------------------------------------------------------
(* What callers are told.                                                  *)

Failures == {"none", "error", "nothing", "thrown"}
Answers == {"pending", "data", "error", "undefined", "rejected"}

\* What a call is told, stage by stage.
Told(c) ==
    IF stage[c] = "settled"
    THEN /\ answer[c] = "rejected" => throws[c] \/ failure[c] = "thrown"
         /\ answer[c] \in {"error", "undefined"} => ~throws[c]
         /\ answer[c] = "data" <=> failure[c] = "none"
         /\ failure[c] # "nothing"
    ELSE IF stage[c] \in {"error", "failed"}
    THEN failure[c] \in {"error", "nothing"}
    ELSE failure[c] = "none"

ToldTyped ==
    /\ failure \in [Calls -> Failures]
    /\ answer \in [Calls -> Answers]
    /\ throws \in [Calls -> BOOLEAN]
    /\ throwing \in BOOLEAN
    /\ asked \in [Walkers -> CallOptions]

\* A failure is one from when it is met until it is settled.
ToldInv == ToldTyped /\ \A c \in Calls : Told(c)

\* A step of one call tells the others nothing.
LEMMA OneIsTold ==
    ASSUME ToldInv, ToldTyped', NEW c \in Calls, Told(c)',
           \A d \in Calls \ {c} : /\ stage'[d] = stage[d]
                                  /\ failure'[d] = failure[d]
                                  /\ answer'[d] = answer[d]
                                  /\ throws'[d] = throws[d]
    PROVE  ToldInv'
<1>1. ASSUME NEW d \in Calls, d # c PROVE Told(d)'
  BY <1>1 DEF ToldInv, Told
<1> QED
  BY <1>1 DEF ToldInv

\* catch, and what goes on in a list.
LEMMA WalkTells ==
    ASSUME ToldInv, WalkInv, NEW c \in Calls, NEW l \in Lists,
           NEW n, NEW from, NEW before, NEW e \in Failures,
           Advance(c, l, n, from, before),
           failure' = [failure EXCEPT ![c] = e],
           IF l = "error" THEN e \in {"error", "nothing"} ELSE e = "none",
           UNCHANGED <<asked, throwing, throws, answer>>
    PROVE  ToldInv'
<1>1. /\ stage'[c] \in {l, AfterWalk[l]}
      /\ \A v \in Walkers \ {c} : stage'[v] = stage[v]
  BY AdvanceStages DEF Walkers
<1>2. /\ ToldTyped' /\ failure'[c] = e
      /\ \A d \in Calls \ {c} : failure'[d] = failure[d]
  BY DEF ToldInv, ToldTyped
<1>3. Told(c)'
  <2>1. CASE l = "error"
    BY <1>1, <1>2, <2>1 DEF Told, AfterWalk, Lists
  <2>2. CASE l # "error"
    <3>1. stage'[c] \notin {"settled", "error", "failed"}
      BY <1>1, <2>2 DEF AfterWalk, Lists
    <3> QED
      BY <1>2, <2>2, <3>1 DEF Told
  <2> QED
    BY <2>1, <2>2
<1> QED
  BY <1>1, <1>2, <1>3, OneIsTold DEF Walkers

\* A call is settled.
LEMMA SettleTells ==
    ASSUME ToldInv, WalkInv, NEW c \in Calls, NEW e \in Failures,
           NEW a \in Answers, Settle(c, a),
           failure' = [failure EXCEPT ![c] = e],
           a = "rejected" => throws[c] \/ e = "thrown",
           a \in {"error", "undefined"} => ~throws[c],
           a = "data" <=> e = "none",
           e # "nothing"
    PROVE  ToldInv'
<1>1. /\ stage' = [stage EXCEPT ![c] = "settled"]
      /\ answer' = [answer EXCEPT ![c] = a]
      /\ UNCHANGED <<asked, throwing, throws>>
  BY DEF Settle, outside
<1>2. ToldTyped'
  BY <1>1 DEF ToldInv, ToldTyped
<1>3. /\ stage'[c] = "settled" /\ answer'[c] = a /\ failure'[c] = e
      /\ \A d \in Calls \ {c} : /\ stage'[d] = stage[d]
                                /\ answer'[d] = answer[d]
                                /\ failure'[d] = failure[d]
  BY <1>1 DEF ToldInv, ToldTyped, WalkInv, Walkers
<1>4. Told(c)'
  BY <1>1, <1>3, Zenon DEF Told
<1> QED
  BY <1>1, <1>2, <1>3, <1>4, OneIsTold

\* The steps of a call.
LEMMA HandleTells ==
    ASSUME ToldInv, WalkInv, NEW c \in Calls, Handle(c)
    PROVE  ToldInv'
<1>1. /\ failure = [failure EXCEPT ![c] = failure[c]] /\ Told(c)
      /\ failure[c] \in Failures /\ c \in Walkers
      /\ {"none", "error", "nothing", "thrown"} \subseteq Failures
      /\ {"data", "error", "undefined", "rejected"} \subseteq Answers
      /\ {"request", "response", "error"} \subseteq Lists
  BY DEF ToldInv, ToldTyped, Walkers, Failures, Answers, Lists
<1>2. CASE Call(c)
  <2>1. /\ stage[c] = "idle" /\ stage' = [stage EXCEPT ![c] = "before"]
        /\ UNCHANGED <<asked, throwing, answer, failure>>
        /\ throws' = [throws EXCEPT ![c] =
              CASE asked[c].throwOnError = "undefined" -> throwing
                [] asked[c].throwOnError = "true" -> TRUE
                [] asked[c].throwOnError = "false" -> FALSE]
    BY <1>2 DEF Call
  <2>2. asked[c].throwOnError \in {"undefined", "true", "false"}
    BY <1>1, ApiClientAssumption DEF ToldInv, ToldTyped
  <2>3. throws' \in [Calls -> BOOLEAN]
    BY <2>1, <2>2 DEF ToldInv, ToldTyped
  <2>4. ToldTyped'
    BY <2>1, <2>3 DEF ToldInv, ToldTyped
  <2>5. failure[c] = "none" /\ stage'[c] = "before"
    BY <1>1, <2>1 DEF Told, WalkInv
  <2>6. Told(c)'
    BY <2>1, <2>5 DEF Told
  <2>7. \A d \in Calls \ {c} : stage'[d] = stage[d] /\ throws'[d] = throws[d]
    BY <2>1 DEF WalkInv, Walkers, ToldInv, ToldTyped
  <2> QED
    BY <2>1, <2>4, <2>6, <2>7, OneIsTold
<1>3. CASE Prepare(c) \/ FetchAnswers(c)
  <2>1. PICK l \in {"request", "response"} : Enter(c, l, ran[c])
    BY <1>3 DEF Prepare, FetchAnswers
  <2>2. /\ stage[c] \in {"before", "fetch"} /\ failure' = failure
        /\ UNCHANGED <<asked, throwing, throws, answer>>
    BY <1>3 DEF Prepare, FetchAnswers, outside
  <2>3. failure[c] = "none"
    BY <1>1, <2>2 DEF Told
  <2> QED
    BY <1>1, <2>1, <2>2, <2>3, WalkTells DEF Enter
<1>4. CASE RequestReturned(c) \/ ResponseReturned(c)
  <2>1. /\ stage[c] \in {"request", "response"} /\ GoOn(c)
        /\ failure' = failure /\ UNCHANGED <<asked, throwing, throws, answer>>
    BY <1>4 DEF RequestReturned, ResponseReturned, outside
  <2>2. failure[c] = "none"
    BY <1>1, <2>1 DEF Told
  <2> QED
    BY <1>1, <2>1, <2>2, WalkTells DEF GoOn
<1>5. CASE PrepareFails(c) \/ RequestThrows(c) \/ FetchRejects(c)
           \/ ResponseThrows(c) \/ BodyFails(c) \/ CheckFails(c) \/ BadStatus(c)
  <2>1. PICK e \in {"error", "nothing"} : Throw(c, e)
    BY <1>5 DEF PrepareFails, RequestThrows, FetchRejects, ResponseThrows,
       BodyFails, CheckFails, BadStatus
  <2>2. UNCHANGED <<asked, throwing, throws, answer>>
    BY <1>5 DEF PrepareFails, RequestThrows, FetchRejects, ResponseThrows,
       BodyFails, CheckFails, BadStatus, outside
  <2> QED
    BY <1>1, <2>1, <2>2, WalkTells DEF Throw, Enter
<1>6. CASE ErrorReturned(c)
  <2>1. PICK e \in {"error", "nothing"} : failure' = [failure EXCEPT ![c] = e]
    BY <1>6 DEF ErrorReturned
  <2>2. /\ stage[c] = "error" /\ GoOn(c)
        /\ UNCHANGED <<asked, throwing, throws, answer>>
    BY <1>6 DEF ErrorReturned, outside
  <2> QED
    BY <1>1, <2>1, <2>2, WalkTells DEF GoOn
<1>7. CASE Resolve(c) \/ CheckPasses(c)
  <2>1. /\ stage[c] \in {"answered", "check"} /\ Settle(c, "data")
        /\ failure' = failure
    BY <1>7 DEF Resolve, CheckPasses
  <2>2. failure[c] = "none"
    BY <1>1, <2>1 DEF Told
  <2> QED
    BY <1>1, <2>1, <2>2, SettleTells
<1>8. CASE ReadBody(c)
  <2>1. /\ stage[c] = "answered" /\ stage' = [stage EXCEPT ![c] = "check"]
        /\ UNCHANGED <<asked, throwing, throws, answer, failure>>
    BY <1>8 DEF ReadBody, outside
  <2>2. ToldTyped'
    BY <2>1 DEF ToldInv, ToldTyped
  <2>3. failure[c] = "none" /\ stage'[c] = "check"
    BY <1>1, <2>1 DEF Told, WalkInv
  <2>4. Told(c)'
    BY <2>1, <2>3 DEF Told
  <2>5. \A d \in Calls \ {c} : stage'[d] = stage[d]
    BY <2>1 DEF WalkInv, Walkers
  <2> QED
    BY <2>1, <2>2, <2>4, <2>5, OneIsTold
<1>9. CASE ErrorThrows(c)
  <2>1. Settle(c, "rejected") /\ failure' = [failure EXCEPT ![c] = "thrown"]
    BY <1>9 DEF ErrorThrows
  <2> QED
    BY <1>1, <2>1, SettleTells
<1>10. CASE Report(c)
  <2>1. /\ failure' = [failure EXCEPT ![c] = "error"]
        /\ Settle(c, IF throws[c] THEN "rejected"
                     ELSE IF asked[c].style = "data" THEN "undefined"
                     ELSE "error")
    BY <1>10 DEF Report
  <2>2. CASE throws[c]
    BY <1>1, <2>1, <2>2, SettleTells
  <2>3. CASE ~throws[c]
    <3>1. PICK a \in {"undefined", "error"} : Settle(c, a)
      BY <2>1, <2>3
    <3> QED
      BY <1>1, <2>1, <2>3, <3>1, SettleTells
  <2> QED
    BY <2>2, <2>3
<1> QED
  BY <1>2, <1>3, <1>4, <1>5, <1>6, <1>7, <1>8, <1>9, <1>10 DEF Handle

\* Every step of the client.
LEMMA StepTells ==
    ASSUME ToldInv, WalkInv, [BrowserNext]_browserVars
    PROVE  ToldInv'
<1>1. CASE UNCHANGED apiVars
  BY <1>1 DEF apiVars, callVars, ToldInv, ToldTyped, Told
<1>2. CASE Registry
  <2>1. /\ UNCHANGED <<stage, asked, throws, failure, answer>>
        /\ throwing' \in {throwing, ~throwing}
    BY <1>2
    DEF Registry, Use, Eject, EjectFunction, Update, UpdateFunction, Clear,
        SetConfig, calling, callVars
  <2> QED
    BY <2>1 DEF ToldInv, ToldTyped, Told
<1>3. CASE StreamAttempt \/ StreamRequestReturned \/ HandOver
  <2>1. UNCHANGED <<asked, throwing, throws, failure, answer>>
    BY <1>3 DEF StreamAttempt, StreamRequestReturned, RequestReturned,
       HandOver, outside
  <2>2. \A c \in Calls : stage'[c] = stage[c]
    <3>1. Stream \in Walkers /\ Calls \subseteq Walkers \ {Stream}
      BY ApiClientAssumption DEF Walkers
    <3>2. \/ \E l, n, from, before : Advance(Stream, l, n, from, before)
          \/ stage' = [stage EXCEPT ![Stream] = "idle"]
      BY <1>3 DEF StreamAttempt, StreamRequestReturned, RequestReturned,
         HandOver, Enter, GoOn
    <3> QED
      BY <3>1, <3>2, AdvanceStages DEF WalkInv
  <2> QED
    BY <2>1, <2>2 DEF ToldInv, ToldTyped, Told
<1> QED
  BY <1>1, <1>2, <1>3, HandleTells
  DEF BrowserNext, browserVars, StartStream, StreamConnect, StreamFetchFails,
      StreamGoesOn, Outside

-----------------------------------------------------------------------------
(* The theorems.                                                           *)

ClientInv == ApiInv /\ TokenInv /\ ToldInv

LEMMA ClientInvInit == ApiInit => ClientInv
<1> SUFFICES ASSUME ApiInit PROVE ClientInv
  OBVIOUS
<1>1. TokenInv
  BY DEF ApiInit, TokenInv, Requests
<1>2. ToldInv
  <2>1. ToldTyped
    BY DEF ApiInit, ToldTyped, Failures, Answers
  <2>2. \A c \in Calls : stage[c] = "idle" /\ failure[c] = "none"
    BY DEF ApiInit, Walkers
  <2> QED
    BY <2>1, <2>2 DEF ToldInv, Told
<1> QED
  BY <1>1, <1>2, ApiInitKeeps DEF ClientInv

LEMMA ClientInvPreserved ==
    ASSUME ClientInv, [BrowserNext]_browserVars
    PROVE  ClientInv' /\ CallsPresent
<1>1. ApiInv' /\ CallsPresent
  BY StepKeeps DEF ClientInv
<1>2. TokenInv' /\ ToldInv'
  BY StepKeepsToken, StepTells DEF ClientInv, ApiInv
<1> QED
  BY <1>1, <1>2 DEF ClientInv

LEMMA ClientInvHolds == BrowserSpec => []ClientInv
<1>1. BrowserInit => ClientInv
  BY ClientInvInit DEF BrowserInit
<1>2. ClientInv /\ [BrowserNext]_browserVars => ClientInv'
  BY ClientInvPreserved
<1> QED
  BY <1>1, <1>2, PTL DEF BrowserSpec

\* EachOnce: no call and no connection runs an interceptor twice for one
\* installation of it, nor leaves one out that it owes a run.
THEOREM EachOnceHolds == BrowserSpec => []EachOnce
<1>1. ClientInv => EachOnce
  BY DEF ClientInv, ApiInv, WalkInv, Walking, EachOnce
<1> QED
  BY <1>1, ClientInvHolds, PTL

\* TokenOnUnsafe: unsafe requests are sent with the token, safe ones without.
THEOREM TokenOnUnsafeHolds == BrowserSpec => []TokenOnUnsafe
<1>1. ClientInv => TokenOnUnsafe
  BY DEF ClientInv, TokenInv, TokenOnUnsafe
<1> QED
  BY <1>1, ClientInvHolds, PTL

\* CallerTold: callers are told of an error the way they asked for.
THEOREM CallerToldHolds == BrowserSpec => []CallerTold
<1>1. ClientInv => CallerTold
  BY DEF ClientInv, ToldInv, Told, CallerTold
<1> QED
  BY <1>1, ClientInvHolds, PTL

\* WithdrawsOwn: an id withdraws the interceptor it was given for, and what is
\* withdrawn is not run.
THEOREM WithdrawsOwnHolds == BrowserSpec => WithdrawsOwn
<1>1. ASSUME ClientInv, [BrowserNext]_browserVars
      PROVE  [/\ \A f \in Installs :
                    /\ Eject(f) \/ \E g \in Installs : Update(f, g)
                    /\ home[f] = Len(fns[ListOf(f)])
                    /\ f \notin withdrawn
                    => withdrawn' = withdrawn \union {f}
              /\ \A w \in Walkers :
                    ran'[w] # ran[w] /\ ran'[w] # <<>>
                    => Last(ran'[w]) \notin withdrawn]_apiVars
  <2>1. CallsPresent
    BY <1>1, ClientInvPreserved
  <2>2. ASSUME NEW f \in Installs,
               Eject(f) \/ \E g \in Installs : Update(f, g),
               home[f] = Len(fns[ListOf(f)]), f \notin withdrawn
        PROVE  withdrawn' = withdrawn \union {f}
    <3>1. /\ id[f] # 0
          /\ withdrawn' = withdrawn \union {InUse(ListOf(f))[id[f]]}
      BY <2>2 DEF Eject, Update, PutInto
    <3>2. InUse(ListOf(f)) = fns[ListOf(f)][home[f]]
      BY <1>1, <2>2, ListsOfFns, InUseTyped
      DEF Fns, ClientInv, ApiInv, RegistryInv
    <3>3. fns[ListOf(f)][home[f]][id[f]] = f
      BY <1>1, <2>2, <3>1 DEF ClientInv, ApiInv, RegistryInv, Identified
    <3> QED
      BY <3>1, <3>2, <3>3
  <2> QED
    BY <2>1, <2>2 DEF CallsPresent
<1>2. ClientInv /\ [BrowserNext]_browserVars
      => [/\ \A f \in Installs :
                /\ Eject(f) \/ \E g \in Installs : Update(f, g)
                /\ home[f] = Len(fns[ListOf(f)])
                /\ f \notin withdrawn
                => withdrawn' = withdrawn \union {f}
          /\ \A w \in Walkers :
                ran'[w] # ran[w] /\ ran'[w] # <<>>
                => Last(ran'[w]) \notin withdrawn]_apiVars
  BY <1>1
<1> QED
  BY <1>2, ClientInvHolds, PTL DEF BrowserSpec, WithdrawsOwn

\* What a client does with its stream is what the stream of EventStream does
\* on its own: the stream does not notice the interceptors.
THEOREM ClientStreams == BrowserSpec => Init /\ [][Next]_vars
<1>1. BrowserInit => Init
  BY DEF BrowserInit
<1>2. [BrowserNext]_browserVars => [Next]_vars
  BY StreamStep
<1> QED
  BY <1>1, <1>2, PTL DEF BrowserSpec

\* So events still come once and in order, nothing but what is refused is
\* skipped, and an abort is heeded, whatever the interceptors do.
THEOREM StreamStaysSound ==
    BrowserSpec =>
        [](NamedAtMostOnce /\ SkippedOnlyRefused /\ AbortStopsReading)
<1>1. StreamInv => NamedAtMostOnce /\ SkippedOnlyRefused
  BY DEF StreamInv
<1>2. StreamInv => AbortStopsReading
  BY StreamBounds
  DEF StreamInv, TypeOK, Order, Spared, AbortStopsReading, InHand
<1> QED
  BY <1>1, <1>2, ClientStreams, StreamInvInit, StreamInvPreserved, PTL
=============================================================================
