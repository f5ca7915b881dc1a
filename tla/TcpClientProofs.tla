--------------------------- MODULE TcpClientProofs ---------------------------
(***************************************************************************)
(* Proofs about TcpClient and its Connector:                               *)
(*   - for any calls, types are kept and every socket is accounted for;    *)
(*   - when connect() is called once and only the loop's thread stops or   *)
(*     destroys the client, attempts never overlap, no callback reaches a  *)
(*     destroyed client and stop() is final.                               *)
(***************************************************************************)
EXTENDS TcpClient, QueueLemmas, TLAPS

-----------------------------------------------------------------------------
(* Calls under way *)

ConnectSteps == {<<"client+", "connector+", "startInLoop">>,
                 <<"connector+", "startInLoop">>, <<"startInLoop">>}
StopSteps == {<<"client-", "connector-", "stopInLoop">>,
              <<"connector-", "stopInLoop">>, <<"stopInLoop">>}
OtherSteps == {<<"client-", "shutdown">>, <<"shutdown">>, <<"retry">>}
LeaveSteps == {<<"setCloseCallback", "free">>, <<"free">>,
               <<"setCloseCallback", "forceClose", "free">>, <<"forceClose", "free">>}
HaltSteps == {<<"connector-", "stopInLoop", "release">>, <<"stopInLoop", "release">>,
              <<"release">>}

Alive == ConnectSteps \cup StopSteps \cup OtherSteps \cup {<<>>}
Dying == LeaveSteps \cup HaltSteps \cup {<<"lookup">>, <<>>}

\* A client that lives is called, one that does not is being destroyed.
Scripts ==
  /\ todo \in [Actors -> Alive \cup Dying]
  /\ \A a \in Actors : todo[a] \in IF client = "alive" THEN Alive ELSE Dying

\* The loop is in a round of functors exactly while some are left; it waits for
\* nobody when it restarts the connector.
Rounds ==
  /\ pc = "functors" => batch > 0
  /\ pc \in {"poll", "events"} => batch = 0
  /\ pc # "events" => "channel" \notin active
  /\ pc = "restart" => todo["loop"] = <<>> /\ conn = "none" /\ state_ = "kConnected"

\* A connection is there only after a successful attempt, and the client knows of
\* it until the destructor has taken its place.
Linked ==
  /\ conn # "none" => state_ = "kConnected"
  /\ "channel" \in active => state_ = "kConnecting"
  /\ closeCb = "client" => (connection_ <=> conn # "none")
  /\ client = "alive" => closeCb = "client" /\ Count("setCloseCallback") = 0

\* What may yet begin an attempt, the attempt and the connection together: each
\* comes from a call of connect().
Owed(a) == Held(todo[a] \in ConnectSteps)
Starts == Owed("loop") + Owed("thread") + Count("startInLoop") + timers + due
            + Held(state_ # "kDisconnected")

ClientInv ==
  /\ TypeOK /\ Scripts
  /\ failed = "none" => Rounds /\ Linked /\ SocketsAccounted /\ Starts <= connects

-----------------------------------------------------------------------------
(* The steps of a call *)

LEMMA ConnectTail ==
  ASSUME NEW t \in ConnectSteps
  PROVE  /\ t # <<>> /\ Head(t) \in {"client+", "connector+", "startInLoop"}
         /\ IF Head(t) = "startInLoop" THEN Tail(t) = <<>> ELSE Tail(t) \in ConnectSteps
<1>1. CASE t = <<"client+", "connector+", "startInLoop">>
  <2>1. t # <<>> /\ Head(t) = "client+" /\ Tail(t) = <<"connector+", "startInLoop">>
    BY <1>1, Three
  <2> QED
    BY <2>1 DEF ConnectSteps
<1>2. CASE t = <<"connector+", "startInLoop">>
  <2>1. t # <<>> /\ Head(t) = "connector+" /\ Tail(t) = <<"startInLoop">>
    BY <1>2, Two
  <2> QED
    BY <2>1 DEF ConnectSteps
<1>3. CASE t = <<"startInLoop">>
  BY <1>3, One
<1> QED
  BY <1>1, <1>2, <1>3 DEF ConnectSteps

LEMMA StopTail ==
  ASSUME NEW t \in StopSteps
  PROVE  /\ t # <<>>
         /\ \/ Head(t) = "client-" /\ Tail(t) = <<"connector-", "stopInLoop">>
            \/ /\ t = <<"connector-", "stopInLoop">>
               /\ Head(t) = "connector-" /\ Tail(t) = <<"stopInLoop">>
            \/ t = <<"stopInLoop">> /\ Head(t) = "stopInLoop" /\ Tail(t) = <<>>
<1>1. CASE t = <<"client-", "connector-", "stopInLoop">>
  BY <1>1, Three
<1>2. CASE t = <<"connector-", "stopInLoop">>
  BY <1>2, Two
<1>3. CASE t = <<"stopInLoop">>
  BY <1>3, One
<1> QED
  BY <1>1, <1>2, <1>3 DEF StopSteps

LEMMA OtherTail ==
  ASSUME NEW t \in OtherSteps
  PROVE  /\ t # <<>>
         /\ \/ Head(t) = "client-" /\ Tail(t) = <<"shutdown">>
            \/ Head(t) \in {"shutdown", "retry"} /\ Tail(t) = <<>>
<1>1. CASE t = <<"client-", "shutdown">>
  BY <1>1, Two
<1>2. CASE t \in {<<"shutdown">>, <<"retry">>}
  BY <1>2, One
<1> QED
  BY <1>1, <1>2 DEF OtherSteps

LEMMA LeaveTail ==
  ASSUME NEW t \in LeaveSteps
  PROVE  /\ t # <<>>
         /\ \/ /\ Head(t) = "setCloseCallback"
               /\ Tail(t) \in {<<"free">>, <<"forceClose", "free">>}
            \/ /\ t = <<"forceClose", "free">>
               /\ Head(t) = "forceClose" /\ Tail(t) = <<"free">>
            \/ t = <<"free">> /\ Head(t) = "free" /\ Tail(t) = <<>>
<1>1. CASE t = <<"setCloseCallback", "forceClose", "free">>
  BY <1>1, Three
<1>2. CASE t = <<"setCloseCallback", "free">>
  BY <1>2, Two
<1>3. CASE t = <<"forceClose", "free">>
  BY <1>3, Two
<1>4. CASE t = <<"free">>
  BY <1>4, One
<1> QED
  BY <1>1, <1>2, <1>3, <1>4 DEF LeaveSteps

LEMMA HaltTail ==
  ASSUME NEW t \in HaltSteps
  PROVE  /\ t # <<>>
         /\ \/ /\ t = <<"connector-", "stopInLoop", "release">>
               /\ Head(t) = "connector-" /\ Tail(t) = <<"stopInLoop", "release">>
            \/ /\ t = <<"stopInLoop", "release">>
               /\ Head(t) = "stopInLoop" /\ Tail(t) = <<"release">>
            \/ t = <<"release">> /\ Head(t) = "release" /\ Tail(t) = <<>>
<1>1. CASE t = <<"connector-", "stopInLoop", "release">>
  BY <1>1, Three
<1>2. CASE t = <<"stopInLoop", "release">>
  BY <1>2, Two
<1>3. CASE t = <<"release">>
  BY <1>3, One
<1> QED
  BY <1>1, <1>2, <1>3 DEF HaltSteps

\* The one step of ~TcpClient() before it knows whether there is a connection.
LEMMA LookupTail == <<"lookup">> # <<>> /\ Head(<<"lookup">>) = "lookup"
BY One

\* What is left of a call once its first step is taken.
LEMMA ScriptTail ==
  ASSUME NEW t, t # <<>>, Head(t) # "lookup"
  PROVE  /\ t \in Alive => Tail(t) \in Alive
         /\ t \in Dying => Tail(t) \in Dying
         /\ t \in Alive \cup Dying =>
              /\ Head(t) = "startInLoop" => t \in ConnectSteps
              /\ Tail(t) \in ConnectSteps <=> t \in ConnectSteps /\ Head(t) # "startInLoop"
         /\ Head(t) \in {"client+", "client-", "connector+", "shutdown", "retry",
                         "startInLoop"} => t \notin Dying
         /\ Head(t) \in {"setCloseCallback", "forceClose", "free", "release"}
              => t \notin Alive
<1>1. \A u \in {<<"connector-", "stopInLoop">>, <<"stopInLoop">>} : u \in StopSteps
  BY DEF StopSteps
<1>2. <<"shutdown">> \in OtherSteps
  BY DEF OtherSteps
<1>3. \A u \in {<<"free">>, <<"forceClose", "free">>} : u \in LeaveSteps
  BY DEF LeaveSteps
<1>4. \A u \in {<<"stopInLoop", "release">>, <<"release">>} : u \in HaltSteps
  BY DEF HaltSteps
<1>5. CASE t \in ConnectSteps
  BY <1>5, ConnectTail, StopTail, OtherTail, LeaveTail, HaltTail, LookupTail DEF Alive, Dying
<1>6. CASE t \in StopSteps
  BY <1>1, <1>6, ConnectTail, StopTail, OtherTail, LeaveTail, HaltTail, LookupTail DEF Alive, Dying
<1>7. CASE t \in OtherSteps
  BY <1>2, <1>7, ConnectTail, StopTail, OtherTail, LeaveTail, HaltTail, LookupTail DEF Alive, Dying
<1>8. CASE t \in LeaveSteps
  BY <1>3, <1>8, ConnectTail, StopTail, OtherTail, LeaveTail, HaltTail, LookupTail DEF Alive, Dying
<1>9. CASE t \in HaltSteps
  BY <1>4, <1>9, ConnectTail, StopTail, OtherTail, LeaveTail, HaltTail, LookupTail DEF Alive, Dying
<1>10. CASE t \notin Alive \cup Dying
  BY <1>10
<1> QED
  BY <1>5, <1>6, <1>7, <1>8, <1>9, <1>10, LookupTail DEF Alive, Dying

-----------------------------------------------------------------------------
(* The queue of functors *)

Names == {"startInLoop", "stopInLoop", "resetChannel", "connectDestroyed",
          "setCloseCallback", "forceClose"}

LEMMA CountType ==
  ASSUME functors \in Seq(Names)
  PROVE  /\ Len(functors) \in Nat
         /\ \A f \in Names :
              /\ Count(f) = Occurrences(functors, f)
              /\ Count(f) \in Nat
              /\ Count(f) = 0 <=> \A i \in 1 .. Len(functors) : functors[i] # f
<1>1. \A f \in Names : Count(f) = Occurrences(functors, f)
  BY DEF Count, Occurrences, Places
<1> QED
  BY <1>1, OccurrencesType

LEMMA QueueGains ==
  ASSUME functors \in Seq(Names), NEW g \in Names, functors' = Append(functors, g)
  PROVE  /\ functors' \in Seq(Names) /\ Len(functors') = Len(functors) + 1
         /\ \A f \in Names : IF f = g THEN Count(f)' = Count(f) + 1
                                       ELSE Count(f)' = Count(f)
<1>1. \A f \in Names : Count(f) = Occurrences(functors, f) /\ Count(f) \in Nat
  BY CountType
<1>2. \A f \in Names : Count(f)' = Occurrences(functors', f)
  BY DEF Count, Occurrences, Places
<1>3. \A f \in Names : Occurrences(Append(functors, g), f) =
                         Occurrences(functors, f) + (IF g = f THEN 1 ELSE 0)
  BY OccurrencesAppend
<1> QED
  BY <1>1, <1>2, <1>3

LEMMA QueueLoses ==
  ASSUME functors \in Seq(Names), functors # <<>>, functors' = Tail(functors)
  PROVE  /\ functors' \in Seq(Names) /\ Len(functors') = Len(functors) - 1
         /\ \A f \in Names :
              /\ Count(f)' \in Nat
              /\ IF f = Head(functors) THEN Count(f) = Count(f)' + 1
                                       ELSE Count(f)' = Count(f)
<1>1. \A f \in Names : Count(f) = Occurrences(functors, f) /\ Count(f) \in Nat
  BY CountType
<1>2. \A f \in Names : Count(f)' = Occurrences(functors', f)
  BY DEF Count, Occurrences, Places
<1>3. \A f \in Names : Occurrences(Tail(functors), f) =
                         Occurrences(functors, f) - (IF Head(functors) = f THEN 1 ELSE 0)
  BY OccurrencesTail
<1>4. functors' \in Seq(Names) /\ Len(functors') = Len(functors) - 1
  OBVIOUS
<1>5. \A f \in Names : Occurrences(functors', f) \in Nat
  BY <1>4, OccurrencesType
<1> QED
  BY <1>1, <1>2, <1>3, <1>4, <1>5

LEMMA QueueTurns ==
  ASSUME functors \in Seq(Names), functors # <<>>, NEW g \in Names,
         functors' = Append(Tail(functors), g)
  PROVE  /\ functors' \in Seq(Names) /\ Len(functors') = Len(functors)
         /\ \A f \in Names :
              /\ f \notin {g, Head(functors)} => Count(f)' = Count(f)
              /\ f = g /\ f # Head(functors) => Count(f)' = Count(f) + 1
<1>1. \A f \in Names : Count(f) = Occurrences(functors, f) /\ Count(f) \in Nat
  BY CountType
<1>2. \A f \in Names : Count(f)' = Occurrences(functors', f)
  BY DEF Count, Occurrences, Places
<1>3. \A f \in Names : Occurrences(Tail(functors), f) =
                         Occurrences(functors, f) - (IF Head(functors) = f THEN 1 ELSE 0)
  BY OccurrencesTail
<1>4. Tail(functors) \in Seq(Names) /\ Len(Tail(functors)) = Len(functors) - 1
  OBVIOUS
<1>5. \A f \in Names : Occurrences(Append(Tail(functors), g), f) =
                         Occurrences(Tail(functors), f) + (IF g = f THEN 1 ELSE 0)
  <2> DEFINE q == Tail(functors)
  <2>1. q \in Seq(Names)
    BY <1>4
  <2> HIDE DEF q
  <2>2. \A f \in Names : Occurrences(Append(q, g), f) =
                           Occurrences(q, f) + (IF g = f THEN 1 ELSE 0)
    BY <2>1, OccurrencesAppend
  <2> QED
    BY <2>2 DEF q
<1>6. functors' \in Seq(Names) /\ Len(functors') = Len(functors)
  BY <1>4
<1> QED
  BY <1>1, <1>2, <1>3, <1>5, <1>6

-----------------------------------------------------------------------------
(* The connector *)

AttemptTyped ==
  /\ channel_ \in BOOLEAN /\ gaveUp \in BOOLEAN
  /\ state_ \in {"kDisconnected", "kConnecting", "kConnected"}
  /\ retryDelayMs_ \in kInitRetryDelayMs .. kMaxRetryDelayMs
  /\ timers \in Nat /\ open \in Nat

LEMMA DoubledType ==
  ASSUME NEW delay \in kInitRetryDelayMs .. kMaxRetryDelayMs
  PROVE  Doubled(delay) \in kInitRetryDelayMs .. kMaxRetryDelayMs
BY ConnectorAssumption DEF Doubled

\* What startInLoop() may come to.
LEMMA StartOutcome ==
  ASSUME AttemptTyped, failed = "none", NEW state, NEW wanted \in BOOLEAN,
         NEW delay \in kInitRetryDelayMs .. kMaxRetryDelayMs,
         StartInLoop(state, wanted, delay)
  PROVE  /\ AttemptTyped'
         /\ failed' \in {"none", "startInLoop", "connecting"}
         /\ failed' = "startInLoop" => state # "kDisconnected"
         /\ failed' = "connecting" => state = "kDisconnected" /\ wanted /\ channel_
         /\ failed' = "none" =>
              /\ state = "kDisconnected"
              /\ \/ /\ wanted /\ state_' = "kConnecting" /\ channel_'
                    /\ open' = open + 1 /\ timers' = timers
                 \/ /\ wanted /\ state_' = "kDisconnected" /\ channel_' = channel_
                    /\ open' = open /\ timers' \in {timers, timers + 1}
                 \/ ~wanted /\ UNCHANGED attempt
<1>1. CASE state # "kDisconnected"
  BY <1>1 DEF StartInLoop, AttemptTyped, attempt
<1>2. CASE state = "kDisconnected" /\ ~wanted
  BY <1>2 DEF StartInLoop, AttemptTyped, attempt
<1>3. CASE state = "kDisconnected" /\ wanted
  <2>1. Connect(delay)
    BY <1>3 DEF StartInLoop
  <2>2. CASE Connecting(delay)
    BY <1>3, <2>2 DEF Connecting, AttemptTyped
  <2>3. CASE Retry(TRUE, delay, open + 1) /\ UNCHANGED <<channel_, gaveUp, failed>>
    BY <1>3, <2>3, DoubledType DEF Retry, AttemptTyped
  <2>4. CASE /\ gaveUp' = TRUE
             /\ retryDelayMs_' = delay
             /\ state_' = "kDisconnected"
             /\ UNCHANGED <<channel_, timers, open, failed>>
    BY <1>3, <2>4 DEF AttemptTyped
  <2> QED
    BY <2>1, <2>2, <2>3, <2>4 DEF Connect
<1> QED
  BY <1>1, <1>2, <1>3

-----------------------------------------------------------------------------
(* For any calls: types are kept and sockets are accounted for *)

\* The parts of the invariant that hold while no assertion has failed.
Sound == Rounds /\ Linked /\ SocketsAccounted /\ Starts <= connects

\* A step that leaves the calls alone leaves what they owe alone.
LEMMA ScriptsStay ==
  ASSUME Scripts, UNCHANGED <<todo, client>>
  PROVE  Scripts' /\ \A a \in Actors : Owed(a)' = Owed(a)
BY DEF Scripts, Owed

\* Sums are taken of natural numbers.
LEMMA SumTypes ==
  ASSUME TypeOK
  PROVE  /\ Owed("loop") \in Nat /\ Owed("thread") \in Nat
         /\ Count("startInLoop") \in Nat /\ Count("connectDestroyed") \in Nat
         /\ timers \in Nat /\ due \in Nat /\ open \in Nat /\ connects \in Nat
<1>1. functors \in Seq(Names) /\ connects \in Nat
  BY TcpClientAssumption DEF TypeOK, Names
<1>2. Count("startInLoop") \in Nat /\ Count("connectDestroyed") \in Nat
  BY <1>1, CountType DEF Names
<1> QED
  BY <1>1, <1>2 DEF TypeOK, Owed, Held

LEMMA FunctorsType ==
  ASSUME TypeOK PROVE functors \in Seq(Names) /\ AttemptTyped
BY DEF TypeOK, Names, AttemptTyped

LEMMA PollKeeps ==
  ASSUME TypeOK, Scripts, Sound, failed = "none", Poll
  PROVE  TypeOK' /\ Scripts' /\ Sound'
<1>1. Scripts' /\ Owed("loop")' = Owed("loop") /\ Owed("thread")' = Owed("thread")
  BY ScriptsStay DEF Poll, clientVars, userVars, Actors
<1>2. TypeOK'
  <2>1. active' \subseteq Events
    BY DEF Poll
  <2>2. due' \in Nat /\ timers' \in Nat
    BY SumTypes DEF Poll
  <2>3. /\ UNCHANGED <<connect_, state_, channel_, retryDelayMs_, open, gaveUp, functors,
                      failed, clientVars, batch, userVars>>
        /\ pc' = "events"
    BY DEF Poll
  <2> QED
    BY <2>1, <2>2, <2>3 DEF TypeOK, clientVars, userVars
<1>3. /\ Count("startInLoop")' = Count("startInLoop")
      /\ Count("connectDestroyed")' = Count("connectDestroyed")
      /\ Count("setCloseCallback")' = Count("setCloseCallback")
  BY DEF Poll, Count
<1>4. Rounds'
  BY DEF Poll, Rounds, Sound, clientVars, userVars
<1>5. Linked'
  BY <1>3 DEF Poll, Reportable, Linked, Sound, clientVars, userVars
<1>6. SocketsAccounted'
  BY <1>3 DEF Poll, SocketsAccounted, Sound, clientVars, userVars
<1>7. Starts' <= connects'
  BY <1>1, <1>3, SumTypes DEF Poll, Starts, Sound, userVars, Held
<1> QED
  BY <1>1, <1>2, <1>4, <1>5, <1>6, <1>7 DEF Sound

LEMMA HandleErrorKeeps ==
  ASSUME TypeOK, Scripts, Sound, failed = "none", HandleError
  PROVE  TypeOK' /\ Scripts' /\ Sound'
<1>1. Scripts' /\ Owed("loop")' = Owed("loop") /\ Owed("thread")' = Owed("thread")
  BY ScriptsStay DEF HandleError, Event, clientVars, userVars, Actors
<1>2. state_ = "kConnecting" /\ conn = "none"
  BY DEF HandleError, Event, Sound, Linked
<1>3. functors' = Append(functors, "resetChannel")
  BY DEF HandleError, AttemptFails, RemoveAndResetChannel
<1>4. /\ functors' \in Seq(Names) /\ Len(functors') = Len(functors) + 1
      /\ Count("startInLoop")' = Count("startInLoop")
      /\ Count("connectDestroyed")' = Count("connectDestroyed")
      /\ Count("setCloseCallback")' = Count("setCloseCallback")
  BY <1>3, FunctorsType, QueueGains DEF Names
<1>5. open \in Nat \ {0} /\ open = 1 + Count("connectDestroyed")
  BY <1>2, SumTypes DEF Sound, SocketsAccounted, Held
<1>6. /\ open' = open - 1 /\ state_' = "kDisconnected" /\ timers' \in {timers, timers + 1}
      /\ retryDelayMs_' \in kInitRetryDelayMs .. kMaxRetryDelayMs
  BY DoubledType DEF HandleError, AttemptFails, Retry, TypeOK
<1>7. TypeOK'
  BY <1>4, <1>5, <1>6 DEF TypeOK, HandleError, Event, AttemptFails, clientVars, userVars, Names
<1>8. Rounds'
  BY DEF HandleError, Event, AttemptFails, Rounds, Sound, clientVars, userVars
<1>9. Linked'
  BY <1>2, <1>4 DEF HandleError, Event, AttemptFails, Retry, Linked, Sound,
           clientVars, userVars, TypeOK
<1>10. SocketsAccounted'
  BY <1>2, <1>4, <1>5, <1>6, SumTypes DEF HandleError, SocketsAccounted, clientVars, Held
<1>11. Starts' <= connects'
  <2>1. Starts <= connects /\ connects' = connects /\ due' = due
    BY DEF HandleError, Event, Sound, userVars
  <2>2. Held(state_ # "kDisconnected") = 1 /\ Held(state_' # "kDisconnected") = 0
    BY <1>2, <1>6 DEF Held
  <2>3. Starts' = Owed("loop") + Owed("thread") + Count("startInLoop") + timers' + due + 0
    BY <1>1, <1>4, <2>1, <2>2 DEF Starts
  <2>4. Starts = Owed("loop") + Owed("thread") + Count("startInLoop") + timers + due + 1
    BY <2>2 DEF Starts
  <2> QED
    BY <1>6, <2>1, <2>3, <2>4, SumTypes
<1> QED
  BY <1>1, <1>7, <1>8, <1>9, <1>10, <1>11 DEF Sound

LEMMA HandleWriteKeeps ==
  ASSUME TypeOK, Scripts, Sound, failed = "none", HandleWrite
  PROVE  TypeOK' /\ Scripts' /\ Sound'
<1>1. Scripts' /\ Owed("loop")' = Owed("loop") /\ Owed("thread")' = Owed("thread")
  BY ScriptsStay DEF HandleWrite, Event, userVars, Actors
<1>2. state_ = "kConnecting" /\ conn = "none" /\ active' = active \ {"channel"}
  BY DEF HandleWrite, Event, Sound, Linked
<1>3. functors' = Append(functors, "resetChannel")
  BY DEF HandleWrite, AttemptSucceeds, RemoveAndResetChannel
<1>4. /\ functors' \in Seq(Names) /\ Len(functors') = Len(functors) + 1
      /\ Count("startInLoop")' = Count("startInLoop")
      /\ Count("connectDestroyed")' = Count("connectDestroyed")
      /\ Count("setCloseCallback")' = Count("setCloseCallback")
  BY <1>3, FunctorsType, QueueGains DEF Names
<1>5. open \in Nat \ {0} /\ open = 1 + Count("connectDestroyed")
  BY <1>2, SumTypes DEF Sound, SocketsAccounted, Held
<1>6. /\ open' = IF connect_ THEN open ELSE open - 1
      /\ state_' = "kConnected" /\ timers' = timers
      /\ UNCHANGED <<channel_, retryDelayMs_, gaveUp>>
  BY DEF HandleWrite, AttemptSucceeds
<1>7. IF connect_ THEN connection_' = TRUE /\ conn' = "up" /\ closeCb' = "client"
                  ELSE UNCHANGED <<connection_, conn, closeCb>>
  BY DEF HandleWrite, NewConnection
<1>8. UNCHANGED <<connect_, clientConnect, retry_, client, linger, pc, due, batch, userVars>>
  BY DEF HandleWrite, Event
<1>9. TypeOK'
  <2>1. open' \in Nat
    BY <1>5, <1>6
  <2>2. batch' \in 0 .. Len(functors')
    BY <1>4, <1>8 DEF TypeOK
  <2>3. connection_' \in BOOLEAN /\ conn' \in {"none", "up", "shut"}
        /\ closeCb' \in {"client", "detail"}
    BY <1>7 DEF TypeOK
  <2> QED
    BY <1>2, <1>4, <1>6, <1>8, <2>1, <2>2, <2>3 DEF TypeOK, userVars, Names
<1>10. Rounds'
  BY <1>2, <1>6, <1>8 DEF Rounds, Sound, userVars, HandleWrite, Event
<1>11. Linked'
  BY <1>2, <1>4, <1>6, <1>7, <1>8 DEF Linked, Sound, userVars, TypeOK
<1>12. SocketsAccounted'
  BY <1>2, <1>4, <1>5, <1>6, <1>7, SumTypes DEF SocketsAccounted, Held
<1>13. Starts' <= connects'
  BY <1>1, <1>2, <1>4, <1>6, <1>8, SumTypes DEF Starts, Sound, userVars, Held
<1> QED
  BY <1>1, <1>9, <1>10, <1>11, <1>12, <1>13 DEF Sound

LEMMA RetryTimerKeeps ==
  ASSUME TypeOK, Scripts, Sound, failed = "none", RetryTimer
  PROVE  TypeOK' /\ Scripts' /\ (failed' = "none" => Sound')
<1>1. Scripts' /\ Owed("loop")' = Owed("loop") /\ Owed("thread")' = Owed("thread")
  BY ScriptsStay DEF RetryTimer, clientVars, userVars, Actors
<1>2. /\ AttemptTyped'
      /\ failed' = "none" =>
           /\ state_ = "kDisconnected"
           /\ \/ state_' = "kConnecting" /\ open' = open + 1 /\ timers' = timers
              \/ /\ state_' = "kDisconnected" /\ open' = open
                 /\ timers' \in {timers, timers + 1}
  BY FunctorsType, StartOutcome DEF RetryTimer, attempt, TypeOK
<1>3. /\ pc = "events" /\ due > 0 /\ due' = due - 1
      /\ UNCHANGED <<connect_, functors, clientVars, pc, active, batch, userVars>>
  BY DEF RetryTimer
<1>4. /\ Count("startInLoop")' = Count("startInLoop")
      /\ Count("connectDestroyed")' = Count("connectDestroyed")
      /\ Count("setCloseCallback")' = Count("setCloseCallback")
  BY <1>3 DEF Count
<1>5. due' \in Nat
  BY <1>3, SumTypes
<1>6. TypeOK'
  BY <1>2, <1>3, <1>5 DEF TypeOK, AttemptTyped, clientVars, userVars
<1>7. ASSUME failed' = "none" PROVE Sound'
  <2>1. Rounds'
    BY <1>3 DEF Rounds, Sound
  <2>2. Linked'
    BY <1>2, <1>3, <1>4, <1>7 DEF Linked, Sound, clientVars
  <2>3. SocketsAccounted'
    BY <1>2, <1>3, <1>4, <1>7, SumTypes DEF SocketsAccounted, Sound, clientVars, Held
  <2>4. Starts' <= connects'
    BY <1>1, <1>2, <1>3, <1>4, <1>7, SumTypes DEF Starts, Sound, userVars, Held
  <2> QED
    BY <2>1, <2>2, <2>3, <2>4 DEF Sound
<1> QED
  BY <1>1, <1>6, <1>7

LEMMA RestartConnectorKeeps ==
  ASSUME TypeOK, Scripts, Sound, failed = "none", RestartConnector
  PROVE  TypeOK' /\ Scripts' /\ (failed' = "none" => Sound')
<1>1. Scripts' /\ Owed("loop")' = Owed("loop") /\ Owed("thread")' = Owed("thread")
  BY ScriptsStay DEF RestartConnector, clientVars, userVars, Actors
<1>2. kInitRetryDelayMs \in kInitRetryDelayMs .. kMaxRetryDelayMs
  BY ConnectorAssumption
<1>3. /\ AttemptTyped'
      /\ failed' = "none" =>
           \/ state_' = "kConnecting" /\ open' = open + 1 /\ timers' = timers
           \/ /\ state_' = "kDisconnected" /\ open' = open
              /\ timers' \in {timers, timers + 1}
  <2>1. CASE client # "gone"
    BY <1>2, <2>1, FunctorsType, StartOutcome DEF RestartConnector, Restart
  <2>2. CASE client = "gone"
    BY <2>2, FunctorsType DEF RestartConnector, AttemptTyped, attempt
  <2> QED
    BY <2>1, <2>2
<1>4. /\ connect_' \in BOOLEAN
      /\ pc = "restart" /\ pc' = IF batch > 0 THEN "functors" ELSE "events"
      /\ UNCHANGED <<functors, clientVars, active, due, batch, userVars>>
  BY DEF RestartConnector, Restart, TypeOK
<1>5. /\ Count("startInLoop")' = Count("startInLoop")
      /\ Count("connectDestroyed")' = Count("connectDestroyed")
      /\ Count("setCloseCallback")' = Count("setCloseCallback")
  BY <1>4 DEF Count
<1>6. TypeOK'
  BY <1>3, <1>4 DEF TypeOK, AttemptTyped, clientVars, userVars
<1>7. "channel" \notin active /\ conn = "none" /\ state_ = "kConnected"
  BY <1>4 DEF Sound, Rounds
<1>8. ASSUME failed' = "none" PROVE Sound'
  <2>1. Rounds'
    BY <1>4, <1>7 DEF Rounds, Sound, TypeOK
  <2>2. Linked'
    BY <1>4, <1>5, <1>7 DEF Linked, Sound, clientVars
  <2>3. SocketsAccounted'
    BY <1>3, <1>4, <1>5, <1>7, <1>8, SumTypes DEF SocketsAccounted, Sound, clientVars, Held
  <2>4. Starts' <= connects'
    BY <1>1, <1>3, <1>4, <1>5, <1>7, <1>8, SumTypes DEF Starts, Sound, userVars, Held
  <2> QED
    BY <2>1, <2>2, <2>3, <2>4 DEF Sound
<1> QED
  BY <1>1, <1>6, <1>8

LEMMA RemoveConnectorKeeps ==
  ASSUME TypeOK, Scripts, Sound, failed = "none", RemoveConnector
  PROVE  TypeOK' /\ Scripts' /\ Sound'
<1>1. /\ linger' = FALSE /\ active' = active \ {"linger"}
      /\ UNCHANGED <<connect_, attempt, functors, failed, clientConnect, retry_, connection_,
                     closeCb, conn, client, pc, due, batch, userVars>>
  BY DEF RemoveConnector, Event
<1>2. Scripts' /\ Owed("loop")' = Owed("loop") /\ Owed("thread")' = Owed("thread")
  BY <1>1, ScriptsStay DEF userVars, Actors
<1>3. /\ Count("startInLoop")' = Count("startInLoop")
      /\ Count("connectDestroyed")' = Count("connectDestroyed")
      /\ Count("setCloseCallback")' = Count("setCloseCallback")
  BY <1>1 DEF Count
<1>4. TypeOK'
  <2>1. linger' \in BOOLEAN /\ active' \subseteq Events
    BY <1>1 DEF TypeOK
  <2> QED
    BY <1>1, <2>1 DEF TypeOK, attempt, userVars
<1>5. Rounds'
  BY <1>1 DEF Rounds, Sound, attempt, userVars
<1>6. Linked'
  BY <1>1, <1>3 DEF Linked, Sound, attempt
<1>7. SocketsAccounted'
  BY <1>1, <1>3 DEF SocketsAccounted, Sound, attempt
<1>8. Starts' <= connects'
  BY <1>1, <1>2, <1>3 DEF Starts, Sound, attempt, userVars
<1> QED
  BY <1>2, <1>4, <1>5, <1>6, <1>7, <1>8 DEF Sound

LEMMA DoPendingFunctorsKeeps ==
  ASSUME TypeOK, Scripts, Sound, failed = "none", DoPendingFunctors
  PROVE  TypeOK' /\ Scripts' /\ Sound'
<1>1. Scripts' /\ Owed("loop")' = Owed("loop") /\ Owed("thread")' = Owed("thread")
  BY ScriptsStay DEF DoPendingFunctors, clientVars, userVars, Actors
<1>2. /\ pc = "events" /\ active = {}
      /\ pc' = IF functors = <<>> THEN "poll" ELSE "functors"
      /\ batch' = Len(functors)
      /\ UNCHANGED <<connect_, attempt, functors, failed, clientVars, active, due, userVars>>
  BY DEF DoPendingFunctors
<1>3. /\ Count("startInLoop")' = Count("startInLoop")
      /\ Count("connectDestroyed")' = Count("connectDestroyed")
      /\ Count("setCloseCallback")' = Count("setCloseCallback")
  BY <1>2 DEF Count
<1>4. batch' \in 0 .. Len(functors') /\ (batch' = 0 <=> functors = <<>>)
  BY <1>2 DEF TypeOK
<1>5. TypeOK'
  BY <1>2, <1>4 DEF TypeOK, attempt, clientVars, userVars
<1>6. Rounds'
  BY <1>2, <1>4 DEF Rounds, Sound, TypeOK
<1>7. Linked'
  BY <1>2, <1>3 DEF Linked, Sound, attempt, clientVars
<1>8. SocketsAccounted'
  BY <1>2, <1>3 DEF SocketsAccounted, Sound, attempt, clientVars
<1>9. Starts' <= connects'
  BY <1>1, <1>2, <1>3 DEF Starts, Sound, attempt, userVars
<1> QED
  BY <1>1, <1>5, <1>6, <1>7, <1>8, <1>9 DEF Sound

\* The loop takes the first functor of the round and goes on.
LEMMA TakesFunctor ==
  ASSUME TypeOK, Scripts, Sound, NEW f, Functor(f)
  PROVE  /\ functors \in Seq(Names) /\ functors # <<>> /\ f \in Names
         /\ batch \in Nat \ {0} /\ batch <= Len(functors) /\ batch' = batch - 1
         /\ "channel" \notin active
         /\ UNCHANGED <<active, due, todo, made, connects, stopped>>
         /\ pc' = Then =>
              /\ pc' \in {"poll", "functors"}
              /\ pc' = "functors" => batch' > 0
              /\ pc' = "poll" => batch' = 0
<1>1. pc = "functors" /\ Head(functors) = f
  BY DEF Functor
<1>2. batch \in Nat \ {0} /\ batch <= Len(functors) /\ functors \in Seq(Names)
  BY <1>1, FunctorsType DEF TypeOK, Sound, Rounds
<1>3. functors # <<>>
  BY <1>2
<1>4. f \in Names
  BY <1>1, <1>2, <1>3
<1>5. batch' = batch - 1 /\ UNCHANGED <<active, due, todo, made, connects, stopped>>
  BY DEF Functor, userVars
<1>6. "channel" \notin active
  BY <1>1 DEF Sound, Rounds
<1>7. pc' = Then =>
        /\ pc' \in {"poll", "functors"}
        /\ pc' = "functors" => batch' > 0
        /\ pc' = "poll" => batch' = 0
  BY <1>2, <1>5 DEF Then
<1> QED
  BY <1>2, <1>3, <1>4, <1>5, <1>6, <1>7

LEMMA ConnectorGoneKeeps ==
  ASSUME TypeOK, Scripts, Sound, failed = "none", ConnectorGone
  PROVE  TypeOK' /\ Scripts' /\ failed' # "none"
<1>1. PICK f \in {"startInLoop", "stopInLoop", "resetChannel"} : Functor(f)
  BY DEF ConnectorGone
<1>2. /\ failed' = "connectorGone"
      /\ UNCHANGED <<connect_, attempt, functors, clientVars, pc>>
  BY DEF ConnectorGone
<1>3. batch \in Nat \ {0} /\ batch <= Len(functors) /\ batch' = batch - 1
      /\ UNCHANGED <<active, due, todo, made, connects, stopped>>
  BY <1>1, TakesFunctor
<1>4. Scripts'
  BY <1>2, <1>3, ScriptsStay DEF clientVars
<1>5. batch' \in 0 .. Len(functors')
  BY <1>2, <1>3 DEF TypeOK
<1>6. TypeOK'
  BY <1>2, <1>3, <1>5 DEF TypeOK, attempt, clientVars
<1> QED
  BY <1>2, <1>4, <1>6

LEMMA RunStartKeeps ==
  ASSUME TypeOK, Scripts, Sound, failed = "none", RunStart
  PROVE  TypeOK' /\ Scripts' /\ (failed' = "none" => Sound')
<1>1. /\ functors \in Seq(Names) /\ functors # <<>>
      /\ batch \in Nat \ {0} /\ batch <= Len(functors) /\ batch' = batch - 1
      /\ "channel" \notin active
      /\ UNCHANGED <<active, due, todo, made, connects, stopped>>
      /\ pc' \in {"poll", "functors"}
      /\ pc' = "functors" => batch' > 0
      /\ pc' = "poll" => batch' = 0
  BY TakesFunctor DEF RunStart
<1>2. /\ Head(functors) = "startInLoop" /\ functors' = Tail(functors)
      /\ UNCHANGED <<connect_, clientVars>>
  BY DEF RunStart, Functor
<1>3. Scripts' /\ Owed("loop")' = Owed("loop") /\ Owed("thread")' = Owed("thread")
  BY <1>1, <1>2, ScriptsStay DEF clientVars, Actors
<1>4. /\ AttemptTyped'
      /\ failed' = "none" =>
           /\ state_ = "kDisconnected"
           /\ \/ state_' = "kConnecting" /\ open' = open + 1 /\ timers' = timers
              \/ /\ state_' = "kDisconnected" /\ open' = open
                 /\ timers' \in {timers, timers + 1}
  BY FunctorsType, StartOutcome DEF RunStart, attempt, TypeOK
<1>5. /\ functors' \in Seq(Names) /\ Len(functors') = Len(functors) - 1
      /\ Count("startInLoop")' \in Nat /\ Count("startInLoop") = Count("startInLoop")' + 1
      /\ Count("connectDestroyed")' = Count("connectDestroyed")
      /\ Count("setCloseCallback")' = Count("setCloseCallback")
  BY <1>1, <1>2, QueueLoses DEF Names
<1>6. batch' \in 0 .. Len(functors')
  BY <1>1, <1>5
<1>7. TypeOK'
  BY <1>1, <1>2, <1>4, <1>5, <1>6 DEF TypeOK, AttemptTyped, clientVars, Names
<1>8. ASSUME failed' = "none" PROVE Sound'
  <2>1. Rounds'
    BY <1>1 DEF Rounds
  <2>2. Linked'
    BY <1>1, <1>2, <1>4, <1>5, <1>8 DEF Linked, Sound, clientVars
  <2>3. SocketsAccounted'
    <3>1. conn' = conn /\ Held(conn # "none") \in Nat
      BY <1>2 DEF clientVars, Held
    <3>2. Held(state_ = "kConnecting") = 0
      BY <1>4, <1>8 DEF Held
    <3>3. open' = open + Held(state_' = "kConnecting")
      BY <1>4, <1>8, SumTypes DEF Held
    <3>4. open = 0 + Held(conn # "none") + Count("connectDestroyed")
      BY <3>2 DEF Sound, SocketsAccounted
    <3>5. Held(state_' = "kConnecting") \in Nat
      BY DEF Held
    <3>6. open' = Held(state_' = "kConnecting") + Held(conn # "none") + Count("connectDestroyed")
      BY <3>1, <3>3, <3>4, <3>5, SumTypes
    <3> QED
      BY <1>5, <3>1, <3>6 DEF SocketsAccounted
  <2>4. Starts' <= connects'
    <3>1. /\ due' = due /\ connects' = connects /\ timers' \in Nat
          /\ Held(state_' # "kDisconnected") \in Nat
          /\ timers' + Held(state_' # "kDisconnected") <= timers + 1
      BY <1>1, <1>4, <1>8, SumTypes DEF Held
    <3>2. Held(state_ # "kDisconnected") = 0
      BY <1>4, <1>8 DEF Held
    <3>3. Starts' = Owed("loop") + Owed("thread") + Count("startInLoop")' + timers' + due
                       + Held(state_' # "kDisconnected")
      BY <1>3, <3>1 DEF Starts
    <3>4. Starts = Owed("loop") + Owed("thread") + Count("startInLoop") + timers + due
      BY <3>2, SumTypes DEF Starts
    <3>5. Starts <= connects
      BY DEF Sound
    <3>6. Count("startInLoop")' \in Nat /\ Count("startInLoop") = Count("startInLoop")' + 1
      BY <1>5
    <3>7. Starts' <= Starts
      BY <3>1, <3>3, <3>4, <3>6, SumTypes
    <3> QED
      BY <3>1, <3>3, <3>4, <3>5, <3>6, <3>7, SumTypes
  <2> QED
    BY <2>1, <2>2, <2>3, <2>4 DEF Sound
<1> QED
  BY <1>3, <1>7, <1>8

LEMMA RunStopKeeps ==
  ASSUME TypeOK, Scripts, Sound, failed = "none", RunStop
  PROVE  TypeOK' /\ Scripts' /\ Sound'
<1>1. /\ functors \in Seq(Names) /\ functors # <<>>
      /\ batch \in Nat \ {0} /\ batch <= Len(functors) /\ batch' = batch - 1
      /\ "channel" \notin active
      /\ UNCHANGED <<active, due, todo, made, connects, stopped>>
      /\ pc' \in {"poll", "functors"}
      /\ pc' = "functors" => batch' > 0
      /\ pc' = "poll" => batch' = 0
  BY TakesFunctor DEF RunStop
<1>2. /\ Head(functors) = "stopInLoop"
      /\ UNCHANGED <<connect_, clientVars, channel_, gaveUp, failed>>
  BY DEF RunStop, Functor, StopInLoop
<1>3. Scripts' /\ Owed("loop")' = Owed("loop") /\ Owed("thread")' = Owed("thread")
  BY <1>1, <1>2, ScriptsStay DEF clientVars, Actors
<1>4. /\ functors' \in Seq(Names) /\ Len(functors') >= Len(functors) - 1
      /\ Count("startInLoop")' = Count("startInLoop")
      /\ Count("connectDestroyed")' = Count("connectDestroyed")
      /\ Count("setCloseCallback")' = Count("setCloseCallback")
  <2>1. CASE functors' = Tail(functors)
    BY <1>1, <1>2, <2>1, QueueLoses DEF Names
  <2>2. CASE functors' = Append(Tail(functors), "resetChannel")
    <3>1. "resetChannel" \in Names
      BY DEF Names
    <3>2. /\ functors' \in Seq(Names) /\ Len(functors') = Len(functors)
          /\ \A f \in Names : f \notin {"stopInLoop", "resetChannel"} => Count(f)' = Count(f)
      BY <1>1, <1>2, <2>2, <3>1, QueueTurns
    <3> QED
      BY <1>1, <3>2 DEF Names
  <2> QED
    BY <2>1, <2>2 DEF RunStop, StopInLoop, RemoveAndResetChannel
<1>5. IF state_ = "kConnecting"
      THEN /\ open' = open - 1 /\ state_' = "kDisconnected"
           /\ timers' \in {timers, timers + 1}
           /\ retryDelayMs_' \in kInitRetryDelayMs .. kMaxRetryDelayMs
      ELSE UNCHANGED <<state_, timers, retryDelayMs_, open>>
  BY DoubledType DEF RunStop, StopInLoop, Retry, TypeOK
<1>6. batch' \in 0 .. Len(functors')
  BY <1>1, <1>4
<1>7. state_ = "kConnecting" => open \in Nat \ {0}
  BY SumTypes DEF Sound, SocketsAccounted, Held
<1>8. TypeOK'
  <2>1. open' \in Nat /\ timers' \in Nat
    BY <1>5, <1>7, SumTypes
  <2>2. /\ state_' \in {"kDisconnected", "kConnecting", "kConnected"}
        /\ retryDelayMs_' \in kInitRetryDelayMs .. kMaxRetryDelayMs
    BY <1>5 DEF TypeOK
  <2> QED
    BY <1>1, <1>2, <1>4, <1>6, <2>1, <2>2 DEF TypeOK, clientVars, Names
<1>9. Rounds'
  BY <1>1 DEF Rounds
<1>10. Linked'
  BY <1>1, <1>2, <1>4, <1>5 DEF Linked, Sound, clientVars
<1>11. SocketsAccounted'
  <2>1. conn' = conn /\ Held(conn # "none") \in Nat
    BY <1>2 DEF clientVars, Held
  <2>2. open = Held(state_ = "kConnecting") + Held(conn # "none") + Count("connectDestroyed")
    BY DEF Sound, SocketsAccounted
  <2>3. CASE state_ = "kConnecting"
    <3>1. Held(state_ = "kConnecting") = 1 /\ Held(state_' = "kConnecting") = 0
      BY <1>5, <2>3 DEF Held
    <3>2. open' = 0 + Held(conn # "none") + Count("connectDestroyed")
      BY <1>5, <2>1, <2>2, <2>3, <3>1, SumTypes
    <3> QED
      BY <1>4, <2>1, <3>1, <3>2 DEF SocketsAccounted
  <2>4. CASE state_ # "kConnecting"
    BY <1>4, <1>5, <2>1, <2>2, <2>4 DEF SocketsAccounted
  <2> QED
    BY <2>3, <2>4
<1>12. Starts' <= connects'
  <2>1. Starts <= connects /\ connects' = connects /\ due' = due
    BY <1>1 DEF Sound
  <2>2. /\ Held(state_ # "kDisconnected") \in Nat /\ Held(state_' # "kDisconnected") \in Nat
        /\ timers' \in Nat
        /\ timers' + Held(state_' # "kDisconnected") <= timers + Held(state_ # "kDisconnected")
    BY <1>5, SumTypes DEF Held
  <2>3. Starts' = Owed("loop") + Owed("thread") + Count("startInLoop") + timers' + due
                     + Held(state_' # "kDisconnected")
    BY <1>3, <1>4, <2>1 DEF Starts
  <2> QED
    BY <2>1, <2>2, <2>3, SumTypes DEF Starts
<1> QED
  BY <1>3, <1>8, <1>9, <1>10, <1>11, <1>12 DEF Sound

LEMMA ResetChannelKeeps ==
  ASSUME TypeOK, Scripts, Sound, failed = "none", ResetChannel
  PROVE  TypeOK' /\ Scripts' /\ Sound'
<1>1. /\ functors \in Seq(Names) /\ functors # <<>>
      /\ batch \in Nat \ {0} /\ batch <= Len(functors) /\ batch' = batch - 1
      /\ "channel" \notin active
      /\ UNCHANGED <<active, due, todo, made, connects, stopped>>
      /\ pc' \in {"poll", "functors"}
      /\ pc' = "functors" => batch' > 0
      /\ pc' = "poll" => batch' = 0
  BY TakesFunctor DEF ResetChannel
<1>2. /\ Head(functors) = "resetChannel" /\ functors' = Tail(functors)
      /\ channel_' = FALSE
      /\ UNCHANGED <<connect_, state_, retryDelayMs_, timers, open, gaveUp, failed, clientVars>>
  BY DEF ResetChannel, Functor
<1>3. Scripts' /\ Owed("loop")' = Owed("loop") /\ Owed("thread")' = Owed("thread")
  BY <1>1, <1>2, ScriptsStay DEF clientVars, Actors
<1>4. /\ functors' \in Seq(Names) /\ Len(functors') = Len(functors) - 1
      /\ Count("startInLoop")' = Count("startInLoop")
      /\ Count("connectDestroyed")' = Count("connectDestroyed")
      /\ Count("setCloseCallback")' = Count("setCloseCallback")
  BY <1>1, <1>2, QueueLoses DEF Names
<1>5. batch' \in 0 .. Len(functors')
  BY <1>1, <1>4
<1>6. TypeOK'
  <2>1. channel_' \in BOOLEAN
    BY <1>2
  <2> QED
    BY <1>1, <1>2, <1>4, <1>5, <2>1 DEF TypeOK, clientVars, Names
<1>7. Rounds'
  BY <1>1 DEF Rounds
<1>8. Linked'
  BY <1>1, <1>2, <1>4 DEF Linked, Sound, clientVars
<1>9. SocketsAccounted'
  BY <1>2, <1>4 DEF SocketsAccounted, Sound, clientVars
<1>10. Starts' <= connects'
  BY <1>1, <1>2, <1>3, <1>4 DEF Starts, Sound
<1> QED
  BY <1>3, <1>6, <1>7, <1>8, <1>9, <1>10 DEF Sound

LEMMA ConnectDestroyedKeeps ==
  ASSUME TypeOK, Scripts, Sound, failed = "none", ConnectDestroyed
  PROVE  TypeOK' /\ Scripts' /\ Sound'
<1>1. /\ functors \in Seq(Names) /\ functors # <<>>
      /\ batch \in Nat \ {0} /\ batch <= Len(functors) /\ batch' = batch - 1
      /\ "channel" \notin active
      /\ UNCHANGED <<active, due, todo, made, connects, stopped>>
      /\ pc' \in {"poll", "functors"}
      /\ pc' = "functors" => batch' > 0
      /\ pc' = "poll" => batch' = 0
  BY TakesFunctor DEF ConnectDestroyed
<1>2. /\ Head(functors) = "connectDestroyed" /\ functors' = Tail(functors)
      /\ open' = open - 1
      /\ UNCHANGED <<connect_, state_, channel_, retryDelayMs_, timers, gaveUp, failed,
                     clientVars>>
  BY DEF ConnectDestroyed, Functor
<1>3. Scripts' /\ Owed("loop")' = Owed("loop") /\ Owed("thread")' = Owed("thread")
  BY <1>1, <1>2, ScriptsStay DEF clientVars, Actors
<1>4. /\ functors' \in Seq(Names) /\ Len(functors') = Len(functors) - 1
      /\ Count("startInLoop")' = Count("startInLoop")
      /\ Count("connectDestroyed")' \in Nat
      /\ Count("connectDestroyed") = Count("connectDestroyed")' + 1
      /\ Count("setCloseCallback")' = Count("setCloseCallback")
  BY <1>1, <1>2, QueueLoses DEF Names
<1>5. batch' \in 0 .. Len(functors')
  BY <1>1, <1>4
<1>6. /\ open = Held(state_ = "kConnecting") + Held(conn # "none") + Count("connectDestroyed")
      /\ open' = Held(state_ = "kConnecting") + Held(conn # "none")
                   + Count("connectDestroyed")'
      /\ open' \in Nat
  <2>1. open = Held(state_ = "kConnecting") + Held(conn # "none") + Count("connectDestroyed")
    BY DEF Sound, SocketsAccounted
  <2>2. Held(state_ = "kConnecting") \in Nat /\ Held(conn # "none") \in Nat
    BY DEF Held
  <2> QED
    BY <1>2, <1>4, <2>1, <2>2
<1>7. TypeOK'
  BY <1>1, <1>2, <1>4, <1>5, <1>6 DEF TypeOK, clientVars, Names
<1>8. Rounds'
  BY <1>1 DEF Rounds
<1>9. Linked'
  BY <1>1, <1>2, <1>4 DEF Linked, Sound, clientVars
<1>10. SocketsAccounted'
  BY <1>2, <1>6 DEF SocketsAccounted, clientVars
<1>11. Starts' <= connects'
  BY <1>1, <1>2, <1>3, <1>4 DEF Starts, Sound
<1> QED
  BY <1>3, <1>7, <1>8, <1>9, <1>10, <1>11 DEF Sound

LEMMA RunSetCloseCallbackKeeps ==
  ASSUME TypeOK, Scripts, Sound, failed = "none", RunSetCloseCallback
  PROVE  TypeOK' /\ Scripts' /\ Sound'
<1>1. /\ functors \in Seq(Names) /\ functors # <<>>
      /\ batch \in Nat \ {0} /\ batch <= Len(functors) /\ batch' = batch - 1
      /\ "channel" \notin active
      /\ UNCHANGED <<active, due, todo, made, connects, stopped>>
      /\ pc' \in {"poll", "functors"}
      /\ pc' = "functors" => batch' > 0
      /\ pc' = "poll" => batch' = 0
  BY TakesFunctor DEF RunSetCloseCallback
<1>2. /\ Head(functors) = "setCloseCallback" /\ functors' = Tail(functors)
      /\ closeCb' = "detail"
      /\ UNCHANGED <<connect_, attempt, failed, clientConnect, retry_, connection_, conn,
                     client, linger>>
  BY DEF RunSetCloseCallback, Functor
<1>3. Scripts' /\ Owed("loop")' = Owed("loop") /\ Owed("thread")' = Owed("thread")
  BY <1>1, <1>2, ScriptsStay DEF Actors
<1>4. /\ functors' \in Seq(Names) /\ Len(functors') = Len(functors) - 1
      /\ Count("startInLoop")' = Count("startInLoop")
      /\ Count("connectDestroyed")' = Count("connectDestroyed")
      /\ Count("setCloseCallback")' \in Nat
      /\ Count("setCloseCallback") = Count("setCloseCallback")' + 1
  BY <1>1, <1>2, QueueLoses DEF Names
<1>5. batch' \in 0 .. Len(functors')
  BY <1>1, <1>4
<1>6. TypeOK'
  BY <1>1, <1>2, <1>4, <1>5 DEF TypeOK, attempt, Names
<1>7. Rounds'
  BY <1>1 DEF Rounds
<1>8. Linked'
  <2>1. client # "alive"
    BY <1>4 DEF Sound, Linked
  <2> QED
    BY <1>1, <1>2, <2>1 DEF Linked, Sound, attempt
<1>9. SocketsAccounted'
  BY <1>2, <1>4 DEF SocketsAccounted, Sound, attempt
<1>10. Starts' <= connects'
  BY <1>1, <1>2, <1>3, <1>4 DEF Starts, Sound, attempt
<1> QED
  BY <1>3, <1>6, <1>7, <1>8, <1>9, <1>10 DEF Sound

LEMMA ConnectionClosesKeeps ==
  ASSUME TypeOK, Scripts, Sound, failed = "none", todo["loop"] = <<>>, ConnectionCloses
  PROVE  TypeOK' /\ Scripts' /\ Sound'
<1>1. /\ pc = "events" /\ active' = active \ {"conn"} /\ conn # "none" /\ conn' = "none"
      /\ functors' = Append(functors, "connectDestroyed")
      /\ pc' \in {pc, "restart"}
      /\ IF closeCb = "client" THEN connection_' = FALSE ELSE UNCHANGED connection_
      /\ UNCHANGED <<connect_, attempt, clientConnect, retry_, closeCb, client, linger, due,
                     batch, userVars>>
  BY DEF ConnectionCloses, Event, RemoveConnection
<1>2. Scripts' /\ Owed("loop")' = Owed("loop") /\ Owed("thread")' = Owed("thread")
  BY <1>1, ScriptsStay DEF userVars, Actors
<1>3. state_ = "kConnected" /\ "channel" \notin active
  BY <1>1 DEF Sound, Linked
<1>4. /\ functors' \in Seq(Names) /\ Len(functors') = Len(functors) + 1
      /\ Count("startInLoop")' = Count("startInLoop")
      /\ Count("connectDestroyed")' = Count("connectDestroyed") + 1
      /\ Count("setCloseCallback")' = Count("setCloseCallback")
  BY <1>1, FunctorsType, QueueGains DEF Names
<1>5. TypeOK'
  <2>1. connection_' \in BOOLEAN
    BY <1>1 DEF TypeOK
  <2>2. batch' \in 0 .. Len(functors')
    BY <1>1, <1>4 DEF TypeOK
  <2>3. active' \subseteq Events
    BY <1>1 DEF TypeOK
  <2> QED
    BY <1>1, <1>4, <2>1, <2>2, <2>3 DEF TypeOK, attempt, userVars, Names
<1>6. Rounds'
  BY <1>1, <1>3 DEF Rounds, Sound, attempt, userVars
<1>7. Linked'
  BY <1>1, <1>3, <1>4 DEF Linked, Sound, attempt, userVars
<1>8. SocketsAccounted'
  BY <1>1, <1>3, <1>4, SumTypes DEF SocketsAccounted, Sound, attempt, Held
<1>9. Starts' <= connects'
  BY <1>1, <1>2, <1>4 DEF Starts, Sound, attempt, userVars
<1> QED
  BY <1>2, <1>5, <1>6, <1>7, <1>8, <1>9 DEF Sound

LEMMA RunForceCloseKeeps ==
  ASSUME TypeOK, Scripts, Sound, failed = "none", todo["loop"] = <<>>, RunForceClose
  PROVE  TypeOK' /\ Scripts' /\ Sound'
<1>1. /\ functors \in Seq(Names) /\ functors # <<>>
      /\ batch \in Nat \ {0} /\ batch <= Len(functors) /\ batch' = batch - 1
      /\ "channel" \notin active
      /\ UNCHANGED <<active, due, todo, made, connects, stopped>>
  BY TakesFunctor DEF RunForceClose
<1>2. /\ Then \in {"poll", "functors"}
      /\ Then = "functors" => batch' > 0
      /\ Then = "poll" => batch' = 0
  BY <1>1 DEF Then
<1>3. /\ Head(functors) = "forceClose"
      /\ UNCHANGED <<connect_, attempt, clientConnect, retry_, closeCb, client, linger>>
  BY DEF RunForceClose, Functor
<1>4. Scripts' /\ Owed("loop")' = Owed("loop") /\ Owed("thread")' = Owed("thread")
  BY <1>1, <1>3, ScriptsStay DEF Actors
<1>5. CASE conn # "none"
  <2>1. /\ functors' = Append(Tail(functors), "connectDestroyed") /\ conn' = "none"
        /\ pc' \in {Then, "restart"}
        /\ IF closeCb = "client" THEN connection_' = FALSE ELSE UNCHANGED connection_
    BY <1>5 DEF RunForceClose, RemoveConnection
  <2>2. /\ functors' \in Seq(Names) /\ Len(functors') = Len(functors)
        /\ Count("startInLoop")' = Count("startInLoop")
        /\ Count("connectDestroyed")' = Count("connectDestroyed") + 1
        /\ Count("setCloseCallback")' = Count("setCloseCallback")
    <3>1. \A f \in {"startInLoop", "connectDestroyed", "setCloseCallback"} : f \in Names
      BY DEF Names
    <3> QED
      BY <1>1, <1>3, <2>1, <3>1, QueueTurns
  <2>3. state_ = "kConnected"
    BY <1>5 DEF Sound, Linked
  <2>4. TypeOK'
    <3>1. connection_' \in BOOLEAN
      BY <2>1 DEF TypeOK
    <3>2. batch' \in 0 .. Len(functors')
      BY <1>1, <2>2
    <3> QED
      BY <1>1, <1>2, <1>3, <2>1, <2>2, <3>1, <3>2 DEF TypeOK, attempt, Names
  <2>5. Rounds'
    BY <1>1, <1>2, <1>3, <2>1, <2>3 DEF Rounds, Sound, attempt
  <2>6. Linked'
    BY <1>1, <1>3, <2>1, <2>2 DEF Linked, Sound, attempt
  <2>7. SocketsAccounted'
    BY <1>3, <1>5, <2>1, <2>2, <2>3, SumTypes DEF SocketsAccounted, Sound, attempt, Held
  <2>8. Starts' <= connects'
    BY <1>1, <1>3, <1>4, <2>2 DEF Starts, Sound, attempt
  <2> QED
    BY <1>4, <2>4, <2>5, <2>6, <2>7, <2>8 DEF Sound
<1>6. CASE conn = "none"
  <2>1. functors' = Tail(functors) /\ pc' = Then /\ UNCHANGED <<conn, connection_, failed>>
    BY <1>6 DEF RunForceClose
  <2>2. /\ functors' \in Seq(Names) /\ Len(functors') = Len(functors) - 1
        /\ Count("startInLoop")' = Count("startInLoop")
        /\ Count("connectDestroyed")' = Count("connectDestroyed")
        /\ Count("setCloseCallback")' = Count("setCloseCallback")
    BY <1>1, <1>3, <2>1, QueueLoses DEF Names
  <2>3. batch' \in 0 .. Len(functors')
    BY <1>1, <2>2
  <2>4. TypeOK'
    BY <1>1, <1>2, <1>3, <2>1, <2>2, <2>3 DEF TypeOK, attempt, Names
  <2>5. Rounds'
    BY <1>1, <1>2, <2>1 DEF Rounds
  <2>6. Linked'
    BY <1>1, <1>3, <2>1, <2>2 DEF Linked, Sound, attempt
  <2>7. SocketsAccounted'
    BY <1>3, <2>1, <2>2 DEF SocketsAccounted, Sound, attempt
  <2>8. Starts' <= connects'
    BY <1>1, <1>3, <1>4, <2>2 DEF Starts, Sound, attempt
  <2> QED
    BY <1>4, <2>4, <2>5, <2>6, <2>7, <2>8 DEF Sound
<1> QED
  BY <1>5, <1>6

\* A step of a call: what is left of it, and what it still owes.
LEMMA TakesStep ==
  ASSUME Scripts, Sound, NEW a \in Actors, NEW s, s # "lookup", Step(a, s)
  PROVE  /\ (client' = "alive" <=> client = "alive") => Scripts'
         /\ todo' \in [Actors -> Alive \cup Dying] /\ todo[a] # <<>>
         /\ todo'[a] = Tail(todo[a]) /\ Head(todo[a]) = s
         /\ \A b \in Actors \ {a} : todo'[b] = todo[b] /\ Owed(b)' = Owed(b)
         /\ s = "startInLoop" => todo[a] \in ConnectSteps /\ Owed(a) = 1 /\ Owed(a)' = 0
         /\ s # "startInLoop" => Owed(a)' = Owed(a)
         /\ s \in {"client+", "client-", "connector+", "shutdown", "retry", "startInLoop"}
              => client = "alive"
         /\ s \in {"setCloseCallback", "forceClose", "free", "release"}
              => client # "alive"
         /\ pc = "restart" => a = "thread" /\ todo'["loop"] = <<>>
         /\ UNCHANGED <<pc, active, due, batch, made, connects>>
<1>1. /\ todo[a] # <<>> /\ Head(todo[a]) = s
      /\ todo' = [todo EXCEPT ![a] = Tail(@)]
      /\ UNCHANGED <<pc, active, due, batch, made, connects>>
  BY DEF Step, loopVars
<1>2. /\ todo \in [Actors -> Alive \cup Dying]
      /\ \A b \in Actors : todo[b] \in IF client = "alive" THEN Alive ELSE Dying
  BY DEF Scripts
<1>3. todo'[a] = Tail(todo[a]) /\ \A b \in Actors \ {a} : todo'[b] = todo[b]
  BY <1>1, <1>2
<1>4. /\ todo[a] \in Alive => Tail(todo[a]) \in Alive
      /\ todo[a] \in Dying => Tail(todo[a]) \in Dying
      /\ s = "startInLoop" => todo[a] \in ConnectSteps
      /\ Tail(todo[a]) \in ConnectSteps <=> todo[a] \in ConnectSteps /\ s # "startInLoop"
      /\ s \in {"client+", "client-", "connector+", "shutdown", "retry", "startInLoop"}
           => todo[a] \notin Dying
      /\ s \in {"setCloseCallback", "forceClose", "free", "release"} => todo[a] \notin Alive
  BY <1>1, <1>2, ScriptTail
<1>5. todo' \in [Actors -> Alive \cup Dying]
  BY <1>1, <1>2, <1>4
<1>6. (client' = "alive" <=> client = "alive") => Scripts'
  BY <1>2, <1>3, <1>4, <1>5 DEF Scripts
<1>7. \A b \in Actors \ {a} : Owed(b)' = Owed(b)
  BY <1>3 DEF Owed
<1>8. /\ s = "startInLoop" => Owed(a) = 1 /\ Owed(a)' = 0
      /\ s # "startInLoop" => Owed(a)' = Owed(a)
  BY <1>3, <1>4 DEF Owed, Held
<1>9. pc = "restart" => a = "thread" /\ todo'["loop"] = <<>>
  BY <1>1, <1>3 DEF Sound, Rounds, Actors
<1> QED
  BY <1>1, <1>2, <1>3, <1>4, <1>5, <1>6, <1>7, <1>8, <1>9

\* The sum of what is owed, when a step has not paid.
LEMMA OwedSame ==
  ASSUME NEW a \in Actors, Owed(a)' = Owed(a), \A b \in Actors \ {a} : Owed(b)' = Owed(b)
  PROVE  Owed("loop")' = Owed("loop") /\ Owed("thread")' = Owed("thread")
BY DEF Actors

\* The steps of a call that set a flag or close the connection's write side.
LEMMA SetterKeeps ==
  ASSUME TypeOK, Scripts, Sound, failed = "none", NEW a \in Actors,
         \/ \E s \in {"client+", "client-", "connector+", "connector-"} : SetConnect(a, s)
         \/ SetRetry(a) \/ Disconnect(a)
  PROVE  TypeOK' /\ Scripts' /\ Sound'
<1>1. PICK s \in {"client+", "client-", "connector+", "connector-", "retry", "shutdown"} :
        /\ Step(a, s)
        /\ conn' = IF s = "shutdown" /\ connection_ THEN "shut" ELSE conn
        /\ connect_' \in BOOLEAN /\ clientConnect' \in BOOLEAN /\ retry_' \in BOOLEAN
        /\ UNCHANGED <<attempt, functors, failed, connection_, closeCb, client, linger, stopped>>
  <2>1. CASE \E s \in {"client+", "client-", "connector+", "connector-"} : SetConnect(a, s)
    BY <2>1 DEF SetConnect, TypeOK
  <2>2. CASE SetRetry(a)
    BY <2>2 DEF SetRetry, TypeOK
  <2>3. CASE Disconnect(a)
    BY <2>3 DEF Disconnect, TypeOK
  <2> QED
    BY <2>1, <2>2, <2>3
<1>2. /\ Scripts' /\ Owed("loop")' = Owed("loop") /\ Owed("thread")' = Owed("thread")
      /\ pc = "restart" => todo'["loop"] = <<>>
      /\ s = "shutdown" => client = "alive"
      /\ UNCHANGED <<pc, active, due, batch, made, connects>>
  <2>1. /\ s # "lookup" /\ s # "startInLoop"
        /\ client' = client
    BY <1>1
  <2>2. /\ Scripts' /\ Owed(a)' = Owed(a) /\ \A b \in Actors \ {a} : Owed(b)' = Owed(b)
        /\ pc = "restart" => todo'["loop"] = <<>>
        /\ s = "shutdown" => client = "alive"
        /\ UNCHANGED <<pc, active, due, batch, made, connects>>
    BY <1>1, <2>1, TakesStep
  <2> QED
    BY <2>2, OwedSame
<1>3. conn' = "none" <=> conn = "none"
  BY <1>1, <1>2 DEF Sound, Linked
<1>4. /\ Count("startInLoop")' = Count("startInLoop")
      /\ Count("connectDestroyed")' = Count("connectDestroyed")
      /\ Count("setCloseCallback")' = Count("setCloseCallback")
  BY <1>1 DEF Count
<1>5. TypeOK'
  BY <1>1, <1>2 DEF TypeOK, attempt
<1>6. Rounds'
  BY <1>1, <1>2, <1>3 DEF Rounds, Sound, attempt
<1>7. Linked'
  BY <1>1, <1>2, <1>3, <1>4 DEF Linked, Sound, attempt
<1>8. SocketsAccounted'
  BY <1>1, <1>3, <1>4 DEF SocketsAccounted, Sound, attempt
<1>9. Starts' <= connects'
  BY <1>1, <1>2, <1>4 DEF Starts, Sound, attempt
<1> QED
  BY <1>2, <1>5, <1>6, <1>7, <1>8, <1>9 DEF Sound

LEMMA StartNowKeeps ==
  ASSUME TypeOK, Scripts, Sound, failed = "none", StartNow
  PROVE  TypeOK' /\ Scripts' /\ (failed' = "none" => Sound')
<1>1. /\ Step("loop", "startInLoop")
      /\ UNCHANGED <<connect_, functors, clientVars, stopped>>
  BY DEF StartNow
<1>2. /\ Scripts' /\ Owed("loop") = 1 /\ Owed("loop")' = 0
      /\ Owed("thread")' = Owed("thread")
      /\ pc # "restart"
      /\ UNCHANGED <<pc, active, due, batch, made, connects>>
  BY <1>1, TakesStep DEF Actors, clientVars
<1>3. /\ AttemptTyped'
      /\ failed' = "none" =>
           /\ state_ = "kDisconnected"
           /\ \/ state_' = "kConnecting" /\ open' = open + 1 /\ timers' = timers
              \/ /\ state_' = "kDisconnected" /\ open' = open
                 /\ timers' \in {timers, timers + 1}
  BY FunctorsType, StartOutcome DEF StartNow, attempt, TypeOK
<1>4. /\ Count("startInLoop")' = Count("startInLoop")
      /\ Count("connectDestroyed")' = Count("connectDestroyed")
      /\ Count("setCloseCallback")' = Count("setCloseCallback")
  BY <1>1 DEF Count
<1>5. TypeOK'
  BY <1>1, <1>2, <1>3 DEF TypeOK, AttemptTyped, clientVars
<1>6. ASSUME failed' = "none" PROVE Sound'
  <2>1. Rounds'
    BY <1>2 DEF Rounds, Sound
  <2>2. Linked'
    BY <1>1, <1>2, <1>3, <1>4, <1>6 DEF Linked, Sound, clientVars
  <2>3. SocketsAccounted'
    BY <1>1, <1>3, <1>4, <1>6, SumTypes DEF SocketsAccounted, Sound, clientVars, Held
  <2>4. Starts' <= connects'
    BY <1>2, <1>3, <1>4, <1>6, SumTypes DEF Starts, Sound, Held
  <2> QED
    BY <2>1, <2>2, <2>3, <2>4 DEF Sound
<1> QED
  BY <1>2, <1>5, <1>6

LEMMA SetCloseCallbackNowKeeps ==
  ASSUME TypeOK, Scripts, Sound, failed = "none", SetCloseCallbackNow
  PROVE  TypeOK' /\ Scripts' /\ Sound'
<1>1. /\ Step("loop", "setCloseCallback") /\ closeCb' = "detail"
      /\ UNCHANGED <<connect_, attempt, functors, failed, clientConnect, retry_,
                     connection_, conn, client, linger, stopped>>
  BY DEF SetCloseCallbackNow
<1>2. /\ Scripts' /\ Owed("loop")' = Owed("loop") /\ Owed("thread")' = Owed("thread")
      /\ pc # "restart" /\ client # "alive"
      /\ UNCHANGED <<pc, active, due, batch, made, connects>>
  BY <1>1, TakesStep DEF Actors
<1>3. /\ Count("startInLoop")' = Count("startInLoop")
      /\ Count("connectDestroyed")' = Count("connectDestroyed")
      /\ Count("setCloseCallback")' = Count("setCloseCallback")
  BY <1>1 DEF Count
<1>4. TypeOK'
  BY <1>1, <1>2 DEF TypeOK, attempt
<1>5. Rounds'
  BY <1>1, <1>2 DEF Rounds, Sound, attempt
<1>6. Linked'
  BY <1>1, <1>2, <1>3 DEF Linked, Sound, attempt
<1>7. SocketsAccounted'
  BY <1>1, <1>3 DEF SocketsAccounted, Sound, attempt
<1>8. Starts' <= connects'
  BY <1>1, <1>2, <1>3 DEF Starts, Sound, attempt
<1> QED
  BY <1>2, <1>4, <1>5, <1>6, <1>7, <1>8 DEF Sound

LEMMA QueueKeeps ==
  ASSUME TypeOK, Scripts, Sound, failed = "none", NEW a \in Actors,
         NEW f \in {"startInLoop", "stopInLoop", "setCloseCallback", "forceClose"},
         Queue(a, f)
  PROVE  TypeOK' /\ Scripts' /\ Sound'
<1>1. /\ Step(a, f) /\ functors' = Append(functors, f)
      /\ stopped' \in {"yes", stopped}
      /\ UNCHANGED <<connect_, attempt, failed, clientVars>>
  BY DEF Queue
<1>2. /\ Scripts'
      /\ \A b \in Actors \ {a} : Owed(b)' = Owed(b)
      /\ f = "startInLoop" => Owed(a) = 1 /\ Owed(a)' = 0
      /\ f # "startInLoop" => Owed(a)' = Owed(a)
      /\ f = "setCloseCallback" => client # "alive"
      /\ pc = "restart" => todo'["loop"] = <<>>
      /\ UNCHANGED <<pc, active, due, batch, made, connects>>
  BY <1>1, TakesStep DEF clientVars
<1>3. /\ functors' \in Seq(Names) /\ Len(functors') = Len(functors) + 1
      /\ Count("startInLoop")' =
           IF f = "startInLoop" THEN Count("startInLoop") + 1 ELSE Count("startInLoop")
      /\ Count("connectDestroyed")' = Count("connectDestroyed")
      /\ f # "setCloseCallback" => Count("setCloseCallback")' = Count("setCloseCallback")
  BY <1>1, FunctorsType, QueueGains DEF Names
<1>4. TypeOK'
  <2>1. batch' \in 0 .. Len(functors')
    BY <1>2, <1>3 DEF TypeOK
  <2>2. stopped' \in {"no", "stopping", "yes"}
    BY <1>1 DEF TypeOK
  <2> QED
    BY <1>1, <1>2, <1>3, <2>1, <2>2 DEF TypeOK, attempt, clientVars, Names
<1>5. Rounds'
  BY <1>1, <1>2 DEF Rounds, Sound, attempt, clientVars
<1>6. Linked'
  BY <1>1, <1>2, <1>3 DEF Linked, Sound, attempt, clientVars
<1>7. SocketsAccounted'
  BY <1>1, <1>3 DEF SocketsAccounted, Sound, attempt, clientVars
<1>8. Starts' <= connects'
  <2>1. timers' = timers /\ due' = due /\ connects' = connects /\ state_' = state_
    BY <1>1, <1>2 DEF attempt
  <2>2. CASE f # "startInLoop"
    <3>1. Owed("loop")' = Owed("loop") /\ Owed("thread")' = Owed("thread")
      BY <1>2, <2>2, OwedSame
    <3> QED
      BY <1>3, <2>1, <2>2, <3>1 DEF Starts, Sound
  <2>3. CASE f = "startInLoop"
    <3>1. Owed("loop")' + Owed("thread")' + Count("startInLoop")'
            = Owed("loop") + Owed("thread") + Count("startInLoop")
      <4>1. Count("startInLoop")' = Count("startInLoop") + 1
        BY <1>3, <2>3
      <4>2. \/ /\ Owed("loop") = 1 /\ Owed("loop")' = 0
               /\ Owed("thread")' = Owed("thread")
            \/ /\ Owed("thread") = 1 /\ Owed("thread")' = 0
               /\ Owed("loop")' = Owed("loop")
        BY <1>2, <2>3 DEF Actors
      <4> QED
        BY <4>1, <4>2, SumTypes
    <3> QED
      BY <2>1, <3>1 DEF Starts, Sound
  <2> QED
    BY <2>2, <2>3
<1> QED
  BY <1>2, <1>4, <1>5, <1>6, <1>7, <1>8 DEF Sound

\* A call as a whole: which of its lists of steps it begins with.
LEMMA StepsType ==
  /\ Steps("connect") \in ConnectSteps /\ Steps("stop") \in StopSteps
  /\ Steps("disconnect") \in OtherSteps /\ Steps("enableRetry") \in OtherSteps
  /\ Steps("destroy") = <<"lookup">>
  /\ <<"lookup">> \notin Alive
  /\ \A t \in StopSteps \cup OtherSteps \cup LeaveSteps \cup HaltSteps
                \cup {<<"lookup">>, <<>>} : t \notin ConnectSteps
<1>1. /\ Steps("connect") \in ConnectSteps /\ Steps("stop") \in StopSteps
      /\ Steps("disconnect") \in OtherSteps /\ Steps("enableRetry") \in OtherSteps
      /\ Steps("destroy") = <<"lookup">>
  BY DEF Steps, ConnectSteps, StopSteps, OtherSteps
<1>2. <<"lookup">> \notin Alive
  BY LookupTail, ConnectTail, StopTail, OtherTail DEF Alive
<1>3. \A t \in StopSteps : t \notin ConnectSteps
  BY ConnectTail, StopTail
<1>4. \A t \in OtherSteps : t \notin ConnectSteps
  BY ConnectTail, OtherTail
<1>5. \A t \in LeaveSteps : t \notin ConnectSteps
  BY ConnectTail, LeaveTail
<1>6. \A t \in HaltSteps : t \notin ConnectSteps
  BY ConnectTail, HaltTail
<1>7. \A t \in {<<"lookup">>, <<>>} : t \notin ConnectSteps
  BY ConnectTail, LookupTail
<1> QED
  BY <1>1, <1>2, <1>3, <1>4, <1>5, <1>6, <1>7

LEMMA LookUpKeeps ==
  ASSUME TypeOK, Scripts, Sound, failed = "none", NEW a \in Actors, LookUp(a)
  PROVE  TypeOK' /\ Scripts' /\ Sound'
<1>1. PICK steps \in Teardowns : todo' = [todo EXCEPT ![a] = steps]
  BY DEF LookUp
<1>2. /\ todo[a] = <<"lookup">>
      /\ UNCHANGED <<connect_, attempt, functors, failed, clientVars, loopVars, made, connects,
                     stopped>>
  BY DEF LookUp
<1>3. steps \in LeaveSteps \cup HaltSteps
  BY DEF Teardowns, LeaveSteps, HaltSteps
<1>4. /\ todo \in [Actors -> Alive \cup Dying]
      /\ \A b \in Actors : todo[b] \in IF client = "alive" THEN Alive ELSE Dying
  BY DEF Scripts
<1>5. client # "alive"
  BY <1>2, <1>4, StepsType
<1>6. todo'[a] = steps /\ \A b \in Actors \ {a} : todo'[b] = todo[b]
  BY <1>1, <1>4
<1>7. Scripts'
  BY <1>1, <1>2, <1>3, <1>4, <1>5, <1>6 DEF Scripts, Dying, clientVars
<1>8. Owed("loop")' = Owed("loop") /\ Owed("thread")' = Owed("thread")
  <2>1. Owed(a)' = Owed(a)
    BY <1>2, <1>3, <1>6, StepsType DEF Owed
  <2>2. \A b \in Actors \ {a} : Owed(b)' = Owed(b)
    BY <1>6 DEF Owed
  <2> QED
    BY <2>1, <2>2, OwedSame
<1>9. pc = "restart" => todo'["loop"] = <<>>
  <2>1. <<"lookup">> # <<>>
    BY LookupTail
  <2> QED
    BY <1>2, <1>6, <2>1 DEF Sound, Rounds, Actors
<1>10. /\ Count("startInLoop")' = Count("startInLoop")
       /\ Count("connectDestroyed")' = Count("connectDestroyed")
       /\ Count("setCloseCallback")' = Count("setCloseCallback")
  BY <1>2 DEF Count
<1>11. TypeOK'
  BY <1>2 DEF TypeOK, attempt, clientVars, loopVars
<1>12. Rounds'
  BY <1>2, <1>9 DEF Rounds, Sound, attempt, clientVars, loopVars
<1>13. Linked'
  BY <1>2, <1>10 DEF Linked, Sound, attempt, clientVars, loopVars
<1>14. SocketsAccounted'
  BY <1>2, <1>10 DEF SocketsAccounted, Sound, attempt, clientVars
<1>15. Starts' <= connects'
  BY <1>2, <1>8, <1>10 DEF Starts, Sound, attempt, loopVars
<1> QED
  BY <1>7, <1>11, <1>12, <1>13, <1>14, <1>15 DEF Sound

LEMMA ReleaseKeeps ==
  ASSUME TypeOK, Scripts, Sound, failed = "none", NEW a \in Actors,
         NEW s \in {"free", "release"}, Release(a, s)
  PROVE  TypeOK' /\ Scripts' /\ Sound'
<1>1. /\ Step(a, s) /\ client' = "gone" /\ linger' \in BOOLEAN
      /\ UNCHANGED <<connect_, attempt, functors, failed, clientConnect, retry_, connection_,
                     closeCb, conn, stopped>>
  BY DEF Release
<1>2. /\ Scripts' /\ Owed("loop")' = Owed("loop") /\ Owed("thread")' = Owed("thread")
      /\ pc = "restart" => todo'["loop"] = <<>>
      /\ UNCHANGED <<pc, active, due, batch, made, connects>>
  <2>1. s # "lookup" /\ s # "startInLoop"
    OBVIOUS
  <2>2. /\ (client' = "alive" <=> client = "alive") => Scripts'
        /\ client # "alive"
        /\ Owed(a)' = Owed(a) /\ \A b \in Actors \ {a} : Owed(b)' = Owed(b)
        /\ pc = "restart" => todo'["loop"] = <<>>
        /\ UNCHANGED <<pc, active, due, batch, made, connects>>
    BY <1>1, <2>1, TakesStep
  <2> QED
    BY <1>1, <2>2, OwedSame
<1>3. /\ Count("startInLoop")' = Count("startInLoop")
      /\ Count("connectDestroyed")' = Count("connectDestroyed")
      /\ Count("setCloseCallback")' = Count("setCloseCallback")
  BY <1>1 DEF Count
<1>4. TypeOK'
  BY <1>1, <1>2 DEF TypeOK, attempt
<1>5. Rounds'
  BY <1>1, <1>2 DEF Rounds, Sound, attempt
<1>6. Linked'
  BY <1>1, <1>2 DEF Linked, Sound, attempt
<1>7. SocketsAccounted'
  BY <1>1, <1>3 DEF SocketsAccounted, Sound, attempt
<1>8. Starts' <= connects'
  BY <1>1, <1>2, <1>3 DEF Starts, Sound, attempt
<1> QED
  BY <1>2, <1>4, <1>5, <1>6, <1>7, <1>8 DEF Sound

\* A call that begins: its list of steps, and one more start owed by connect().
LEMMA CallKeeps ==
  ASSUME TypeOK, Scripts, Sound, failed = "none", NEW a \in Actors, NEW op \in Calls,
         Call(a, op)
  PROVE  TypeOK' /\ Scripts' /\ Sound'
<1>1. /\ a = "loop" => pc \in {"events", "functors"}
      /\ client = "alive" /\ todo[a] = <<>> /\ made < MaxCalls
      /\ op = "connect" => connects < MaxConnects
      /\ op = "destroy" => \A b \in Actors : todo[b] = <<>>
      /\ todo' = [todo EXCEPT ![a] = Steps(op)]
      /\ made' = made + 1
      /\ connects' = IF op = "connect" THEN connects + 1 ELSE connects
      /\ client' = IF op = "destroy" THEN "dying" ELSE client
      /\ stopped' \in {"no", "stopping", stopped}
      /\ UNCHANGED <<connect_, attempt, functors, failed, clientConnect, retry_,
                     connection_, closeCb, conn, linger, loopVars>>
  BY DEF Call
<1>2. /\ todo \in [Actors -> Alive \cup Dying]
      /\ \A b \in Actors : todo[b] \in Alive
  BY <1>1 DEF Scripts
<1>3. todo'[a] = Steps(op) /\ \A b \in Actors \ {a} : todo'[b] = todo[b]
  BY <1>1, <1>2
<1>4. Scripts'
  <2>1. <<>> \in Dying /\ <<"lookup">> \in Dying
    BY DEF Dying
  <2>2. CASE op = "destroy"
    <3>1. \A b \in Actors : todo'[b] \in Dying
      BY <1>1, <1>3, <2>1, <2>2, StepsType
    <3> QED
      BY <1>1, <1>2, <2>1, <2>2, <3>1, StepsType DEF Scripts
  <2>3. CASE op # "destroy"
    <3>1. Steps(op) \in Alive
      BY <2>3, StepsType DEF Calls, Alive
    <3> QED
      BY <1>1, <1>2, <1>3, <2>3, <3>1 DEF Scripts
  <2> QED
    BY <2>2, <2>3
<1>5. /\ \A b \in Actors \ {a} : Owed(b)' = Owed(b)
      /\ Owed(a) = 0 /\ Owed(a)' = IF op = "connect" THEN 1 ELSE 0
  <2>1. todo[a] \notin ConnectSteps
    BY <1>1, StepsType
  <2>2. Steps(op) \in ConnectSteps <=> op = "connect"
    BY StepsType DEF Calls
  <2> QED
    BY <1>3, <2>1, <2>2 DEF Owed, Held
<1>6. /\ Count("startInLoop")' = Count("startInLoop")
      /\ Count("connectDestroyed")' = Count("connectDestroyed")
      /\ Count("setCloseCallback")' = Count("setCloseCallback")
  BY <1>1 DEF Count
<1>7. TypeOK'
  <2>1. made' \in 0 .. MaxCalls /\ connects' \in 0 .. MaxConnects
    BY <1>1, TcpClientAssumption DEF TypeOK
  <2>2. client' \in {"alive", "dying", "gone"} /\ stopped' \in {"no", "stopping", "yes"}
    BY <1>1 DEF TypeOK
  <2> QED
    BY <1>1, <2>1, <2>2 DEF TypeOK, attempt, loopVars
<1>8. Rounds'
  BY <1>1, <1>3 DEF Rounds, Sound, attempt, loopVars, Actors
<1>9. Linked'
  BY <1>1, <1>6 DEF Linked, Sound, attempt, loopVars
<1>10. SocketsAccounted'
  BY <1>1, <1>6 DEF SocketsAccounted, Sound, attempt
<1>11. Starts' <= connects'
  <2>1. timers' = timers /\ due' = due /\ state_' = state_
    BY <1>1 DEF attempt, loopVars
  <2>2. CASE op = "connect"
    <3>1. Owed("loop")' + Owed("thread")' = Owed("loop") + Owed("thread") + 1
      BY <1>5, <2>2, SumTypes DEF Actors
    <3>2. Starts' = Starts + 1
      BY <1>6, <2>1, <3>1, SumTypes DEF Starts, Held
    <3>3. Starts \in Nat /\ Starts <= connects /\ connects' = connects + 1
      BY <1>1, <2>2, SumTypes DEF Starts, Held, Sound
    <3> QED
      BY <3>2, <3>3, SumTypes
  <2>3. CASE op # "connect"
    <3>1. Owed("loop")' = Owed("loop") /\ Owed("thread")' = Owed("thread")
      BY <1>5, <2>3, OwedSame
    <3> QED
      BY <1>1, <1>6, <2>1, <2>3, <3>1 DEF Starts, Sound
  <2> QED
    BY <2>2, <2>3
<1> QED
  BY <1>4, <1>7, <1>8, <1>9, <1>10, <1>11 DEF Sound

LEMMA ClientInit == Init => ClientInv
<1> SUFFICES ASSUME Init PROVE ClientInv
  OBVIOUS
<1> USE DEF Init, ConnectorInit
<1>1. TypeOK
  <2>1. /\ retryDelayMs_ \in kInitRetryDelayMs .. kMaxRetryDelayMs
        /\ made \in 0 .. MaxCalls /\ connects \in 0 .. MaxConnects
    BY ConnectorAssumption, TcpClientAssumption
  <2>2. functors \in Seq(Names) /\ batch \in 0 .. Len(functors)
    OBVIOUS
  <2>3. /\ connect_ \in BOOLEAN /\ channel_ \in BOOLEAN /\ gaveUp \in BOOLEAN
        /\ clientConnect \in BOOLEAN /\ retry_ \in BOOLEAN /\ connection_ \in BOOLEAN
        /\ linger \in BOOLEAN
    OBVIOUS
  <2> QED
    BY <2>1, <2>2, <2>3 DEF TypeOK, Names
<1>2. \A a \in Actors : todo[a] = <<>> /\ todo[a] \in Alive /\ Owed(a) = 0
  BY StepsType DEF Owed, Held, Alive
<1>3. Scripts
  BY <1>2 DEF Scripts
<1>4. \A f \in Names : Count(f) = 0
  BY <1>1, FunctorsType, CountType
<1>5. Rounds
  BY DEF Rounds
<1>6. Linked
  BY <1>4 DEF Linked, Names
<1>7. SocketsAccounted
  BY <1>4 DEF SocketsAccounted, Names, Held
<1>8. Starts <= connects
  <2>1. Owed("loop") = 0 /\ Owed("thread") = 0 /\ Count("startInLoop") = 0
    BY <1>2, <1>4 DEF Actors, Names
  <2> QED
    BY <2>1 DEF Starts, Held
<1> QED
  BY <1>1, <1>3, <1>5, <1>6, <1>7, <1>8 DEF ClientInv

\* Every step keeps the invariant.
LEMMA ClientNext == ClientInv /\ [Next]_vars => ClientInv'
<1> SUFFICES ASSUME ClientInv, [Next]_vars PROVE ClientInv'
  OBVIOUS
<1>1. CASE UNCHANGED vars
  <2>1. Scripts' /\ \A a \in Actors : Owed(a)' = Owed(a)
    BY <1>1, ScriptsStay DEF ClientInv, vars, clientVars, userVars
  <2>2. \A f : Count(f)' = Count(f)
    BY <1>1 DEF Count, vars
  <2>3. TypeOK'
    BY <1>1 DEF ClientInv, TypeOK, vars, attempt, clientVars, loopVars, userVars
  <2>4. ASSUME failed' = "none" PROVE Rounds' /\ Linked' /\ SocketsAccounted'
    BY <1>1, <2>2, <2>4 DEF ClientInv, Rounds, Linked, SocketsAccounted, vars, attempt,
       clientVars, loopVars, userVars
  <2>5. ASSUME failed' = "none" PROVE Starts' <= connects'
    BY <1>1, <2>1, <2>2, <2>5 DEF ClientInv, Starts, Actors, vars, attempt, loopVars, userVars
  <2> QED
    BY <2>1, <2>3, <2>4, <2>5 DEF ClientInv
<1>2. CASE Next
  <2>1. failed = "none" /\ TypeOK /\ Scripts /\ Sound
    BY <1>2 DEF Next, Running, ClientInv, Sound
  <2>2. SUFFICES TypeOK' /\ Scripts' /\ (failed' = "none" => Sound')
    BY DEF ClientInv, Sound
  <2>3. CASE LoopNext
    BY <2>1, <2>3, PollKeeps, HandleErrorKeeps, HandleWriteKeeps, RetryTimerKeeps,
       ConnectionClosesKeeps, RestartConnectorKeeps, RemoveConnectorKeeps, DoPendingFunctorsKeeps,
       ConnectorGoneKeeps, RunStartKeeps, RunStopKeeps, ResetChannelKeeps,
       ConnectDestroyedKeeps, RunSetCloseCallbackKeeps, RunForceCloseKeeps DEF LoopNext
  <2>4. CASE StartNow \/ SetCloseCallbackNow
    BY <2>1, <2>4, StartNowKeeps, SetCloseCallbackNowKeeps
  <2>5. ASSUME NEW a \in Actors, CallNext(a) PROVE TypeOK' /\ Scripts' /\ Sound'
    BY <2>1, <2>5, SetterKeeps, LookUpKeeps, QueueKeeps, ReleaseKeeps DEF CallNext
  <2>6. ASSUME NEW a \in Actors, NEW op \in Calls, Call(a, op)
        PROVE  TypeOK' /\ Scripts' /\ Sound'
    BY <2>1, <2>6, CallKeeps
  <2> QED
    BY <1>2, <2>3, <2>4, <2>5, <2>6 DEF Next
<1> QED
  BY <1>1, <1>2

LEMMA ClientInvariant == Spec => []ClientInv
BY ClientInit, ClientNext, PTL DEF Spec

\* For any calls on any thread and any number of attempts, every variable keeps its
\* type; in particular the delay between attempts stays between its initial value and
\* its maximum, and no count of timers or sockets goes below zero.
THEOREM TypeCorrect == Spec => []TypeOK
BY ClientInvariant, PTL DEF ClientInv

\* For any calls on any thread, every socket that Connector::connect() has made is that
\* of the attempt, of the connection or of a connection about to be destroyed.
THEOREM SocketsAreAccounted == Spec => []SocketsAccounted
<1>1. ClientInv => SocketsAccounted
  BY DEF ClientInv, SocketsAccounted
<1> QED
  BY <1>1, ClientInvariant, PTL

-----------------------------------------------------------------------------
(* One connect(), and nobody but the loop's thread stops or destroys the client *)

\* Each part is needed.  A second connect() may find state_ where stop() or the first
\* connection left it, and two starts in flight overlap.  A stop() on another thread may
\* come between the test of connect_ in TcpClient::removeConnection() and restart(), which
\* sets the connector's again; a destructor there may leave a callback of the loop behind.
OnceAndOnLoop ==
  /\ MaxConnects <= 1
  /\ ThreadCalls \subseteq {"connect", "disconnect", "enableRetry"}

\* Nothing will begin an attempt or bring up a connection any more.
Halted ==
  /\ ~connect_ /\ pc # "restart"
  /\ \A a \in Actors : todo[a] \notin ConnectSteps
  /\ client = "alive" => connects = 1
  /\ \/ ~clientConnect
     \/ client # "alive" /\ conn = "none"

Queued(f) == Count(f) # 0

\* A resetChannel() among the first n functors.
ResetAmong(n) == \E i \in 1 .. n : functors[i] = "resetChannel"

\* resetChannel() comes before anything that could begin an attempt.
InTime ==
  /\ due = 0 /\ "conn" \notin active
  /\ \/ pc = "events" /\ ResetAmong(Len(functors))
     \/ pc = "functors" /\ ResetAmong(batch)

\* What was reported is handled before the functors.
RoundInv ==
  /\ pc # "events" => active \subseteq {"linger"}
  /\ pc \in {"poll", "functors"} \/ (pc = "restart" /\ batch > 0) => due = 0
  /\ "conn" \in active => conn # "none"

\* The channel of an attempt is reset before the next, and a connection that the
\* destructor has taken over never comes back to the client.
ChannelInv ==
  /\ channel_ => state_ = "kConnecting" \/ Halted \/ InTime
  /\ connects = 0 \/ (\E a \in Actors : todo[a] \in ConnectSteps) \/ Queued("startInLoop")
       => ~channel_
  /\ Queued("forceClose") => closeCb = "detail"
  /\ ~Queued("setCloseCallback")
  /\ closeCb = "detail" => state_ = "kConnected" /\ client # "alive" /\ pc # "restart"

\* What is left of a stop() or of a destructor when connect_ has been cleared, and of a
\* destructor when the connection has another close callback.
Halting == {<<"stopInLoop">>, <<"stopInLoop", "release">>, <<"release">>}
Leaving == {<<"free">>, <<"forceClose", "free">>}

\* What a stop() or a destructor under way has done and relies on.
StopInv ==
  /\ todo["thread"] \in ConnectSteps \cup OtherSteps \cup {<<>>}
  /\ todo["loop"] \in StopSteps \cup HaltSteps =>
       /\ client = "alive" => connects = 1
       /\ \A a \in Actors : todo[a] \notin ConnectSteps
  /\ todo["loop"] # <<>> => pc \in {"events", "functors"}
  /\ todo["loop"] = <<"connector-", "stopInLoop">> => ~clientConnect
  /\ todo["loop"] \in Halting => Halted
  /\ Queued("stopInLoop") => Halted
  /\ stopped = "stopping" => todo["loop"] \in StopSteps
  /\ stopped = "yes" => Halted

\* A destroyed client has left nothing behind that could call it.
Gone ==
  client = "gone" => \/ Halted /\ conn = "none"
                     \/ closeCb = "detail" /\ state_ = "kConnected"

\* What the destructor has found and leaves.
DeathInv ==
  /\ todo["loop"] \in LeaveSteps => state_ = "kConnected"
  /\ todo["loop"] \in Leaving => closeCb = "detail"
  /\ todo["loop"] \in HaltSteps => conn = "none"
  /\ todo["loop"] = <<"lookup">> => closeCb = "client"
  /\ client # "alive" => todo["thread"] = <<>>
  /\ client = "dying" <=> todo["loop"] \in LeaveSteps \cup HaltSteps \cup {<<"lookup">>}
  /\ Gone

LoneInv ==
  /\ failed \notin {"startInLoop", "connecting", "clientGone"}
  /\ failed = "none" => RoundInv /\ ChannelInv /\ StopInv /\ DeathInv

\* The calls differ at every point.
LEMMA Apart ==
  /\ \A t \in ConnectSteps : t \notin StopSteps \cup OtherSteps \cup LeaveSteps \cup HaltSteps
                                        \cup {<<"lookup">>, <<>>}
  /\ \A t \in StopSteps : t \notin OtherSteps \cup LeaveSteps \cup HaltSteps
                                     \cup {<<"lookup">>, <<>>}
  /\ \A t \in OtherSteps : t \notin LeaveSteps \cup HaltSteps \cup {<<"lookup">>, <<>>}
  /\ \A t \in LeaveSteps : t \notin HaltSteps \cup {<<"lookup">>, <<>>}
  /\ \A t \in HaltSteps : t \notin {<<"lookup">>, <<>>}
  /\ <<"lookup">> # <<>>
<1>1. \A t \in ConnectSteps : t \notin StopSteps \cup OtherSteps \cup LeaveSteps \cup HaltSteps
                                         \cup {<<"lookup">>, <<>>}
  BY StepsType
<1>2. /\ Head(<<"connector-", "stopInLoop">>) = "connector-"
      /\ Head(<<"shutdown">>) = "shutdown"
      /\ <<"release">> # <<>> /\ <<"shutdown">> # <<>>
      /\ <<"stopInLoop">> # <<"stopInLoop", "release">>
  <2>1. /\ Head(<<"connector-", "stopInLoop">>) = "connector-"
        /\ Head(<<"shutdown">>) = "shutdown"
        /\ <<"release">> # <<>> /\ <<"shutdown">> # <<>>
    BY One, Two
  <2>2. Tail(<<"stopInLoop">>) = <<>> /\ Tail(<<"stopInLoop", "release">>) = <<"release">>
    BY One, Two
  <2> QED
    BY <2>1, <2>2
<1>3. \A t \in StopSteps : t \notin OtherSteps
  BY <1>2, StopTail, OtherTail
<1>4. \A t \in StopSteps : t \notin HaltSteps
  BY <1>2, StopTail, HaltTail
<1>5. \A t \in StopSteps : t \notin LeaveSteps
  BY StopTail, LeaveTail
<1>6. \A t \in OtherSteps : t \notin LeaveSteps \cup HaltSteps
  BY OtherTail, LeaveTail, HaltTail
<1>7. \A t \in LeaveSteps : t \notin HaltSteps
  BY LeaveTail, HaltTail
<1>8. \A t \in StopSteps \cup OtherSteps \cup LeaveSteps \cup HaltSteps :
        t # <<>> /\ t # <<"lookup">>
  BY LookupTail, StopTail, OtherTail, LeaveTail, HaltTail
<1> QED
  BY <1>1, <1>3, <1>4, <1>5, <1>6, <1>7, <1>8, LookupTail

LEMMA Parts ==
  /\ <<"connector-", "stopInLoop">> \in StopSteps /\ <<"stopInLoop">> \in StopSteps
  /\ <<"connector-", "stopInLoop">> \notin Halting
  /\ <<"stopInLoop", "release">> \in HaltSteps /\ <<"release">> \in HaltSteps
  /\ <<"connector-", "stopInLoop", "release">> \in HaltSteps
  /\ <<"connector-", "stopInLoop", "release">> \notin Halting
  /\ Halting \subseteq StopSteps \cup HaltSteps /\ Leaving \subseteq LeaveSteps
  /\ <<"shutdown">> \in OtherSteps
<1>1. \A t \in Halting : Head(t) \in {"stopInLoop", "release"}
  BY One, Two DEF Halting
<1>2. /\ Head(<<"connector-", "stopInLoop">>) = "connector-"
      /\ Head(<<"connector-", "stopInLoop", "release">>) = "connector-"
  BY Two, Three
<1> QED
  BY <1>1, <1>2 DEF StopSteps, HaltSteps, LeaveSteps, OtherSteps, Halting, Leaving

\* By its first step, which call it is and what is left of it.
LEMMA ByHead ==
  ASSUME NEW t \in Alive \cup Dying, t # <<>>
  PROVE  /\ Head(t) \in {"client+", "connector+"} =>
              t \in ConnectSteps /\ Tail(t) \in ConnectSteps
         /\ Head(t) = "client-" =>
              \/ t \in StopSteps /\ Tail(t) = <<"connector-", "stopInLoop">>
              \/ t \in OtherSteps /\ Tail(t) \in OtherSteps
         /\ Head(t) = "connector-" =>
              \/ t = <<"connector-", "stopInLoop">> /\ Tail(t) = <<"stopInLoop">>
              \/ t \in HaltSteps \ Halting /\ Tail(t) = <<"stopInLoop", "release">>
         /\ Head(t) \in {"shutdown", "retry"} => t \in OtherSteps /\ Tail(t) = <<>>
         /\ Head(t) = "startInLoop" => t \in ConnectSteps /\ Tail(t) = <<>>
         /\ Head(t) = "stopInLoop" =>
              \/ t = <<"stopInLoop">> /\ Tail(t) = <<>>
              \/ t = <<"stopInLoop", "release">> /\ Tail(t) = <<"release">>
         /\ Head(t) = "setCloseCallback" => t \in LeaveSteps /\ Tail(t) \in Leaving
         /\ Head(t) = "forceClose" => t \in Leaving /\ Tail(t) \in Leaving
         /\ Head(t) = "free" => t \in Leaving /\ Tail(t) = <<>>
         /\ Head(t) = "release" => t = <<"release">> /\ Tail(t) = <<>>
<1>1. CASE t \in ConnectSteps
  BY <1>1, ConnectTail
<1>2. CASE t \in StopSteps
  BY <1>2, StopTail
<1>3. CASE t \in OtherSteps
  BY <1>3, OtherTail, Parts
<1>4. CASE t \in LeaveSteps
  BY <1>4, LeaveTail DEF Leaving
<1>5. CASE t \in HaltSteps
  BY <1>5, HaltTail, Parts
<1>6. CASE t = <<"lookup">>
  BY <1>6, LookupTail
<1> QED
  BY <1>1, <1>2, <1>3, <1>4, <1>5, <1>6 DEF Alive, Dying

\* There is one start to come, one attempt or one connection, or none of them.
LEMMA OneToken ==
  ASSUME OnceAndOnLoop, ClientInv, failed = "none"
  PROVE  /\ connects \in {0, 1}
         /\ connects = 0 =>
              /\ state_ = "kDisconnected" /\ due = 0 /\ ~Queued("startInLoop")
              /\ \A a \in Actors : todo[a] \notin ConnectSteps
         /\ state_ # "kDisconnected" \/ due # 0 =>
              ~Queued("startInLoop") /\ \A a \in Actors : todo[a] \notin ConnectSteps
         /\ state_ # "kDisconnected" => due = 0
         /\ Queued("startInLoop") =>
              /\ Count("startInLoop") = 1 /\ state_ = "kDisconnected"
              /\ \A a \in Actors : todo[a] \notin ConnectSteps
         /\ \A a \in Actors : todo[a] \in ConnectSteps =>
              /\ state_ = "kDisconnected" /\ ~Queued("startInLoop")
              /\ \A b \in Actors \ {a} : todo[b] \notin ConnectSteps
<1>1. connects \in {0, 1}
  BY TcpClientAssumption DEF OnceAndOnLoop, ClientInv, TypeOK
<1>2. /\ Owed("loop") + Owed("thread") + Count("startInLoop") + timers + due
            + Held(state_ # "kDisconnected") <= connects
      /\ Owed("loop") \in Nat /\ Owed("thread") \in Nat
      /\ Count("startInLoop") \in Nat /\ timers \in Nat /\ due \in Nat
  BY SumTypes DEF ClientInv, Starts
<1>3. Held(state_ # "kDisconnected") = IF state_ = "kDisconnected" THEN 0 ELSE 1
  BY DEF Held
<1>4. \A a \in Actors : todo[a] \in ConnectSteps <=> Owed(a) = 1
  BY DEF Owed, Held
<1>5. \A a \in Actors : a = "loop" \/ a = "thread"
  BY DEF Actors
<1>6. connects = 0 =>
        /\ state_ = "kDisconnected" /\ due = 0 /\ ~Queued("startInLoop")
        /\ \A a \in Actors : todo[a] \notin ConnectSteps
  <2>1. connects = 0 =>
          /\ state_ = "kDisconnected" /\ due = 0 /\ Count("startInLoop") = 0
          /\ Owed("loop") = 0 /\ Owed("thread") = 0
    BY <1>2, <1>3
  <2> QED
    BY <1>4, <1>5, <2>1 DEF Queued
<1>7. state_ # "kDisconnected" \/ due # 0 =>
        ~Queued("startInLoop") /\ \A a \in Actors : todo[a] \notin ConnectSteps
  <2>1. state_ # "kDisconnected" \/ due # 0 =>
          Count("startInLoop") = 0 /\ Owed("loop") = 0 /\ Owed("thread") = 0
    BY <1>1, <1>2, <1>3
  <2> QED
    BY <1>4, <1>5, <2>1 DEF Queued
<1>8. state_ # "kDisconnected" => due = 0
  BY <1>1, <1>2, <1>3
<1>9. Queued("startInLoop") =>
        /\ Count("startInLoop") = 1 /\ state_ = "kDisconnected"
        /\ \A a \in Actors : todo[a] \notin ConnectSteps
  <2>1. Count("startInLoop") # 0 =>
          /\ Count("startInLoop") = 1 /\ state_ = "kDisconnected"
          /\ Owed("loop") = 0 /\ Owed("thread") = 0
    <3> SUFFICES ASSUME Count("startInLoop") # 0
                 PROVE  /\ Count("startInLoop") = 1 /\ state_ = "kDisconnected"
                        /\ Owed("loop") = 0 /\ Owed("thread") = 0
      OBVIOUS
    <3>1. Count("startInLoop") >= 1 /\ connects <= 1
      BY <1>1, <1>2
    <3>2. Held(state_ # "kDisconnected") \in Nat
      BY <1>3
    <3>3. /\ Count("startInLoop") = 1 /\ Held(state_ # "kDisconnected") = 0
          /\ Owed("loop") = 0 /\ Owed("thread") = 0
      BY <1>1, <1>2, <3>1, <3>2
    <3> QED
      BY <1>3, <3>3
  <2> QED
    BY <1>4, <1>5, <2>1 DEF Queued
<1>10. ASSUME NEW a \in Actors, todo[a] \in ConnectSteps
       PROVE  /\ state_ = "kDisconnected" /\ ~Queued("startInLoop")
              /\ \A b \in Actors \ {a} : todo[b] \notin ConnectSteps
  <2>1. Owed(a) = 1
    BY <1>4, <1>10
  <2>2. /\ Owed("loop") = 1 \/ Owed("thread") = 1
              => state_ = "kDisconnected" /\ Count("startInLoop") = 0
        /\ ~(Owed("loop") = 1 /\ Owed("thread") = 1)
    BY <1>1, <1>2, <1>3
  <2> QED
    BY <1>4, <1>5, <2>1, <2>2 DEF Queued
<1> QED
  BY <1>1, <1>6, <1>7, <1>8, <1>9, <1>10

\* What an action of the loop has to keep; the rest is about calls under way.
LoopKeeps ==
  /\ failed' \notin {"startInLoop", "connecting", "clientGone"}
  /\ failed' = "none" =>
       /\ RoundInv' /\ ChannelInv' /\ Gone'
       /\ Halted => Halted'
       /\ Queued("stopInLoop")' => Queued("stopInLoop")

LEMMA LoopCarries ==
  ASSUME LoneInv, failed = "none", todo["loop"] = <<>>,
         UNCHANGED <<todo, client, connects, stopped>>, LoopKeeps
  PROVE  LoneInv'
<1>1. /\ <<>> \notin StopSteps \cup HaltSteps \cup LeaveSteps
      /\ <<>> \notin Halting \cup Leaving
      /\ <<>> # <<"connector-", "stopInLoop">> /\ <<>> # <<"lookup">>
  BY Apart, Parts
<1>2. ASSUME failed' = "none" PROVE StopInv'
  BY <1>1, <1>2 DEF LoneInv, LoopKeeps, StopInv
<1>3. ASSUME failed' = "none" PROVE DeathInv'
  BY <1>1, <1>3 DEF LoneInv, LoopKeeps, DeathInv
<1> QED
  BY <1>2, <1>3 DEF LoneInv, LoopKeeps

LEMMA PollLone ==
  ASSUME OnceAndOnLoop, ClientInv, LoneInv, failed = "none", Poll
  PROVE  LoopKeeps
<1>1. /\ pc = "poll" /\ pc' = "events"
      /\ "conn" \in active' => conn # "none"
      /\ UNCHANGED <<connect_, state_, channel_, functors, failed, clientConnect, retry_,
                     connection_, closeCb, conn, client, batch, todo, connects>>
  BY DEF Poll, Reportable, clientVars, userVars
<1>2. \A f : Queued(f)' <=> Queued(f)
  BY <1>1 DEF Queued, Count
<1>3. Halted <=> Halted'
  BY <1>1 DEF Halted
<1>4. RoundInv'
  BY <1>1 DEF RoundInv
<1>5. ChannelInv'
  BY <1>1, <1>2, <1>3 DEF ChannelInv, LoneInv, InTime
<1>6. Gone'
  BY <1>1, <1>3 DEF Gone, LoneInv, DeathInv
<1> QED
  BY <1>1, <1>2, <1>3, <1>4, <1>5, <1>6 DEF LoopKeeps

\* A queued resetChannel() stays where it is when another functor is appended,
LEMMA ResetKept ==
  ASSUME functors \in Seq(Names), NEW g \in Names, functors' = Append(functors, g)
  PROVE  /\ \A n \in 0 .. Len(functors) : ResetAmong(n) =>
              \E i \in 1 .. n : functors'[i] = "resetChannel"
         /\ g = "resetChannel" \/ ResetAmong(Len(functors)) =>
              \E i \in 1 .. Len(functors') : functors'[i] = "resetChannel"
<1>1. /\ Len(functors) \in Nat /\ Len(functors') = Len(functors) + 1
      /\ \A i \in 1 .. Len(functors) : functors'[i] = functors[i]
      /\ functors'[Len(functors) + 1] = g
  OBVIOUS
<1>2. \A n \in 0 .. Len(functors) : ResetAmong(n) =>
        \E i \in 1 .. n : functors'[i] = "resetChannel"
  BY <1>1 DEF ResetAmong
<1>3. g = "resetChannel" => \E i \in 1 .. Len(functors') : functors'[i] = "resetChannel"
  <2>1. Len(functors) + 1 \in 1 .. Len(functors')
    BY <1>1
  <2> QED
    BY <1>1, <2>1
<1>4. ResetAmong(Len(functors)) =>
        \E i \in 1 .. Len(functors') : functors'[i] = "resetChannel"
  BY <1>1 DEF ResetAmong
<1> QED
  BY <1>2, <1>3, <1>4

\* and comes one place nearer when a functor before it is taken.
LEMMA ResetNearer ==
  ASSUME functors \in Seq(Names), functors # <<>>, Head(functors) # "resetChannel",
         NEW n \in Nat, n <= Len(functors), ResetAmong(n),
         \/ functors' = Tail(functors)
         \/ \E g \in Names : functors' = Append(Tail(functors), g)
  PROVE  n > 1 /\ \E i \in 1 .. n - 1 : functors'[i] = "resetChannel"
<1>1. PICK i \in 1 .. n : functors[i] = "resetChannel"
  BY DEF ResetAmong
<1>2. i # 1 /\ i \in Int /\ Len(functors) \in Nat
  BY <1>1
<1>3. i - 1 \in 1 .. n - 1 /\ i - 1 \in 1 .. Len(functors) - 1 /\ n > 1
  BY <1>2
<1>4. /\ Tail(functors) \in Seq(Names) /\ Len(Tail(functors)) = Len(functors) - 1
      /\ \A j \in 1 .. Len(functors) - 1 : Tail(functors)[j] = functors[j + 1]
  OBVIOUS
<1>5. Tail(functors)[i - 1] = functors[(i - 1) + 1]
  BY <1>3, <1>4
<1>6. (i - 1) + 1 = i
  BY <1>2
<1>7. functors'[i - 1] = Tail(functors)[i - 1]
  <2>1. CASE functors' = Tail(functors)
    BY <2>1
  <2>2. ASSUME NEW g \in Names, functors' = Append(Tail(functors), g)
        PROVE  functors'[i - 1] = Tail(functors)[i - 1]
    <3> DEFINE q == Tail(functors)
               k == i - 1
    <3>1. q \in Seq(Names) /\ k \in 1 .. Len(q)
      BY <1>3, <1>4
    <3>2. functors' = Append(q, g)
      BY <2>2
    <3> HIDE DEF q, k
    <3>3. functors'[k] = q[k]
      BY <3>1, <3>2
    <3> QED
      BY <3>3 DEF q, k
  <2> QED
    BY <2>1, <2>2
<1> QED
  BY <1>1, <1>3, <1>5, <1>6, <1>7

LEMMA HandleErrorLone ==
  ASSUME OnceAndOnLoop, ClientInv, LoneInv, failed = "none", HandleError
  PROVE  LoopKeeps
<1>1. /\ pc = "events" /\ active' = active \ {"channel"}
      /\ functors' = Append(functors, "resetChannel") /\ state_' = "kDisconnected"
      /\ UNCHANGED <<connect_, channel_, failed, clientConnect, retry_, connection_,
                     closeCb, conn, client, pc, due, batch, todo, connects>>
  BY DEF HandleError, Event, AttemptFails, RemoveAndResetChannel, Retry, clientVars, userVars
<1>2. state_ = "kConnecting" /\ conn = "none"
  BY DEF ClientInv, Linked, HandleError, Event
<1>3. /\ due = 0 /\ "conn" \notin active /\ connects # 0 /\ closeCb # "detail"
      /\ ~Queued("startInLoop") /\ \A a \in Actors : todo[a] \notin ConnectSteps
  BY <1>2, OneToken DEF LoneInv, RoundInv, ChannelInv
<1>4. functors \in Seq(Names)
  BY FunctorsType DEF ClientInv
<1>5. \A f \in {"startInLoop", "stopInLoop", "forceClose", "setCloseCallback"} :
        Queued(f)' <=> Queued(f)
  BY <1>1, <1>4, QueueGains DEF Names, Queued
<1>6. Halted <=> Halted'
  BY <1>1 DEF Halted
<1>7. RoundInv'
  BY <1>1, <1>2, <1>3 DEF RoundInv
<1>8. InTime'
  <2>1. \E i \in 1 .. Len(functors') : functors'[i] = "resetChannel"
    BY <1>1, <1>4, ResetKept DEF Names
  <2> QED
    BY <1>1, <1>3, <2>1 DEF InTime, ResetAmong
<1>9. ChannelInv'
  BY <1>1, <1>3, <1>5, <1>8 DEF ChannelInv, LoneInv
<1>10. Gone'
  BY <1>1, <1>3, <1>6 DEF Gone, LoneInv, DeathInv
<1> QED
  BY <1>1, <1>5, <1>6, <1>7, <1>9, <1>10 DEF LoopKeeps

LEMMA HandleWriteLone ==
  ASSUME OnceAndOnLoop, ClientInv, LoneInv, failed = "none", HandleWrite
  PROVE  LoopKeeps
<1>1. /\ pc = "events" /\ active' = active \ {"channel"}
      /\ functors' = Append(functors, "resetChannel") /\ state_' = "kConnected"
      /\ IF connect_
         THEN conn' = "up" /\ closeCb' = "client"
              /\ failed' = IF client # "gone" THEN failed ELSE "clientGone"
         ELSE UNCHANGED <<conn, closeCb, failed>>
      /\ UNCHANGED <<connect_, channel_, clientConnect, client, pc, due, batch, todo, connects>>
  BY DEF HandleWrite, Event, AttemptSucceeds, RemoveAndResetChannel, NewConnection, userVars
<1>2. state_ = "kConnecting" /\ conn = "none"
  BY DEF ClientInv, Linked, HandleWrite, Event
<1>3. /\ due = 0 /\ "conn" \notin active /\ connects # 0 /\ closeCb # "detail"
      /\ ~Queued("startInLoop") /\ \A a \in Actors : todo[a] \notin ConnectSteps
      /\ ~Queued("forceClose") /\ ~Queued("setCloseCallback")
  BY <1>2, OneToken DEF LoneInv, RoundInv, ChannelInv
<1>4. functors \in Seq(Names)
  BY FunctorsType DEF ClientInv
<1>5. \A f \in {"startInLoop", "stopInLoop", "forceClose", "setCloseCallback"} :
        Queued(f)' <=> Queued(f)
  BY <1>1, <1>4, QueueGains DEF Names, Queued
<1>6. Halted => Halted' /\ ~connect_
  BY <1>1 DEF Halted
<1>7. client = "gone" => Halted
  BY <1>3 DEF LoneInv, DeathInv, Gone
<1>8. failed' = failed
  BY <1>1, <1>6, <1>7
<1>9. RoundInv'
  BY <1>1, <1>2, <1>3 DEF RoundInv
<1>10. InTime'
  <2>1. \E i \in 1 .. Len(functors') : functors'[i] = "resetChannel"
    BY <1>1, <1>4, ResetKept DEF Names
  <2> QED
    BY <1>1, <1>3, <2>1 DEF InTime, ResetAmong
<1>11. ChannelInv'
  <2>1. closeCb' # "detail"
    BY <1>1, <1>3
  <2> QED
    BY <1>1, <1>3, <1>5, <1>10, <2>1 DEF ChannelInv
<1>12. Gone'
  BY <1>1, <1>2, <1>6, <1>7 DEF Gone
<1> QED
  BY <1>5, <1>6, <1>8, <1>9, <1>11, <1>12 DEF LoopKeeps

LEMMA RetryTimerLone ==
  ASSUME OnceAndOnLoop, ClientInv, LoneInv, failed = "none", RetryTimer
  PROVE  LoopKeeps
<1>1. /\ pc = "events" /\ due > 0
      /\ StartInLoop(state_, connect_, retryDelayMs_)
      /\ UNCHANGED <<connect_, functors, clientConnect, closeCb, conn, client, pc, active,
                     batch, todo, connects>>
  BY DEF RetryTimer, clientVars, userVars
<1>2. due # 0
  BY <1>1
<1>3. /\ state_ = "kDisconnected" /\ connects # 0 /\ ~Queued("startInLoop")
      /\ \A a \in Actors : todo[a] \notin ConnectSteps
  BY <1>2, OneToken DEF ClientInv, TypeOK
<1>4. /\ closeCb # "detail" /\ ~Queued("forceClose") /\ ~Queued("setCloseCallback")
      /\ channel_ => Halted
  BY <1>2, <1>3 DEF LoneInv, ChannelInv, InTime
<1>5. channel_ => ~connect_
  BY <1>4 DEF Halted
<1>6. /\ failed' \in {"none", "startInLoop", "connecting"}
      /\ failed' = "startInLoop" => state_ # "kDisconnected"
      /\ failed' = "connecting" => state_ = "kDisconnected" /\ connect_ /\ channel_
      /\ failed' = "none" => \/ state_' = "kConnecting"
                             \/ channel_' = channel_ /\ state_' = state_
  BY <1>1, <1>3, StartOutcome DEF ClientInv, TypeOK, AttemptTyped, attempt
<1>7. failed' = "none"
  BY <1>3, <1>5, <1>6
<1>8. \A f : Queued(f)' <=> Queued(f)
  BY <1>1 DEF Queued, Count
<1>9. Halted <=> Halted'
  BY <1>1 DEF Halted
<1>10. RoundInv'
  BY <1>1 DEF RoundInv, LoneInv
<1>11. ChannelInv'
  BY <1>1, <1>3, <1>4, <1>6, <1>7, <1>8, <1>9 DEF ChannelInv
<1>12. Gone'
  BY <1>1, <1>4, <1>9 DEF Gone, LoneInv, DeathInv
<1> QED
  BY <1>7, <1>8, <1>9, <1>10, <1>11, <1>12 DEF LoopKeeps

LEMMA RestartConnectorLone ==
  ASSUME OnceAndOnLoop, ClientInv, LoneInv, failed = "none", RestartConnector
  PROVE  LoopKeeps
<1>0. client # "gone"
  BY DEF RestartConnector, LoneInv, DeathInv, Gone, ChannelInv, Halted
<1>1. /\ pc = "restart" /\ pc' \in {"functors", "events"}
      /\ StartInLoop("kDisconnected", TRUE, kInitRetryDelayMs)
      /\ UNCHANGED <<functors, clientConnect, closeCb, conn, client, active, due,
                     batch, todo, connects>>
  BY <1>0 DEF RestartConnector, Restart, clientVars, userVars
<1>2. state_ = "kConnected" /\ conn = "none"
  BY <1>1 DEF ClientInv, Rounds
<1>3. /\ due = 0 /\ active \subseteq {"linger"} /\ connects # 0 /\ ~Queued("startInLoop")
      /\ \A a \in Actors : todo[a] \notin ConnectSteps
  BY <1>1, <1>2, OneToken DEF LoneInv, RoundInv
<1>4. /\ ~Halted /\ ~channel_ /\ closeCb # "detail"
      /\ ~Queued("forceClose") /\ ~Queued("setCloseCallback")
  BY <1>1, <1>2 DEF LoneInv, ChannelInv, InTime, Halted
<1>5. kInitRetryDelayMs \in kInitRetryDelayMs .. kMaxRetryDelayMs
  BY ConnectorAssumption
<1>6. /\ failed' \in {"none", "startInLoop", "connecting"}
      /\ failed' # "startInLoop"
      /\ failed' = "connecting" => channel_
      /\ failed' = "none" => state_' = "kConnecting" \/ channel_' = channel_
  <2>1. AttemptTyped
    BY DEF ClientInv, TypeOK, AttemptTyped
  <2> QED
    BY <1>1, <1>5, <2>1, StartOutcome
<1>7. failed' = "none"
  BY <1>4, <1>6
<1>8. \A f : Queued(f)' <=> Queued(f)
  BY <1>1 DEF Queued, Count
<1>9. RoundInv'
  BY <1>1, <1>3 DEF RoundInv
<1>10. ChannelInv'
  BY <1>1, <1>3, <1>4, <1>6, <1>7, <1>8 DEF ChannelInv
<1>11. Gone'
  BY <1>1, <1>4 DEF Gone, LoneInv, DeathInv
<1> QED
  BY <1>4, <1>7, <1>8, <1>9, <1>10, <1>11 DEF LoopKeeps

LEMMA ConnectionClosesLone ==
  ASSUME OnceAndOnLoop, ClientInv, LoneInv, failed = "none", ConnectionCloses
  PROVE  LoopKeeps
<1>1. /\ pc = "events" /\ "conn" \in active /\ active' = active \ {"conn"}
      /\ conn # "none" /\ conn' = "none"
      /\ functors' = Append(functors, "connectDestroyed")
      /\ IF closeCb = "client"
         THEN /\ failed' = IF client # "gone" THEN failed ELSE "clientGone"
              /\ pc' = IF retry_ /\ clientConnect THEN "restart" ELSE pc
         ELSE pc' = pc /\ failed' = failed
      /\ UNCHANGED <<connect_, state_, channel_, clientConnect, closeCb, client, due,
                     batch, todo, connects>>
  BY DEF ConnectionCloses, Event, RemoveConnection, userVars, attempt
<1>2. /\ state_ = "kConnected" /\ batch = 0 /\ active \subseteq {"conn", "linger"}
      /\ closeCb \in {"client", "detail"}
  BY <1>1 DEF ClientInv, Linked, Rounds, TypeOK, Events
<1>3. functors \in Seq(Names)
  BY FunctorsType DEF ClientInv
<1>4. \A f \in {"startInLoop", "stopInLoop", "forceClose", "setCloseCallback"} :
        Queued(f)' <=> Queued(f)
  BY <1>1, <1>3, QueueGains DEF Names, Queued
<1>5. channel_ => Halted
  BY <1>1, <1>2 DEF LoneInv, ChannelInv, InTime
<1>6. Halted => Halted'
  BY <1>1 DEF Halted
<1>7. client = "gone" => closeCb = "detail"
  BY <1>1 DEF LoneInv, DeathInv, Gone
<1>8. failed' = "none"
  BY <1>1, <1>7
<1>9. RoundInv'
  BY <1>1, <1>2 DEF RoundInv
<1>10. ChannelInv'
  BY <1>1, <1>2, <1>4, <1>5, <1>6 DEF ChannelInv, LoneInv
<1>11. Gone'
  BY <1>1, <1>2, <1>7 DEF Gone
<1> QED
  BY <1>4, <1>6, <1>8, <1>9, <1>10, <1>11 DEF LoopKeeps

LEMMA RemoveConnectorLone ==
  ASSUME OnceAndOnLoop, ClientInv, LoneInv, failed = "none", RemoveConnector
  PROVE  LoopKeeps
<1>1. /\ pc = "events" /\ active' = active \ {"linger"}
      /\ UNCHANGED <<connect_, state_, channel_, functors, failed, clientConnect, closeCb,
                     conn, client, pc, due, batch, todo, connects>>
  BY DEF RemoveConnector, Event, attempt, userVars
<1>2. \A f : Queued(f)' <=> Queued(f)
  BY <1>1 DEF Queued, Count
<1>3. InTime <=> InTime'
  BY <1>1 DEF InTime, ResetAmong
<1>4. Halted <=> Halted'
  BY <1>1 DEF Halted
<1>5. RoundInv'
  BY <1>1 DEF RoundInv, LoneInv
<1>6. ChannelInv'
  BY <1>1, <1>2, <1>3, <1>4 DEF ChannelInv, LoneInv
<1>7. Gone'
  BY <1>1, <1>4 DEF Gone, LoneInv, DeathInv
<1> QED
  BY <1>1, <1>2, <1>4, <1>5, <1>6, <1>7 DEF LoopKeeps

LEMMA DoPendingFunctorsLone ==
  ASSUME OnceAndOnLoop, ClientInv, LoneInv, failed = "none", DoPendingFunctors
  PROVE  LoopKeeps
<1>1. /\ pc = "events" /\ active = {} /\ due = 0
      /\ pc' = IF functors = <<>> THEN "poll" ELSE "functors"
      /\ batch' = Len(functors)
      /\ UNCHANGED <<connect_, state_, channel_, functors, failed, clientConnect, closeCb,
                     conn, client, active, due, todo, connects>>
  BY DEF DoPendingFunctors, attempt, clientVars, userVars
<1>2. InTime => InTime'
  <2>1. InTime => functors # <<>>
    BY <1>1 DEF InTime, ResetAmong
  <2> QED
    BY <1>1, <2>1 DEF InTime, ResetAmong
<1>3. \A f : Queued(f)' <=> Queued(f)
  BY <1>1 DEF Queued, Count
<1>4. Halted <=> Halted'
  BY <1>1 DEF Halted
<1>5. RoundInv'
  BY <1>1 DEF RoundInv
<1>6. ChannelInv'
  BY <1>1, <1>2, <1>3, <1>4 DEF ChannelInv, LoneInv
<1>7. Gone'
  BY <1>1, <1>4 DEF Gone, LoneInv, DeathInv
<1> QED
  BY <1>1, <1>3, <1>4, <1>5, <1>6, <1>7 DEF LoopKeeps

LEMMA ConnectorGoneLone ==
  ASSUME ConnectorGone
  PROVE  LoopKeeps
BY DEF ConnectorGone, LoopKeeps

\* The loop takes a functor and goes on; another may be queued meanwhile.
LEMMA FunctorLone ==
  ASSUME OnceAndOnLoop, ClientInv, LoneInv, failed = "none", NEW f, Functor(f), pc' = Then,
         \/ functors' = Tail(functors)
         \/ \E g \in {"resetChannel", "connectDestroyed"} : functors' = Append(Tail(functors), g)
  PROVE  /\ pc = "functors" /\ pc' \in {"poll", "functors"}
         /\ active \subseteq {"linger"} /\ due = 0
         /\ UNCHANGED <<active, due, todo, connects>>
         /\ f \in Names => Queued(f)
         /\ f # "resetChannel" /\ InTime => InTime'
         /\ \A h \in {"startInLoop", "stopInLoop", "forceClose", "setCloseCallback"} :
              h # f => (Queued(h)' <=> Queued(h))
         /\ functors' = Tail(functors) /\ f = "startInLoop" => ~Queued(f)'
<1>1. pc = "functors" /\ Head(functors) = f
  BY DEF Functor
<1>2. active \subseteq {"linger"} /\ due = 0
  BY <1>1 DEF LoneInv, RoundInv
<1>3. /\ functors \in Seq(Names) /\ functors # <<>> /\ f \in Names
      /\ batch \in Nat \ {0} /\ batch <= Len(functors) /\ batch' = batch - 1
      /\ UNCHANGED <<active, due, todo, connects>>
      /\ pc' \in {"poll", "functors"}
      /\ batch # 1 => pc' = "functors"
  BY TakesFunctor DEF ClientInv, Sound, Then
<1>4. Queued(f)
  <2>1. Len(functors) \in Nat /\ 1 \in 1 .. Len(functors) /\ functors[1] = f
    BY <1>1, <1>3
  <2> QED
    BY <1>3, <2>1, CountType DEF Queued
<1>5. f # "resetChannel" /\ InTime => InTime'
  <2> SUFFICES ASSUME f # "resetChannel", InTime PROVE InTime'
    OBVIOUS
  <2>1. ResetAmong(batch)
    BY <1>1 DEF InTime
  <2>2. \/ functors' = Tail(functors)
        \/ \E g \in Names : functors' = Append(Tail(functors), g)
    BY DEF Names
  <2>3. batch > 1 /\ \E i \in 1 .. batch - 1 : functors'[i] = "resetChannel"
    BY <1>1, <1>3, <2>1, <2>2, ResetNearer
  <2>4. ResetAmong(batch)' /\ pc' = "functors"
    BY <1>3, <2>3 DEF ResetAmong
  <2> QED
    BY <1>2, <1>3, <2>4 DEF InTime
<1>6. \A h \in {"startInLoop", "stopInLoop", "forceClose", "setCloseCallback"} :
        h # f => (Queued(h)' <=> Queued(h))
  <2>1. CASE functors' = Tail(functors)
    BY <1>1, <1>3, <2>1, QueueLoses DEF Queued, Names
  <2>2. ASSUME NEW g \in {"resetChannel", "connectDestroyed"},
               functors' = Append(Tail(functors), g)
        PROVE  \A h \in {"startInLoop", "stopInLoop", "forceClose", "setCloseCallback"} :
                 h # f => (Queued(h)' <=> Queued(h))
    <3>1. \A h \in Names : h \notin {g, Head(functors)} => Count(h)' = Count(h)
      BY <1>3, <2>2, QueueTurns DEF Names
    <3> QED
      BY <1>1, <3>1 DEF Queued, Names
  <2> QED
    BY <2>1, <2>2
<1>7. functors' = Tail(functors) /\ f = "startInLoop" => ~Queued(f)'
  <2> SUFFICES ASSUME functors' = Tail(functors), f = "startInLoop" PROVE Count(f)' = 0
    BY DEF Queued
  <2>1. Count(f) = Count(f)' + 1 /\ Count(f)' \in Nat
    BY <1>1, <1>3, QueueLoses
  <2>2. Count(f) = 1
    BY <1>4, OneToken
  <2> QED
    BY <2>1, <2>2
<1> QED
  BY <1>1, <1>2, <1>3, <1>4, <1>5, <1>6, <1>7

LEMMA RunStartLone ==
  ASSUME OnceAndOnLoop, ClientInv, LoneInv, failed = "none", RunStart
  PROVE  LoopKeeps
<1>1. /\ Functor("startInLoop") /\ functors' = Tail(functors) /\ pc' = Then
      /\ StartInLoop(state_, connect_, retryDelayMs_)
      /\ UNCHANGED <<connect_, clientConnect, closeCb, conn, client>>
  BY DEF RunStart, clientVars
<1>2. /\ pc = "functors" /\ pc' \in {"poll", "functors"} /\ active \subseteq {"linger"} /\ due = 0
      /\ UNCHANGED <<active, due, todo, connects>>
      /\ Queued("startInLoop") /\ ~Queued("startInLoop")'
      /\ \A h \in {"stopInLoop", "forceClose", "setCloseCallback"} : Queued(h)' <=> Queued(h)
  BY <1>1, FunctorLone DEF Names
<1>3. /\ state_ = "kDisconnected" /\ connects # 0
      /\ \A a \in Actors : todo[a] \notin ConnectSteps
  BY <1>2, OneToken
<1>4. /\ ~channel_ /\ closeCb # "detail"
      /\ ~Queued("forceClose") /\ ~Queued("setCloseCallback")
  BY <1>2, <1>3 DEF LoneInv, ChannelInv
<1>5. /\ failed' = "none"
      /\ state_' = "kConnecting" \/ ~channel_'
  <2>1. AttemptTyped /\ connect_ \in BOOLEAN
        /\ retryDelayMs_ \in kInitRetryDelayMs .. kMaxRetryDelayMs
    BY DEF ClientInv, TypeOK, AttemptTyped
  <2>2. /\ failed' \in {"none", "startInLoop", "connecting"}
        /\ failed' = "startInLoop" => state_ # "kDisconnected"
        /\ failed' = "connecting" => channel_
        /\ failed' = "none" => state_' = "kConnecting" \/ channel_' = channel_
    BY <1>1, <2>1, StartOutcome DEF attempt
  <2> QED
    BY <1>3, <1>4, <2>2
<1>6. Halted => Halted'
  BY <1>1, <1>2 DEF Halted
<1>7. RoundInv'
  BY <1>2 DEF RoundInv
<1>8. ChannelInv'
  BY <1>1, <1>2, <1>3, <1>4, <1>5 DEF ChannelInv
<1>9. Gone'
  BY <1>1, <1>4, <1>6 DEF Gone, LoneInv, DeathInv
<1> QED
  BY <1>2, <1>5, <1>6, <1>7, <1>8, <1>9 DEF LoopKeeps

LEMMA RunStopLone ==
  ASSUME OnceAndOnLoop, ClientInv, LoneInv, failed = "none", RunStop
  PROVE  LoopKeeps
<1>1. /\ Functor("stopInLoop") /\ pc' = Then
      /\ functors' \in {Tail(functors), Append(Tail(functors), "resetChannel")}
      /\ state_ # "kConnecting" => state_' = state_
      /\ UNCHANGED <<connect_, channel_, failed, clientConnect, closeCb, conn, client>>
  BY DEF RunStop, StopInLoop, RemoveAndResetChannel, clientVars
<1>2. /\ pc = "functors" /\ pc' \in {"poll", "functors"} /\ active \subseteq {"linger"} /\ due = 0
      /\ UNCHANGED <<active, due, todo, connects>>
      /\ Queued("stopInLoop")
      /\ \A h \in {"startInLoop", "forceClose", "setCloseCallback"} : Queued(h)' <=> Queued(h)
  BY <1>1, FunctorLone DEF Names
<1>3. Halted
  BY <1>2 DEF LoneInv, StopInv
<1>4. Halted'
  BY <1>1, <1>2, <1>3 DEF Halted
<1>5. closeCb = "detail" => state_' = "kConnected"
  BY <1>1 DEF LoneInv, ChannelInv
<1>6. RoundInv'
  BY <1>2 DEF RoundInv
<1>7. ChannelInv'
  BY <1>1, <1>2, <1>4, <1>5 DEF ChannelInv, LoneInv
<1>8. Gone'
  BY <1>1, <1>4, <1>5 DEF Gone, LoneInv, DeathInv
<1> QED
  BY <1>1, <1>2, <1>4, <1>6, <1>7, <1>8 DEF LoopKeeps

LEMMA ResetChannelLone ==
  ASSUME OnceAndOnLoop, ClientInv, LoneInv, failed = "none",
         ResetChannel \/ ConnectDestroyed
  PROVE  LoopKeeps
<1>1. PICK f \in {"resetChannel", "connectDestroyed"} :
        /\ Functor(f) /\ functors' = Tail(functors) /\ pc' = Then
        /\ channel_' = (f # "resetChannel" /\ channel_)
        /\ UNCHANGED <<connect_, state_, failed, clientConnect, closeCb, conn, client>>
  <2>1. channel_ \in BOOLEAN
    BY DEF ClientInv, TypeOK
  <2> QED
    BY <2>1 DEF ResetChannel, ConnectDestroyed, clientVars
<1>2. /\ pc = "functors" /\ pc' \in {"poll", "functors"} /\ active \subseteq {"linger"} /\ due = 0
      /\ UNCHANGED <<active, due, todo, connects>>
      /\ \A h \in {"startInLoop", "stopInLoop", "forceClose", "setCloseCallback"} :
           Queued(h)' <=> Queued(h)
      /\ f # "resetChannel" /\ InTime => InTime'
  BY <1>1, FunctorLone
<1>3. Halted <=> Halted'
  BY <1>1, <1>2 DEF Halted
<1>4. RoundInv'
  BY <1>2 DEF RoundInv
<1>5. ChannelInv'
  BY <1>1, <1>2, <1>3 DEF ChannelInv, LoneInv
<1>6. Gone'
  BY <1>1, <1>3 DEF Gone, LoneInv, DeathInv
<1> QED
  BY <1>1, <1>2, <1>3, <1>4, <1>5, <1>6 DEF LoopKeeps

LEMMA RunForceCloseLone ==
  ASSUME OnceAndOnLoop, ClientInv, LoneInv, failed = "none", RunForceClose
  PROVE  LoopKeeps
<1>1. Functor("forceClose") /\ Head(functors) = "forceClose"
  BY DEF RunForceClose, Functor
<1>2. closeCb = "detail" /\ state_ = "kConnected" /\ client # "alive"
  <2>1. functors \in Seq(Names) /\ functors # <<>>
    BY <1>1, TakesFunctor DEF ClientInv, Sound
  <2>2. Len(functors) \in Nat /\ 1 \in 1 .. Len(functors) /\ functors[1] = "forceClose"
    BY <1>1, <2>1
  <2>3. Queued("forceClose")
    BY <2>1, <2>2, CountType DEF Queued, Names
  <2> QED
    BY <2>3 DEF LoneInv, ChannelInv
<1>3. /\ pc' = Then /\ conn' \in {conn, "none"}
      /\ functors' \in {Tail(functors), Append(Tail(functors), "connectDestroyed")}
      /\ UNCHANGED <<connect_, state_, channel_, failed, clientConnect, closeCb, client>>
  BY <1>2 DEF RunForceClose, RemoveConnection, attempt
<1>4. /\ pc = "functors" /\ pc' \in {"poll", "functors"} /\ active \subseteq {"linger"} /\ due = 0
      /\ UNCHANGED <<active, due, todo, connects>>
      /\ \A h \in {"startInLoop", "stopInLoop", "setCloseCallback"} : Queued(h)' <=> Queued(h)
      /\ InTime => InTime'
  BY <1>1, <1>3, FunctorLone
<1>5. Halted => Halted'
  BY <1>3, <1>4 DEF Halted
<1>6. RoundInv'
  BY <1>4 DEF RoundInv
<1>7. ChannelInv'
  BY <1>2, <1>3, <1>4, <1>5 DEF ChannelInv, LoneInv
<1>8. Gone'
  BY <1>2, <1>3 DEF Gone
<1> QED
  BY <1>3, <1>4, <1>5, <1>6, <1>7, <1>8 DEF LoopKeeps

\* Only a destructor on another thread queues setCloseCallback().
LEMMA NoSetCloseCallback ==
  ASSUME OnceAndOnLoop, ClientInv, LoneInv, failed = "none"
  PROVE  ~RunSetCloseCallback
<1> SUFFICES ASSUME RunSetCloseCallback PROVE FALSE
  OBVIOUS
<1>1. /\ Functor("setCloseCallback") /\ functors' = Tail(functors) /\ pc' = Then
  BY DEF RunSetCloseCallback
<1>2. Queued("setCloseCallback")
  BY <1>1, FunctorLone DEF Names
<1> QED
  BY <1>2 DEF LoneInv, ChannelInv

\* The loop keeps the invariant.
LEMMA LoopLone ==
  ASSUME OnceAndOnLoop, ClientInv, LoneInv, failed = "none", LoopNext
  PROVE  LoneInv'
<1>1. todo["loop"] = <<>>
  BY DEF LoopNext
<1>2. LoopKeeps
  BY PollLone, HandleErrorLone, HandleWriteLone, RetryTimerLone, ConnectionClosesLone,
     RestartConnectorLone, RemoveConnectorLone, DoPendingFunctorsLone, ConnectorGoneLone,
     RunStartLone, RunStopLone, ResetChannelLone, RunForceCloseLone, NoSetCloseCallback
     DEF LoopNext
<1>3. UNCHANGED <<todo, client, connects, stopped>>
  <2>1. CASE Poll \/ HandleError \/ HandleWrite \/ RetryTimer \/ ConnectionCloses
             \/ RestartConnector \/ RemoveConnector \/ DoPendingFunctors
    BY <2>1 DEF Poll, HandleError, HandleWrite, RetryTimer, ConnectionCloses, Event,
                RestartConnector, RemoveConnector, DoPendingFunctors, clientVars, userVars
  <2>2. CASE ConnectorGone \/ RunStart \/ RunStop \/ ResetChannel \/ ConnectDestroyed
             \/ RunSetCloseCallback \/ RunForceClose
    BY <2>2 DEF ConnectorGone, RunStart, RunStop, ResetChannel, ConnectDestroyed,
                RunSetCloseCallback, RunForceClose, Functor, clientVars, userVars
  <2> QED
    BY <2>1, <2>2 DEF LoopNext
<1> QED
  BY <1>1, <1>2, <1>3, LoopCarries

-----------------------------------------------------------------------------
(* The calls, under the same restriction *)

\* A step that leaves the attempt, the queue and the loop alone, and owes no new start.
LEMMA QuietCarries ==
  ASSUME LoneInv, failed = "none", Halted => Halted', conn' = "none" <=> conn = "none",
         \A a \in Actors : todo'[a] \in ConnectSteps => todo[a] \in ConnectSteps,
         client' = client \/ (client = "alive" /\ client' = "dying"),
         UNCHANGED <<state_, channel_, functors, failed, closeCb, pc, active, due, batch,
                     connects>>
  PROVE  failed' = "none" /\ RoundInv' /\ ChannelInv' /\ Gone'
<1>1. \A f : Queued(f)' <=> Queued(f)
  BY DEF Queued, Count
<1>2. InTime <=> InTime'
  BY DEF InTime, ResetAmong
<1>3. RoundInv'
  BY DEF RoundInv, LoneInv
<1>4. ChannelInv'
  BY <1>1, <1>2 DEF ChannelInv, LoneInv
<1>5. Gone'
  BY DEF Gone, LoneInv, DeathInv
<1> QED
  BY <1>3, <1>4, <1>5

\* A step of the other thread.
LEMMA ThreadCarries ==
  ASSUME LoneInv, failed = "none", failed' = "none", Halted => Halted',
         RoundInv', ChannelInv', client = "alive",
         todo'["thread"] \in ConnectSteps \cup OtherSteps \cup {<<>>},
         todo["loop"] \in StopSteps \cup HaltSteps =>
           /\ clientConnect' => clientConnect
           /\ todo'["thread"] \notin ConnectSteps
           /\ connects' = connects,
         Queued("stopInLoop")' => Queued("stopInLoop"),
         stopped' \in {"no", stopped},
         UNCHANGED <<state_, conn, closeCb, client, pc>> \/
           /\ conn # "none" /\ conn' # "none"
           /\ UNCHANGED <<state_, closeCb, client, pc>>,
         todo'["loop"] = todo["loop"]
  PROVE  LoneInv'
<1>1. StopInv'
  <2>1. /\ todo'["loop"] \in StopSteps \cup HaltSteps =>
             /\ client' = "alive" => connects' = 1
             /\ \A a \in Actors : todo'[a] \notin ConnectSteps
        /\ todo'["loop"] # <<>> => pc' \in {"events", "functors"}
    BY DEF LoneInv, StopInv, Actors
  <2>2. todo'["loop"] = <<"connector-", "stopInLoop">> => ~clientConnect'
    BY Parts DEF LoneInv, StopInv
  <2>3. /\ todo'["loop"] \in Halting => Halted'
        /\ Queued("stopInLoop")' => Halted'
        /\ stopped' = "stopping" => todo'["loop"] \in StopSteps
        /\ stopped' = "yes" => Halted'
    BY DEF LoneInv, StopInv
  <2> QED
    BY <2>1, <2>2, <2>3 DEF StopInv
<1>2. DeathInv'
  <2>1. client' = "alive" /\ Gone'
    BY DEF Gone
  <2> QED
    BY <2>1 DEF LoneInv, DeathInv
<1> QED
  BY <1>1, <1>2 DEF LoneInv

\* The steps that set a flag or close the connection's write side.
Setter(a, s) ==
  /\ s \in {"client+", "client-", "connector+", "connector-", "retry", "shutdown"}
  /\ Step(a, s)
  /\ conn' = IF s = "shutdown" /\ connection_ THEN "shut" ELSE conn
  /\ IF s = "client-" THEN ~clientConnect'
     ELSE s # "client+" => clientConnect' = clientConnect
  /\ IF s = "connector-" THEN ~connect_' ELSE s # "connector+" => connect_' = connect_
  /\ UNCHANGED <<state_, channel_, functors, failed, closeCb, client, stopped>>

LEMMA SetterFacts ==
  ASSUME NEW a \in Actors,
         \/ \E s \in {"client+", "client-", "connector+", "connector-"} : SetConnect(a, s)
         \/ SetRetry(a) \/ Disconnect(a)
  PROVE  \E s : Setter(a, s)
<1>1. ASSUME NEW s \in {"client+", "client-", "connector+", "connector-"}, SetConnect(a, s)
      PROVE  Setter(a, s)
  BY <1>1 DEF SetConnect, Setter, attempt
<1>2. SetRetry(a) => Setter(a, "retry")
  BY DEF SetRetry, Setter, attempt
<1>3. Disconnect(a) => Setter(a, "shutdown")
  BY DEF Disconnect, Setter, attempt
<1> QED
  BY <1>1, <1>2, <1>3

LEMMA SetterLone ==
  ASSUME ClientInv, LoneInv, failed = "none", NEW a \in Actors, NEW s, Setter(a, s)
  PROVE  LoneInv'
<1>1. /\ s \in {"client+", "client-", "connector+", "connector-", "retry", "shutdown"}
      /\ conn' = IF s = "shutdown" /\ connection_ THEN "shut" ELSE conn
      /\ IF s = "client-" THEN ~clientConnect'
         ELSE s # "client+" => clientConnect' = clientConnect
      /\ IF s = "connector-" THEN ~connect_' ELSE s # "connector+" => connect_' = connect_
      /\ UNCHANGED <<state_, channel_, functors, failed, closeCb, client, stopped>>
      /\ Step(a, s)
  BY DEF Setter
<1>2. /\ todo[a] \in Alive \cup Dying /\ todo[a] # <<>> /\ Head(todo[a]) = s
      /\ todo'[a] = Tail(todo[a])
      /\ \A b \in Actors \ {a} : todo'[b] = todo[b]
      /\ s # "connector-" => client = "alive"
      /\ UNCHANGED <<pc, active, due, batch, connects>>
  <2>1. Scripts /\ Sound /\ s # "lookup"
    BY <1>1 DEF ClientInv, Sound
  <2> QED
    BY <1>1, <2>1, TakesStep DEF Scripts
<1>3. \/ s \in {"client+", "connector+"} /\ todo[a] \in ConnectSteps /\ todo'[a] \in ConnectSteps
      \/ /\ s = "client-"
         /\ \/ todo[a] \in StopSteps /\ todo'[a] = <<"connector-", "stopInLoop">>
            \/ todo[a] \in OtherSteps /\ todo'[a] \in OtherSteps
      \/ /\ s = "connector-"
         /\ \/ todo[a] = <<"connector-", "stopInLoop">> /\ todo'[a] = <<"stopInLoop">>
            \/ todo[a] \in HaltSteps \ Halting /\ todo'[a] = <<"stopInLoop", "release">>
      \/ s \in {"shutdown", "retry"} /\ todo[a] \in OtherSteps /\ todo'[a] = <<>>
  BY <1>1, <1>2, ByHead
<1>4. \A b \in Actors : todo'[b] \in ConnectSteps => todo[b] \in ConnectSteps
  BY <1>2, <1>3, Apart, Parts
<1>5. Halted => Halted'
  <2>1. Halted => s \notin {"client+", "connector+"}
    BY <1>3, Apart, Parts DEF Halted
  <2>2. Halted => ~connect_' /\ (clientConnect' => clientConnect)
    BY <1>1, <2>1 DEF Halted
  <2> QED
    BY <1>1, <1>2, <1>4, <2>2 DEF Halted
<1>6. conn' = "none" <=> conn = "none"
  BY <1>1, <1>2 DEF ClientInv, Linked
<1>7. failed' = "none" /\ RoundInv' /\ ChannelInv' /\ Gone'
  BY <1>1, <1>2, <1>4, <1>5, <1>6, QuietCarries
<1>8. CASE a = "thread"
  <2>1. todo["thread"] \in ConnectSteps \cup OtherSteps \cup {<<>>}
    BY DEF LoneInv, StopInv
  <2>2. s # "connector-"
    BY <1>3, <1>8, <2>1, Apart, Parts
  <2>3. todo'["thread"] \in ConnectSteps \cup OtherSteps \cup {<<>>}
    BY <1>3, <1>8, <2>1, <2>2, Apart
  <2>4. todo'["loop"] = todo["loop"]
    BY <1>2, <1>8 DEF Actors
  <2>5. todo["loop"] \in StopSteps \cup HaltSteps => todo["thread"] \notin ConnectSteps
    BY DEF LoneInv, StopInv, Actors
  <2>6. todo["loop"] \in StopSteps \cup HaltSteps =>
           /\ clientConnect' => clientConnect
           /\ todo'["thread"] \notin ConnectSteps
    BY <1>1, <1>3, <1>4, <1>8, <2>5, Apart
  <2>7. Queued("stopInLoop")' <=> Queued("stopInLoop")
    BY <1>1 DEF Queued, Count
  <2>8. conn' = conn \/ (conn # "none" /\ conn' # "none")
    BY <1>1, <1>6
  <2> QED
    BY <1>1, <1>2, <1>5, <1>7, <2>2, <2>3, <2>4, <2>6, <2>7, <2>8, ThreadCarries
<1>9. CASE a = "loop"
  <2>1. todo'["thread"] = todo["thread"] /\ pc \in {"events", "functors"}
    BY <1>2, <1>9 DEF Actors, LoneInv, StopInv
  <2>2. s = "connector-" => Halted'
    BY <1>1, <1>2, <1>3, <1>4, <1>6, <1>9, <2>1, Parts
       DEF Halted, LoneInv, StopInv, DeathInv, Actors
  <2>3. Queued("stopInLoop")' <=> Queued("stopInLoop")
    BY <1>1 DEF Queued, Count
  <2>4. /\ todo'["loop"] \in StopSteps \cup HaltSteps => todo["loop"] \in StopSteps \cup HaltSteps
        /\ todo["loop"] \in StopSteps => todo'["loop"] \in StopSteps
        /\ todo'["loop"] = <<"connector-", "stopInLoop">> => s = "client-"
        /\ todo'["loop"] \in Halting => s = "connector-"
    BY <1>3, <1>9, Apart, Parts
  <2>5. StopInv'
    BY <1>1, <1>2, <1>4, <1>5, <2>1, <2>2, <2>3, <2>4 DEF LoneInv, StopInv
  <2>6. /\ todo'["loop"] \notin LeaveSteps \cup Leaving \cup {<<"lookup">>}
        /\ todo["loop"] \notin LeaveSteps \cup {<<"lookup">>}
        /\ todo'["loop"] \in HaltSteps <=> todo["loop"] \in HaltSteps
    BY <1>3, <1>9, Apart, Parts
  <2>7. DeathInv'
    BY <1>1, <1>6, <1>7, <2>1, <2>6 DEF LoneInv, DeathInv
  <2> QED
    BY <1>7, <2>5, <2>7 DEF LoneInv
<1> QED
  BY <1>8, <1>9 DEF Actors

LEMMA StartNowLone ==
  ASSUME OnceAndOnLoop, ClientInv, LoneInv, failed = "none", StartNow
  PROVE  LoneInv'
<1>1. /\ Step("loop", "startInLoop")
      /\ StartInLoop(state_, connect_, retryDelayMs_)
      /\ UNCHANGED <<connect_, functors, clientConnect, closeCb, conn, client, stopped>>
  BY DEF StartNow, clientVars
<1>2. /\ todo["loop"] \in ConnectSteps /\ todo'["loop"] = <<>>
      /\ todo'["thread"] = todo["thread"] /\ client = "alive"
      /\ UNCHANGED <<pc, active, due, batch, connects>>
  <2>1. Scripts /\ Sound /\ "loop" \in Actors
    BY DEF ClientInv, Sound, Actors
  <2>2. /\ todo["loop"] \in ConnectSteps /\ Head(todo["loop"]) = "startInLoop"
        /\ todo'["loop"] = Tail(todo["loop"])
        /\ todo'["thread"] = todo["thread"] /\ client = "alive"
        /\ UNCHANGED <<pc, active, due, batch, connects>>
    BY <1>1, <2>1, TakesStep DEF Actors
  <2> QED
    BY <2>2, ConnectTail
<1>3. /\ state_ = "kDisconnected" /\ connects # 0 /\ ~Queued("startInLoop")
      /\ todo["thread"] \notin ConnectSteps
  BY <1>2, OneToken DEF Actors
<1>4. /\ ~channel_ /\ closeCb # "detail" /\ ~Halted
      /\ ~Queued("forceClose") /\ ~Queued("setCloseCallback")
  BY <1>2, <1>3 DEF LoneInv, ChannelInv, Halted, Actors
<1>5. /\ failed' = "none"
      /\ state_' = "kConnecting" \/ ~channel_'
  <2>1. AttemptTyped /\ connect_ \in BOOLEAN
        /\ retryDelayMs_ \in kInitRetryDelayMs .. kMaxRetryDelayMs
    BY DEF ClientInv, TypeOK, AttemptTyped
  <2>2. /\ failed' \in {"none", "startInLoop", "connecting"}
        /\ failed' = "startInLoop" => state_ # "kDisconnected"
        /\ failed' = "connecting" => channel_
        /\ failed' = "none" => state_' = "kConnecting" \/ channel_' = channel_
    BY <1>1, <2>1, StartOutcome DEF attempt
  <2> QED
    BY <1>3, <1>4, <2>2
<1>6. \A f : Queued(f)' <=> Queued(f)
  BY <1>1 DEF Queued, Count
<1>7. RoundInv'
  BY <1>1, <1>2 DEF RoundInv, LoneInv
<1>8. \A a \in Actors : todo'[a] \notin ConnectSteps
  BY <1>2, <1>3, Apart DEF Actors
<1>9. ChannelInv'
  BY <1>1, <1>2, <1>3, <1>4, <1>5, <1>6, <1>8 DEF ChannelInv
<1>10. /\ <<>> \notin StopSteps \cup HaltSteps \cup Halting \cup LeaveSteps \cup Leaving
       /\ <<>> # <<"connector-", "stopInLoop">> /\ <<>> # <<"lookup">>
       /\ todo["loop"] \notin StopSteps
  BY <1>2, Apart, Parts
<1>11. StopInv'
  BY <1>1, <1>2, <1>4, <1>6, <1>10 DEF LoneInv, StopInv
<1>12. DeathInv'
  BY <1>1, <1>2, <1>10 DEF LoneInv, DeathInv, Gone
<1> QED
  BY <1>5, <1>7, <1>9, <1>11, <1>12 DEF LoneInv

LEMMA SetCloseCallbackNowLone ==
  ASSUME OnceAndOnLoop, ClientInv, LoneInv, failed = "none", SetCloseCallbackNow
  PROVE  LoneInv'
<1>1. /\ Step("loop", "setCloseCallback") /\ closeCb' = "detail"
      /\ UNCHANGED <<connect_, state_, channel_, functors, failed, clientConnect,
                     conn, client, stopped>>
  BY DEF SetCloseCallbackNow, attempt
<1>2. /\ todo["loop"] \in LeaveSteps /\ todo'["loop"] \in Leaving
      /\ todo'["thread"] = todo["thread"] /\ client # "alive"
      /\ UNCHANGED <<pc, active, due, batch, connects>>
  <2>1. Scripts /\ Sound /\ "loop" \in Actors
    BY DEF ClientInv, Sound, Actors
  <2>2. /\ todo["loop"] # <<>> /\ Head(todo["loop"]) = "setCloseCallback"
        /\ todo'["loop"] = Tail(todo["loop"])
        /\ todo'["thread"] = todo["thread"] /\ client # "alive"
        /\ UNCHANGED <<pc, active, due, batch, connects>>
    BY <1>1, <2>1, TakesStep DEF Actors
  <2>3. todo["loop"] \in Alive \cup Dying
    BY <2>1 DEF Scripts
  <2> QED
    BY <2>2, <2>3, ByHead
<1>3. /\ state_ = "kConnected" /\ client = "dying" /\ pc \in {"events", "functors"}
  BY <1>2, Apart DEF LoneInv, DeathInv, StopInv
<1>4. /\ todo["loop"] \notin ConnectSteps \cup StopSteps
      /\ todo'["loop"] \in LeaveSteps /\ todo'["loop"] # <<"connector-", "stopInLoop">>
      /\ todo'["loop"] \notin ConnectSteps \cup StopSteps \cup HaltSteps \cup Halting
      /\ todo'["loop"] \notin {<<"lookup">>, <<>>}
  BY <1>2, Apart, Parts
<1>5. Halted => Halted'
  BY <1>1, <1>2, <1>4 DEF Halted, Actors
<1>6. \A f : Queued(f)' <=> Queued(f)
  BY <1>1 DEF Queued, Count
<1>7. InTime <=> InTime'
  BY <1>1, <1>2 DEF InTime, ResetAmong
<1>8. \A a \in Actors : todo'[a] \in ConnectSteps => todo[a] \in ConnectSteps
  BY <1>2, <1>4 DEF Actors
<1>9. RoundInv'
  BY <1>1, <1>2 DEF RoundInv, LoneInv
<1>10. ChannelInv'
  BY <1>1, <1>2, <1>3, <1>5, <1>6, <1>7, <1>8 DEF ChannelInv, LoneInv
<1>11. StopInv'
  BY <1>1, <1>2, <1>3, <1>4, <1>5, <1>6 DEF LoneInv, StopInv
<1>12. DeathInv'
  BY <1>1, <1>2, <1>3, <1>4 DEF LoneInv, DeathInv, Gone
<1> QED
  BY <1>1, <1>9, <1>10, <1>11, <1>12 DEF LoneInv

LEMMA QueueLone ==
  ASSUME OnceAndOnLoop, ClientInv, LoneInv, failed = "none", NEW a \in Actors,
         NEW f \in {"startInLoop", "stopInLoop", "setCloseCallback", "forceClose"},
         Queue(a, f)
  PROVE  LoneInv'
<1>1. /\ Step(a, f) /\ functors' = Append(functors, f)
      /\ a = "loop" => f \in {"stopInLoop", "forceClose"}
      /\ stopped' = IF f = "stopInLoop" /\ stopped = "stopping" THEN "yes" ELSE stopped
      /\ UNCHANGED <<connect_, state_, channel_, failed, clientConnect, closeCb, conn, client>>
  BY DEF Queue, attempt, clientVars
<1>2. /\ todo[a] \in Alive \cup Dying /\ todo[a] # <<>> /\ Head(todo[a]) = f
      /\ todo'[a] = Tail(todo[a])
      /\ \A b \in Actors \ {a} : todo'[b] = todo[b]
      /\ f = "startInLoop" => client = "alive"
      /\ UNCHANGED <<pc, active, due, batch, connects>>
  <2>1. Scripts /\ Sound /\ f # "lookup"
    BY DEF ClientInv, Sound
  <2> QED
    BY <1>1, <2>1, TakesStep DEF Scripts
<1>3. /\ f = "startInLoop" => todo[a] \in ConnectSteps /\ todo'[a] = <<>>
      /\ f = "stopInLoop" =>
           \/ todo[a] = <<"stopInLoop">> /\ todo'[a] = <<>>
           \/ todo[a] = <<"stopInLoop", "release">> /\ todo'[a] = <<"release">>
      /\ f = "setCloseCallback" => todo[a] \in LeaveSteps
      /\ f = "forceClose" => todo[a] \in Leaving /\ todo'[a] \in Leaving
  BY <1>2, ByHead
<1>4. todo["thread"] \in ConnectSteps \cup OtherSteps \cup {<<>>}
  BY DEF LoneInv, StopInv
<1>5. /\ a = "thread" => f = "startInLoop"
      /\ a = "loop" => f \in {"stopInLoop", "forceClose"}
  BY <1>1, <1>3, <1>4, Apart, Parts
<1>6. functors \in Seq(Names)
  BY FunctorsType DEF ClientInv
<1>7. \A h \in Names : h # f => (Queued(h)' <=> Queued(h))
  BY <1>1, <1>6, QueueGains DEF Names, Queued
<1>8. InTime => InTime'
  <2>1. batch \in 0 .. Len(functors)
    BY DEF ClientInv, TypeOK
  <2>2. /\ ResetAmong(batch) => \E i \in 1 .. batch : functors'[i] = "resetChannel"
        /\ ResetAmong(Len(functors)) =>
             \E i \in 1 .. Len(functors') : functors'[i] = "resetChannel"
    BY <1>1, <1>6, <2>1, ResetKept DEF Names
  <2> QED
    BY <1>2, <2>2 DEF InTime, ResetAmong
<1>9. \A b \in Actors : todo'[b] \in ConnectSteps => todo[b] \in ConnectSteps
  BY <1>2, <1>3, <1>5, Apart, Parts DEF Actors
<1>10. Halted => Halted'
  BY <1>1, <1>2, <1>9 DEF Halted
<1>11. RoundInv'
  BY <1>1, <1>2 DEF RoundInv, LoneInv
<1>12. CASE a = "thread"
  <2>1. /\ f = "startInLoop" /\ todo["thread"] \in ConnectSteps /\ todo'["thread"] = <<>>
        /\ client = "alive" /\ todo'["loop"] = todo["loop"]
    BY <1>2, <1>3, <1>5, <1>12 DEF Actors
  <2>2. ~channel_
    BY <2>1 DEF LoneInv, ChannelInv, Actors
  <2>3. ChannelInv'
    BY <1>1, <1>2, <1>7, <2>1, <2>2 DEF ChannelInv, LoneInv, Names
  <2>4. todo'["thread"] \notin ConnectSteps
    BY <2>1, Apart
  <2>5. Queued("stopInLoop")' => Queued("stopInLoop")
    BY <1>7, <2>1 DEF Names
  <2>6. todo["loop"] \in StopSteps \cup HaltSteps =>
          /\ clientConnect' => clientConnect
          /\ todo'["thread"] \notin ConnectSteps
          /\ connects' = connects
    BY <1>1, <1>2, <2>4
  <2>7. stopped' \in {"no", stopped} /\ UNCHANGED <<state_, conn, closeCb, client, pc>>
    BY <1>1, <1>2, <2>1
  <2>8. todo'["thread"] \in ConnectSteps \cup OtherSteps \cup {<<>>} /\ failed' = "none"
    BY <1>1, <2>1
  <2> QED
    BY <1>10, <1>11, <2>1, <2>3, <2>5, <2>6, <2>7, <2>8, ThreadCarries
<1>13. CASE a = "loop"
  <2>1. todo'["thread"] = todo["thread"] /\ pc \in {"events", "functors"}
    BY <1>2, <1>13 DEF Actors, LoneInv, StopInv
  <2>2. CASE f = "stopInLoop"
    <3>1. Halted'
      BY <1>3, <1>10, <1>13, <2>2 DEF LoneInv, StopInv, Halting
    <3>2. ChannelInv'
      BY <1>1, <1>2, <1>7, <1>9, <2>2, <3>1 DEF ChannelInv, LoneInv, Names
    <3>3. /\ todo'["loop"] \in StopSteps \cup HaltSteps => todo["loop"] \in StopSteps \cup HaltSteps
          /\ todo'["loop"] # <<"connector-", "stopInLoop">>
          /\ todo'["loop"] \notin LeaveSteps \cup Leaving \cup {<<"lookup">>}
          /\ todo["loop"] \notin LeaveSteps \cup {<<"lookup">>}
          /\ todo'["loop"] \in HaltSteps <=> todo["loop"] \in HaltSteps
      BY <1>3, <1>13, <2>2, Apart, Parts
    <3>4. stopped' # "stopping"
      BY <1>1, <2>2
    <3>5. StopInv'
      BY <1>1, <1>2, <1>9, <2>1, <3>1, <3>3, <3>4 DEF LoneInv, StopInv
    <3>6. DeathInv'
      BY <1>1, <2>1, <3>1, <3>3 DEF LoneInv, DeathInv, Gone
    <3> QED
      BY <1>1, <1>11, <3>2, <3>5, <3>6 DEF LoneInv
  <2>3. CASE f = "forceClose"
    <3>1. todo["loop"] \in Leaving /\ todo'["loop"] \in Leaving /\ stopped' = stopped
      BY <1>1, <1>3, <1>13, <2>3
    <3>2. closeCb = "detail"
      BY <3>1 DEF LoneInv, DeathInv
    <3>3. ChannelInv'
      BY <1>1, <1>2, <1>7, <1>8, <1>9, <1>10, <2>3, <3>2 DEF ChannelInv, LoneInv, Names
    <3>4. /\ todo'["loop"] \notin StopSteps \cup HaltSteps \cup Halting
          /\ todo'["loop"] # <<"connector-", "stopInLoop">>
          /\ todo["loop"] \in LeaveSteps /\ todo'["loop"] \in LeaveSteps
          /\ todo'["loop"] # <<"lookup">> /\ todo["loop"] \notin StopSteps
      BY <3>1, Apart, Parts
    <3>5. Queued("stopInLoop")' => Queued("stopInLoop")
      BY <1>7, <2>3 DEF Names
    <3>6. StopInv'
      BY <1>1, <1>2, <1>10, <2>1, <3>1, <3>4, <3>5 DEF LoneInv, StopInv
    <3>7. DeathInv'
      BY <1>1, <1>10, <2>1, <3>2, <3>4 DEF LoneInv, DeathInv, Gone
    <3> QED
      BY <1>1, <1>11, <3>3, <3>6, <3>7 DEF LoneInv
  <2> QED
    BY <1>5, <1>13, <2>2, <2>3
<1> QED
  BY <1>12, <1>13 DEF Actors

LEMMA LookUpLone ==
  ASSUME OnceAndOnLoop, ClientInv, LoneInv, failed = "none", NEW a \in Actors, LookUp(a)
  PROVE  LoneInv'
<1>1. PICK steps \in Teardowns : todo' = [todo EXCEPT ![a] = steps]
  BY DEF LookUp
<1>2. /\ todo[a] = <<"lookup">>
      /\ UNCHANGED <<connect_, state_, channel_, functors, failed, clientConnect, closeCb,
                     conn, client, pc, active, due, batch, connects, stopped>>
  BY DEF LookUp, attempt, clientVars, loopVars
<1>3. a = "loop"
  BY <1>2, Apart DEF LoneInv, StopInv, Actors
<1>4. todo'["loop"] = steps /\ todo'["thread"] = todo["thread"]
  BY <1>1, <1>3 DEF ClientInv, Scripts, Actors
<1>5. /\ client = "dying" /\ closeCb = "client" /\ todo["thread"] = <<>>
      /\ pc \in {"events", "functors"} /\ stopped # "stopping"
  BY <1>2, <1>3, Apart DEF LoneInv, DeathInv, StopInv
<1>6. \/ steps \in LeaveSteps \ Leaving /\ conn # "none"
      \/ steps \in HaltSteps \ Halting /\ conn = "none"
  <2>1. /\ {<<"setCloseCallback", "free">>, <<"setCloseCallback", "forceClose", "free">>}
             \subseteq LeaveSteps \ Leaving
        /\ <<"connector-", "stopInLoop", "release">> \in HaltSteps \ Halting
    <3>1. \A t \in Leaving : Head(t) \in {"free", "forceClose"}
      BY One, Two DEF Leaving
    <3>2. /\ Head(<<"setCloseCallback", "free">>) = "setCloseCallback"
          /\ Head(<<"setCloseCallback", "forceClose", "free">>) = "setCloseCallback"
      BY Two, Three
    <3> QED
      BY <3>1, <3>2, Parts DEF LeaveSteps
  <2>2. connection_ <=> conn # "none"
    BY <1>5 DEF ClientInv, Linked
  <2> QED
    BY <2>1, <2>2 DEF Teardowns
<1>7. conn # "none" => state_ = "kConnected"
  BY DEF ClientInv, Linked
<1>8. /\ steps \notin ConnectSteps \cup StopSteps \cup Halting \cup Leaving
      /\ steps # <<"connector-", "stopInLoop">> /\ steps \notin {<<"lookup">>, <<>>}
      /\ <<>> \notin ConnectSteps
      /\ steps \in LeaveSteps => steps \notin HaltSteps
  BY <1>6, Apart, Parts
<1>9. \A b \in Actors : todo'[b] \notin ConnectSteps
  BY <1>4, <1>5, <1>8 DEF Actors
<1>10. Halted => Halted'
  BY <1>2, <1>9 DEF Halted
<1>11. failed' = "none" /\ RoundInv' /\ ChannelInv' /\ Gone'
  BY <1>2, <1>9, <1>10, QuietCarries
<1>12. \A f : Queued(f)' <=> Queued(f)
  BY <1>2 DEF Queued, Count
<1>13. StopInv'
  BY <1>2, <1>4, <1>5, <1>8, <1>9, <1>10, <1>12 DEF LoneInv, StopInv
<1>14. DeathInv'
  BY <1>2, <1>4, <1>5, <1>6, <1>7, <1>8, <1>11 DEF LoneInv, DeathInv
<1> QED
  BY <1>11, <1>13, <1>14 DEF LoneInv

LEMMA ReleaseLone ==
  ASSUME OnceAndOnLoop, ClientInv, LoneInv, failed = "none", NEW a \in Actors,
         NEW s \in {"free", "release"}, Release(a, s)
  PROVE  LoneInv'
<1>1. /\ Step(a, s) /\ client' = "gone"
      /\ UNCHANGED <<connect_, state_, channel_, functors, failed, clientConnect, closeCb, conn,
                     stopped>>
  BY DEF Release, attempt
<1>2. /\ todo[a] \in Alive \cup Dying /\ todo[a] # <<>> /\ Head(todo[a]) = s
      /\ todo'[a] = Tail(todo[a])
      /\ \A b \in Actors \ {a} : todo'[b] = todo[b]
      /\ client # "alive"
      /\ UNCHANGED <<pc, active, due, batch, connects>>
  <2>1. Scripts /\ Sound /\ s # "lookup"
    BY DEF ClientInv, Sound
  <2> QED
    BY <1>1, <2>1, TakesStep DEF Scripts
<1>3. todo["thread"] = <<>>
  BY <1>2 DEF LoneInv, DeathInv
<1>4. a = "loop" /\ todo'["thread"] = <<>>
  BY <1>2, <1>3 DEF Actors
<1>5. /\ todo'["loop"] = <<>>
      /\ \/ todo["loop"] \in Leaving
         \/ todo["loop"] = <<"release">>
  BY <1>2, <1>4, ByHead
<1>6. /\ <<>> \notin ConnectSteps \cup StopSteps \cup HaltSteps \cup Halting
                       \cup LeaveSteps \cup Leaving
      /\ <<>> # <<"connector-", "stopInLoop">> /\ <<>> # <<"lookup">>
      /\ todo["loop"] \notin StopSteps
      /\ <<"release">> \in Halting \cap HaltSteps
  BY <1>5, Apart, Parts DEF Halting
<1>7. \/ closeCb = "detail" /\ state_ = "kConnected"
      \/ Halted /\ conn = "none"
  BY <1>5, <1>6 DEF LoneInv, StopInv, DeathInv, ChannelInv
<1>8. \A b \in Actors : todo'[b] \notin ConnectSteps
  BY <1>4, <1>5, <1>6 DEF Actors
<1>9. Halted => Halted'
  BY <1>1, <1>2, <1>8 DEF Halted
<1>10. \A f : Queued(f)' <=> Queued(f)
  BY <1>1 DEF Queued, Count
<1>11. InTime <=> InTime'
  BY <1>1, <1>2 DEF InTime, ResetAmong
<1>12. RoundInv'
  BY <1>1, <1>2 DEF RoundInv, LoneInv
<1>13. ChannelInv'
  BY <1>1, <1>2, <1>8, <1>9, <1>10, <1>11 DEF ChannelInv, LoneInv
<1>14. StopInv'
  BY <1>1, <1>4, <1>5, <1>6, <1>9, <1>10 DEF LoneInv, StopInv
<1>15. DeathInv'
  BY <1>1, <1>4, <1>5, <1>6, <1>7, <1>9 DEF DeathInv, Gone
<1> QED
  BY <1>1, <1>12, <1>13, <1>14, <1>15 DEF LoneInv

\* A connect() that has not finished is found by Starting.
LEMMA StartsFound ==
  ASSUME ~Starting, NEW a \in Actors
  PROVE  todo[a] \notin ConnectSteps
<1>1. \A t \in ConnectSteps : \E i \in DOMAIN t : t[i] = "startInLoop"
  <2>1. \E i \in DOMAIN <<"client+", "connector+", "startInLoop">> :
          <<"client+", "connector+", "startInLoop">>[i] = "startInLoop"
    <3>1. 3 \in DOMAIN <<"client+", "connector+", "startInLoop">>
      OBVIOUS
    <3> QED
      BY <3>1
  <2>2. \E i \in DOMAIN <<"connector+", "startInLoop">> :
          <<"connector+", "startInLoop">>[i] = "startInLoop"
    <3>1. 2 \in DOMAIN <<"connector+", "startInLoop">>
      OBVIOUS
    <3> QED
      BY <3>1
  <2>3. \E i \in DOMAIN <<"startInLoop">> : <<"startInLoop">>[i] = "startInLoop"
    <3>1. 1 \in DOMAIN <<"startInLoop">>
      OBVIOUS
    <3> QED
      BY <3>1
  <2> QED
    BY <2>1, <2>2, <2>3 DEF ConnectSteps
<1> QED
  BY <1>1 DEF Starting

LEMMA CallLone ==
  ASSUME OnceAndOnLoop, ClientInv, LoneInv, failed = "none", NEW a \in Actors,
         NEW op \in Calls, Call(a, op)
  PROVE  LoneInv'
<1>1. /\ IF a = "loop" THEN pc \in {"events", "functors"} ELSE op \in ThreadCalls
      /\ client = "alive" /\ todo[a] = <<>>
      /\ op = "connect" => connects < MaxConnects
      /\ op = "stop" => connects > 0 /\ ~Starting
      /\ op = "destroy" => \A b \in Actors : todo[b] = <<>>
      /\ todo' = [todo EXCEPT ![a] = Steps(op)]
      /\ connects' = IF op = "connect" THEN connects + 1 ELSE connects
      /\ client' = IF op = "destroy" THEN "dying" ELSE client
      /\ stopped' = CASE op = "connect" -> "no"
                      [] op = "stop" -> "stopping"
                      [] OTHER -> stopped
      /\ UNCHANGED <<connect_, state_, channel_, functors, failed, clientConnect, closeCb,
                     conn, pc, active, due, batch>>
  BY DEF Call, attempt, loopVars
<1>2. todo'[a] = Steps(op) /\ \A b \in Actors \ {a} : todo'[b] = todo[b]
  BY <1>1 DEF ClientInv, Scripts
<1>3. connects \in {0, 1} /\ (op = "connect" => connects = 0 /\ connects' = 1)
  <2>1. connects \in {0, 1}
    BY OneToken
  <2> QED
    BY <1>1, <2>1, TcpClientAssumption DEF OnceAndOnLoop
<1>4. closeCb = "client"
  BY <1>1 DEF ClientInv, Linked
<1>5. \A f : Queued(f)' <=> Queued(f)
  BY <1>1 DEF Queued, Count
<1>6. /\ <<>> \notin ConnectSteps \cup StopSteps \cup HaltSteps \cup Halting
                       \cup LeaveSteps \cup Leaving
      /\ <<>> # <<"connector-", "stopInLoop">> /\ <<>> # <<"lookup">>
  BY Apart, Parts
<1>7. CASE op = "connect"
  <2>1. ~Halted /\ ~channel_ /\ todo["loop"] \notin StopSteps \cup HaltSteps
    BY <1>1, <1>3, <1>7 DEF LoneInv, ChannelInv, StopInv, Halted
  <2>2. Steps(op) \in ConnectSteps
    BY <1>7, StepsType
  <2>3. RoundInv'
    BY <1>1 DEF RoundInv, LoneInv
  <2>4. ChannelInv'
    BY <1>1, <1>4, <1>5, <2>1 DEF ChannelInv, LoneInv
  <2>5. stopped' = "no" /\ client' = "alive" /\ failed' = "none"
    BY <1>1, <1>7
  <2>6. CASE a = "thread"
    <3>1. todo'["thread"] \in ConnectSteps /\ todo'["loop"] = todo["loop"]
      BY <1>2, <2>2, <2>6 DEF Actors
    <3> QED
      BY <1>1, <1>5, <2>1, <2>3, <2>4, <2>5, <3>1, ThreadCarries
  <2>7. CASE a = "loop"
    <3>1. todo'["loop"] \in ConnectSteps /\ todo'["thread"] = todo["thread"]
      BY <1>2, <2>2, <2>7 DEF Actors
    <3>2. /\ todo'["loop"] \notin StopSteps \cup HaltSteps \cup Halting \cup LeaveSteps
                                   \cup Leaving \cup {<<"lookup">>}
          /\ todo'["loop"] # <<"connector-", "stopInLoop">>
      BY <3>1, Apart, Parts
    <3>3. StopInv'
      BY <1>1, <1>5, <2>1, <2>5, <2>7, <3>1, <3>2 DEF LoneInv, StopInv
    <3>4. DeathInv'
      BY <2>5, <3>2 DEF DeathInv, Gone
    <3> QED
      BY <2>3, <2>4, <2>5, <3>3, <3>4 DEF LoneInv
  <2> QED
    BY <2>6, <2>7 DEF Actors
<1>8. CASE op # "connect"
  <2>1. Steps(op) \in StopSteps \cup OtherSteps \cup {<<"lookup">>}
    BY <1>8, StepsType DEF Calls
  <2>2. \A b \in Actors : todo'[b] \in ConnectSteps => todo[b] \in ConnectSteps
    BY <1>2, <2>1, Apart
  <2>3. Halted => Halted'
    BY <1>1, <1>8, <2>2 DEF Halted
  <2>4. failed' = "none" /\ RoundInv' /\ ChannelInv' /\ Gone'
    BY <1>1, <1>8, <2>2, <2>3, QuietCarries
  <2>5. CASE a = "thread"
    <3>1. op \in {"disconnect", "enableRetry"}
      BY <1>1, <1>8, <2>5 DEF OnceAndOnLoop
    <3>2. todo'["thread"] \in OtherSteps /\ todo'["loop"] = todo["loop"]
      BY <1>2, <2>5, <3>1, StepsType DEF Actors
    <3>3. todo'["thread"] \notin ConnectSteps
      BY <3>2, Apart
    <3>4. stopped' = stopped /\ client' = client /\ connects' = connects
      BY <1>1, <3>1
    <3> QED
      BY <1>1, <1>5, <2>3, <2>4, <3>2, <3>3, <3>4, ThreadCarries
  <2>6. CASE a = "loop"
    <3>1. /\ todo'["loop"] = Steps(op) /\ todo'["thread"] = todo["thread"]
          /\ pc \in {"events", "functors"} /\ todo["loop"] = <<>>
      BY <1>1, <1>2, <2>6 DEF Actors
    <3>2. /\ todo'["loop"] \notin HaltSteps \cup Halting \cup LeaveSteps \cup Leaving
          /\ todo'["loop"] # <<"connector-", "stopInLoop">>
          /\ todo'["loop"] \in StopSteps <=> op = "stop"
          /\ todo'["loop"] = <<"lookup">> <=> op = "destroy"
      <4>1. CASE op = "stop"
        <5>1. /\ Steps(op) = <<"client-", "connector-", "stopInLoop">>
              /\ Head(Steps(op)) = "client-"
          BY <4>1, Three DEF Steps
        <5>2. /\ \A t \in Halting : Head(t) \in {"stopInLoop", "release"}
              /\ Head(<<"connector-", "stopInLoop">>) = "connector-"
          BY One, Two DEF Halting
        <5> QED
          BY <3>1, <4>1, <5>1, <5>2, StepsType, Apart, Parts
      <4>2. CASE op # "stop"
        BY <1>8, <3>1, <4>2, StepsType, Apart, Parts DEF Calls
      <4> QED
        BY <4>1, <4>2
    <3>3. op = "stop" => connects' = 1 /\ \A b \in Actors : todo'[b] \notin ConnectSteps
      BY <1>1, <1>3, <1>8, <2>2, StartsFound
    <3>4. stopped' = "stopping" => op = "stop"
      BY <1>1, <1>6, <3>1 DEF LoneInv, StopInv
    <3>5. stopped' = "yes" => Halted'
      BY <1>1, <2>3 DEF LoneInv, StopInv
    <3>6. StopInv'
      BY <1>1, <1>5, <2>3, <3>1, <3>2, <3>3, <3>4, <3>5 DEF LoneInv, StopInv
    <3>7. client' # "alive" => todo["thread"] = <<>>
      BY <1>1 DEF Actors
    <3>8. client' = "dying" <=> op = "destroy"
      BY <1>1
    <3>9. DeathInv'
      BY <1>1, <1>4, <2>4, <3>1, <3>2, <3>7, <3>8 DEF DeathInv
    <3> QED
      BY <2>4, <3>6, <3>9 DEF LoneInv
  <2> QED
    BY <2>5, <2>6 DEF Actors
<1> QED
  BY <1>7, <1>8

LEMMA LoneInit ==
  ASSUME OnceAndOnLoop
  PROVE  Init => LoneInv
<1> SUFFICES ASSUME Init PROVE LoneInv
  OBVIOUS
<1> USE DEF Init, ConnectorInit
<1>1. ~Queued("startInLoop") /\ ~Queued("stopInLoop") /\ ~Queued("forceClose")
      /\ ~Queued("setCloseCallback")
  <2>1. functors \in Seq(Names) /\ functors = <<>>
    OBVIOUS
  <2>2. \A f \in Names : Count(f) = 0
    BY <2>1, CountType
  <2> QED
    BY <2>2 DEF Queued, Names
<1>2. /\ \A a \in Actors : todo[a] = <<>>
      /\ todo["loop"] = <<>> /\ todo["thread"] = <<>>
  BY DEF Actors
<1>3. /\ <<>> \notin ConnectSteps \cup StopSteps \cup HaltSteps \cup Halting
                       \cup LeaveSteps \cup Leaving
      /\ <<>> # <<"connector-", "stopInLoop">> /\ <<>> # <<"lookup">>
  BY Apart, Parts
<1>4. RoundInv /\ ChannelInv
  BY <1>1 DEF RoundInv, ChannelInv
<1>5. StopInv
  BY <1>1, <1>2, <1>3 DEF StopInv
<1>6. DeathInv
  BY <1>2, <1>3 DEF DeathInv, Gone
<1> QED
  BY <1>4, <1>5, <1>6 DEF LoneInv

LEMMA LoneNext ==
  ASSUME OnceAndOnLoop
  PROVE  ClientInv /\ LoneInv /\ [Next]_vars => LoneInv'
<1> SUFFICES ASSUME ClientInv, LoneInv, [Next]_vars PROVE LoneInv'
  OBVIOUS
<1>1. CASE UNCHANGED vars
  BY <1>1 DEF vars, clientVars, loopVars, userVars, attempt, LoneInv, RoundInv, ChannelInv,
              StopInv, DeathInv, Gone, Halted, InTime, ResetAmong, Queued, Count
<1>2. CASE Next
  <2>1. failed = "none"
    BY <1>2 DEF Next, Running
  <2>2. CASE LoopNext
    BY <2>1, <2>2, LoopLone
  <2>3. CASE StartNow
    BY <2>1, <2>3, StartNowLone
  <2>4. CASE SetCloseCallbackNow
    BY <2>1, <2>4, SetCloseCallbackNowLone
  <2>5. ASSUME NEW a \in Actors, CallNext(a)
        PROVE  LoneInv'
    <3>1. CASE \/ \E s \in {"client+", "client-", "connector+", "connector-"} : SetConnect(a, s)
               \/ SetRetry(a) \/ Disconnect(a)
      BY <2>1, <3>1, SetterFacts, SetterLone
    <3>2. CASE LookUp(a)
      BY <2>1, <3>2, LookUpLone
    <3>3. CASE \E f \in {"startInLoop", "stopInLoop", "setCloseCallback", "forceClose"} :
                 Queue(a, f)
      BY <2>1, <3>3, QueueLone
    <3>4. CASE \E s \in {"free", "release"} : Release(a, s)
      BY <2>1, <3>4, ReleaseLone
    <3> QED
      BY <2>5, <3>1, <3>2, <3>3, <3>4 DEF CallNext
  <2>6. ASSUME NEW a \in Actors, NEW op \in Calls, Call(a, op)
        PROVE  LoneInv'
    BY <2>1, <2>6, CallLone
  <2> QED
    BY <1>2, <2>2, <2>3, <2>4, <2>5, <2>6 DEF Next
<1> QED
  BY <1>1, <1>2

LEMMA LoneInvariant ==
  ASSUME OnceAndOnLoop
  PROVE  Spec => []LoneInv
<1>1. Init => LoneInv
  BY LoneInit
<1>2. ClientInv /\ LoneInv /\ [Next]_vars => LoneInv'
  BY LoneNext
<1> QED
  BY <1>1, <1>2, ClientInvariant, PTL DEF Spec

\* When connect() is called once and only the loop's thread stops or destroys the client,
\* the assertions of startInLoop() and connecting() hold whatever the retry timers, the
\* queued starts and restart() do, and however often the server refuses.
THEOREM AttemptsNeverOverlap ==
  ASSUME OnceAndOnLoop
  PROVE  Spec => []StartsAlone
<1>1. LoneInv => StartsAlone
  BY DEF LoneInv, StartsAlone
<1> QED
  BY <1>1, LoneInvariant, PTL

\* Under the same restriction neither Connector::handleWrite() nor the close callback of
\* the connection calls a TcpClient that is gone: the destructor has put detail's
\* removeConnection() in its place, or has cleared connect_ before the attempt succeeds.
THEOREM DeadClientIsNotCalled ==
  ASSUME OnceAndOnLoop
  PROVE  Spec => []ClientNotCalledAfterDeath
<1>1. LoneInv => ClientNotCalledAfterDeath
  BY DEF LoneInv, ClientNotCalledAfterDeath
<1> QED
  BY <1>1, LoneInvariant, PTL

\* Once stop() has returned, nothing that is left over begins an attempt: a retry timer, a
\* queued startInLoop() and the close callback all find connect_ cleared.
LEMMA StopStep ==
  ASSUME OnceAndOnLoop, ClientInv, LoneInv, Next, stopped = "yes", state_ # "kConnecting"
  PROVE  state_' # "kConnecting"
<1>1. failed = "none"
  BY DEF Next, Running
<1>2. Halted
  BY <1>1 DEF LoneInv, StopInv
<1>3. ~connect_ /\ pc # "restart"
  BY <1>2 DEF Halted
<1>4. ASSUME StartInLoop(state_, connect_, retryDelayMs_) PROVE state_' = state_
  BY <1>3, <1>4 DEF StartInLoop, attempt
<1>5. CASE LoopNext
  <2>1. CASE Poll \/ ConnectionCloses \/ DoPendingFunctors \/ ConnectorGone \/ ResetChannel
             \/ ConnectDestroyed \/ RunSetCloseCallback \/ RunForceClose
    BY <2>1 DEF Poll, ConnectionCloses, DoPendingFunctors, ConnectorGone, ResetChannel,
                ConnectDestroyed, RunSetCloseCallback, RunForceClose, attempt
  <2>2. CASE HandleError \/ HandleWrite \/ RunStop
    BY <2>2 DEF HandleError, HandleWrite, RunStop, AttemptFails, AttemptSucceeds, StopInLoop,
                Retry
  <2>3. CASE RetryTimer \/ RunStart
    BY <1>4, <2>3 DEF RetryTimer, RunStart
  <2>4. CASE RestartConnector \/ RemoveConnector
    BY <1>3, <2>4 DEF RestartConnector, RemoveConnector, attempt
  <2> QED
    BY <1>5, <2>1, <2>2, <2>3, <2>4 DEF LoopNext
<1>6. CASE StartNow
  BY <1>4, <1>6 DEF StartNow
<1>7. CASE SetCloseCallbackNow
  BY <1>7 DEF SetCloseCallbackNow, attempt
<1>8. ASSUME NEW a \in Actors, CallNext(a)
      PROVE  state_' = state_
  BY <1>8 DEF CallNext, SetConnect, SetRetry, Disconnect, LookUp, Queue, Release, attempt
<1>9. ASSUME NEW a \in Actors, NEW op \in Calls, Call(a, op)
      PROVE  state_' = state_
  BY <1>9 DEF Call, attempt
<1> QED
  BY <1>5, <1>6, <1>7, <1>8, <1>9 DEF Next

\* Under the same restriction stop() is final: after it has returned no attempt to connect
\* begins until connect() is called again.
THEOREM StopHolds ==
  ASSUME OnceAndOnLoop
  PROVE  Spec => StopIsFinal
<1>1. ClientInv /\ LoneInv /\ [Next]_vars =>
        [stopped = "yes" /\ state_ # "kConnecting" => state_' # "kConnecting"]_vars
  BY StopStep
<1> QED
  BY <1>1, ClientInvariant, LoneInvariant, PTL DEF Spec, StopIsFinal
=============================================================================
