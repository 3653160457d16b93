--------------------------- MODULE AndroidSipProofs ---------------------------
(* onDestroy never waits for a running loop, the Handler sees a session from  *)
(* THREAD_STARTED to THREAD_FINISHED, and no tone outlives the service:       *)
(* proved for any application, calls, User-Agents and bounds.                 *)
(* The three are proved together.  What they rest on is how the activity      *)
(* manager's queue, the Handler's queue and the thread depend on each other,  *)
(* which is ServiceInv.                                                       *)
(* Then the service's idea of the call: it agrees with the core once every    *)
(* message is handled, because at all times it will, after the messages that  *)
(* are on their way (WillAgree of KnowsInv).                                  *)
(* Last the core under the service: it is as safe as alone, and what the      *)
(* Handler is told of the calls is what CallReports promises.                 *)
EXTENDS AndroidSip, TelephonyProofs

\* The service exists, its thread has ended, and every message was handled.
Over == svc = "up" /\ thread = "dead" /\ inbox = <<>>

\* What the activity manager is asked for, between creation and destruction.
Called == {"start", "stop", "connect"}

AndroidShape ==
    /\ \E S : inbox \in Seq(S)
    /\ amQueue \in Seq(Callback)
    /\ svc \in {"none", "up", "joining"} /\ thread \in ThreadState
    /\ amAlive \in BOOLEAN /\ amStarted \in BOOLEAN

\* Without a service nothing is under way; while it is destroyed, not even
\* another callback.
NoServiceIsQuiet ==
    /\ svc = "none" => thread = "none" /\ (~amAlive => amQueue = <<>>)
    /\ svc = "joining" => thread = "dead" /\ ~amAlive /\ amQueue = <<>>
    /\ svc # "up" => inbox = <<>> /\ ~tone

\* A service is created first and destroyed last, and only THREAD_FINISHED
\* ends its being started.
CallbacksInOrder ==
    /\ amAlive /\ ~amStarted => Over
    /\ \A i \in 1..Len(amQueue) :
         /\ amQueue[i] = "create" => i = 1 /\ svc = "none"
         /\ amQueue[i] = "destroy" => i = Len(amQueue) /\ ~amAlive /\ Over

\* Until THREAD_STARTED is sent there is no message.
QuietStart == thread \in {"none", "begin", "init", "report"} => inbox = <<>>

ServiceInv ==
    /\ AndroidShape /\ NoServiceIsQuiet /\ CallbacksInOrder
    /\ SessionBrackets /\ QuietStart

(* A sequence with one more element, whatever it is.                         *)
LEMMA AppendAny ==
    ASSUME NEW S, NEW s \in Seq(S), NEW m
    PROVE  /\ Append(s, m) \in Seq(S \cup {m})
           /\ Len(Append(s, m)) = Len(s) + 1
           /\ \A i \in 1..Len(s) : Append(s, m)[i] = s[i]
           /\ Append(s, m)[Len(s) + 1] = m
<1>1. s \in Seq(S \cup {m})
  OBVIOUS
<1>. QED BY <1>1

(* A sequence without its first element.                                     *)
LEMMA TailAny ==
    ASSUME NEW S, NEW s \in Seq(S), s # <<>>
    PROVE  /\ Tail(s) \in Seq(S)
           /\ Len(Tail(s)) = Len(s) - 1 /\ Len(s) \in Nat \ {0}
           /\ Head(s) = s[1]
           /\ \A i \in 1..Len(Tail(s)) : Tail(s)[i] = s[i + 1]
  OBVIOUS

(* A callback queue that ends with the service's destruction.                *)
LEMMA DestroyLast ==
    ASSUME NEW q \in Seq(Callback),
           \A i \in 1..Len(q) : q[i] # "create" /\ q[i] # "destroy"
    PROVE  /\ Append(q, "destroy") \in Seq(Callback)
           /\ \A i \in 1..Len(Append(q, "destroy")) :
                /\ Append(q, "destroy")[i] # "create"
                /\ Append(q, "destroy")[i] = "destroy" =>
                     i = Len(Append(q, "destroy"))
<1>1. "destroy" \in Callback
  BY DEF Callback
<1>2. /\ Append(q, "destroy") \in Seq(Callback)
      /\ Len(Append(q, "destroy")) = Len(q) + 1
      /\ \A i \in 1..Len(q) : Append(q, "destroy")[i] = q[i]
      /\ Append(q, "destroy")[Len(q) + 1] = "destroy"
  BY <1>1
<1>3. ASSUME NEW i \in 1..Len(q) + 1
      PROVE  /\ Append(q, "destroy")[i] # "create"
             /\ Append(q, "destroy")[i] = "destroy" => i = Len(q) + 1
  BY <1>2
<1>. QED BY <1>2, <1>3

(* A callback queue that begins with the service's creation.                 *)
LEMMA CreateFirst ==
    ASSUME NEW more \in Seq(Called), NEW first, first = <<"create">>
    PROVE  /\ first \o more \in Seq(Callback)
           /\ \A i \in 1..Len(first \o more) :
                /\ (first \o more)[i] # "destroy"
                /\ (first \o more)[i] = "create" => i = 1
<1>1. first \in Seq(Callback) /\ Len(first) = 1 /\ first[1] = "create"
  BY DEF Callback
<1>2. more \in Seq(Callback) /\ Len(more) \in Nat
  BY DEF Callback, Called
<1>3. \A i \in 1..Len(more) : more[i] # "create" /\ more[i] # "destroy"
  BY DEF Called
<1>4. /\ first \o more \in Seq(Callback)
      /\ Len(first \o more) = 1 + Len(more)
      /\ \A i \in 1..1 + Len(more) :
           (first \o more)[i] = IF i <= 1 THEN first[i] ELSE more[i - 1]
  BY <1>1, <1>2, ConcatProperties
<1>5. ASSUME NEW i \in 1..1 + Len(more)
      PROVE  /\ (first \o more)[i] # "destroy"
             /\ (first \o more)[i] = "create" => i = 1
  <2>1. CASE i = 1
    BY <2>1, <1>1, <1>4
  <2>2. CASE i > 1
    <3>1. i - 1 \in 1..Len(more) /\ (first \o more)[i] = more[i - 1]
      BY <2>2, <1>2, <1>4
    <3>. QED BY <3>1, <1>3
  <2>. QED BY <2>1, <2>2
<1>6. \A i \in 1..Len(first \o more) :
         /\ (first \o more)[i] # "destroy"
         /\ (first \o more)[i] = "create" => i = 1
  BY <1>4, <1>5
<1>. QED BY <1>4, <1>6

(* The core hands over call events only, one at a time.                      *)
LEMMA CoreInbox ==
    ASSUME MainLoop \/ LoopFails \/ HandleCommand \/ Network \/ TelDone_FreeQueue
           \/ TelDone_ResetQueue \/ TelDone_StopAll
    PROVE  \/ inbox' = inbox
           \/ \E m : m.ev \in Event /\ inbox' = Append(inbox, m)
<1>1. ASSUME NEW ev \in Event, NEW c, NEW code, EventListener(ev, c, code)
      PROVE  \E m : m.ev \in Event /\ inbox' = Append(inbox, m)
  <2>1. Notification(ev, c, code).ev = ev
    BY DEF Notification
  <2>. QED BY <1>1, <2>1 DEF EventListener
<1>2. CASE MainLoop \/ LoopFails \/ TelDone_FreeQueue \/ TelDone_ResetQueue \/ TelDone_StopAll
  BY <1>2 DEF MainLoop, LoopFails, TelDone_FreeQueue, TelDone_ResetQueue, TelDone_StopAll
<1>3. CASE HandleCommand
  BY <1>3, <1>1
  DEF HandleCommand, AudioCall_Connect, AudioCall_NoUa, AudioCall_Fails,
      Hangup_Close, Hangup_NoCall, Hangup_Dangling, Stop, Event
<1>4. CASE Network
  <2>1. ASSUME NEW c \in Call, Progress(c) \/ Established(c)
        PROVE  inbox' = inbox \/ \E m : m.ev \in Event /\ inbox' = Append(inbox, m)
    BY <2>1, <1>1 DEF Progress, Established, Event
  <2>2. ASSUME NEW c \in Call, NEW code \in Code, CallCloses(c, code)
        PROVE  \E m : m.ev \in Event /\ inbox' = Append(inbox, m)
    BY <2>2, <1>1 DEF CallCloses, Event
  <2>3. ASSUME NEW u \in Ua, NEW c \in Call, Incoming(u, c)
        PROVE  inbox' = inbox \/ \E m : m.ev \in Event /\ inbox' = Append(inbox, m)
    BY <2>3, <1>1 DEF Incoming, Event
  <2>4. ASSUME NEW u \in Ua, RegisterFails(u)
        PROVE  \E m : m.ev \in Event /\ inbox' = Append(inbox, m)
    BY <2>4, <1>1 DEF RegisterFails, Event
  <2>. QED BY <1>4, <2>1, <2>2, <2>3, <2>4 DEF Network
<1>. QED BY <1>2, <1>3, <1>4

-----------------------------------------------------------------------------
(* Before the first start there is no service.                               *)
LEMMA ServiceInit == AInit => ServiceInv
<1> SUFFICES ASSUME AInit PROVE ServiceInv
  OBVIOUS
<1>1. inbox = <<>> /\ amQueue = <<>> /\ Len(<<>>) = 0
  BY DEF AInit, Init
<1>2. <<>> \in Seq({}) /\ <<>> \in Seq(Callback)
  OBVIOUS
<1>3. AndroidShape
  BY <1>1, <1>2 DEF AInit, AndroidShape, ThreadState
<1>4. \A i \in 1..0 : FALSE
  OBVIOUS
<1>5. SessionBrackets /\ CallbacksInOrder
  BY <1>1, <1>4 DEF AInit, SessionBrackets, CallbacksInOrder
<1>. QED BY <1>1, <1>3, <1>5 DEF AInit, ServiceInv, NoServiceIsQuiet, QuietStart

(* A message the thread sends: the service is up, and nothing but the thread  *)
(* has changed.                                                              *)
LEMMA SendKeeps ==
    ASSUME ServiceInv, thread \in {"report", "main", "finish"},
           thread' \in {"main", "finish", "dead"},
           UNCHANGED <<svcVars, amVars>>,
           NEW m, inbox' = Append(inbox, m),
           m.ev = "THREAD_STARTED" => thread = "report",
           m.ev = "THREAD_FINISHED" <=> thread' = "dead"
    PROVE  ServiceInv'
<1>. USE DEF svcVars, amVars
<1>1. svc = "up" /\ (thread = "report" => inbox = <<>>)
  BY DEF ServiceInv, AndroidShape, NoServiceIsQuiet, QuietStart
<1>2. PICK S : inbox \in Seq(S)
  BY DEF ServiceInv, AndroidShape
<1>3. /\ inbox' \in Seq(S \cup {m})
      /\ Len(inbox') = Len(inbox) + 1 /\ Len(inbox) \in Nat
      /\ \A i \in 1..Len(inbox) : inbox'[i] = inbox[i]
      /\ inbox'[Len(inbox) + 1] = m
  BY <1>2, AppendAny
<1>4. AndroidShape'
  BY <1>3 DEF ServiceInv, AndroidShape, ThreadState
<1>5. NoServiceIsQuiet' /\ QuietStart'
  BY <1>1 DEF NoServiceIsQuiet, QuietStart
<1>6. CallbacksInOrder'
  BY DEF ServiceInv, CallbacksInOrder, Over
<1>7. SessionBrackets'
  <2> SUFFICES ASSUME NEW i \in 1..Len(inbox')
               PROVE  /\ inbox'[i].ev = "THREAD_STARTED" => i = 1
                      /\ inbox'[i].ev = "THREAD_FINISHED" =>
                           i = Len(inbox') /\ thread' = "dead"
    BY DEF SessionBrackets
  <2>1. CASE i \in 1..Len(inbox)
    <3>1. inbox[i].ev # "THREAD_FINISHED"
      BY <2>1 DEF ServiceInv, SessionBrackets
    <3>. QED BY <2>1, <3>1, <1>3 DEF ServiceInv, SessionBrackets
  <2>2. CASE i = Len(inbox) + 1
    <3>1. thread = "report" => Len(inbox) = 0
      BY <1>1
    <3>. QED BY <2>2, <3>1, <1>3
  <2>. QED BY <2>1, <2>2, <1>3
<1>. QED BY <1>4, <1>5, <1>6, <1>7 DEF ServiceInv

(* The Handler of a service takes a message; THREAD_FINISHED is the last.     *)
LEMMA TakeLast ==
    ASSUME ServiceInv, Take
    PROVE  /\ svc = "up"
           /\ Head(inbox).ev = "THREAD_FINISHED" => thread = "dead" /\ inbox' = <<>>
<1>1. svc = "up"
  BY DEF ServiceInv, NoServiceIsQuiet, Take
<1>2. PICK S : inbox \in Seq(S)
  BY DEF ServiceInv, AndroidShape
<1>3. /\ inbox' \in Seq(S)
      /\ Len(inbox') = Len(inbox) - 1 /\ Len(inbox) \in Nat \ {0}
      /\ Head(inbox) = inbox[1]
  BY <1>2, TailAny DEF Take
<1>4. Head(inbox).ev = "THREAD_FINISHED" => 1 = Len(inbox) /\ thread = "dead"
  BY <1>3 DEF ServiceInv, SessionBrackets
<1>5. Len(inbox') = 0 => inbox' = <<>>
  BY <1>3
<1>. QED BY <1>1, <1>3, <1>4, <1>5

(* The Handler takes a message; nothing of the service is destroyed by it.   *)
LEMMA TakeKeeps ==
    ASSUME ServiceInv, Take, UNCHANGED <<thread, svc, amVars>>, tone' => svc = "up"
    PROVE  ServiceInv'
<1>. USE DEF amVars
<1>1. svc = "up"
  BY TakeLast
<1>2. PICK S : inbox \in Seq(S)
  BY DEF ServiceInv, AndroidShape
<1>3. /\ inbox' \in Seq(S)
      /\ Len(inbox') = Len(inbox) - 1 /\ Len(inbox) \in Nat \ {0}
      /\ Head(inbox) = inbox[1]
      /\ \A i \in 1..Len(inbox') : inbox'[i] = inbox[i + 1]
  BY <1>2, TailAny DEF Take
<1>4. AndroidShape'
  BY <1>3 DEF ServiceInv, AndroidShape
<1>5. NoServiceIsQuiet' /\ QuietStart'
  BY <1>1 DEF ServiceInv, NoServiceIsQuiet, QuietStart, Take
<1>6. CallbacksInOrder'
  BY DEF ServiceInv, CallbacksInOrder, Over, Take
<1>7. SessionBrackets'
  <2> SUFFICES ASSUME NEW i \in 1..Len(inbox')
               PROVE  /\ inbox'[i].ev = "THREAD_STARTED" => i = 1
                      /\ inbox'[i].ev = "THREAD_FINISHED" =>
                           i = Len(inbox') /\ thread' = "dead"
    BY DEF SessionBrackets
  <2>1. i + 1 \in 1..Len(inbox) /\ inbox'[i] = inbox[i + 1]
    BY <1>3
  <2>. QED BY <2>1, <1>3 DEF ServiceInv, SessionBrackets
<1>. QED BY <1>4, <1>5, <1>6, <1>7 DEF ServiceInv

(* A callback is delivered that neither creates nor destroys the service.    *)
LEMMA DeliverKeeps ==
    ASSUME ServiceInv, NEW callback \in {"start", "stop", "connect"},
           Deliver(callback), UNCHANGED <<thread, svc, inbox>>, tone' => tone
    PROVE  ServiceInv'
<1>1. /\ amQueue' \in Seq(Callback)
      /\ Len(amQueue') = Len(amQueue) - 1 /\ Len(amQueue) \in Nat \ {0}
      /\ \A i \in 1..Len(amQueue') : amQueue'[i] = amQueue[i + 1]
      /\ UNCHANGED <<amAlive, amStarted>>
  BY TailAny DEF Deliver, ServiceInv, AndroidShape
<1>2. AndroidShape' /\ QuietStart' /\ SessionBrackets'
  BY <1>1 DEF ServiceInv, AndroidShape, QuietStart, SessionBrackets
<1>3. NoServiceIsQuiet'
  BY <1>1 DEF ServiceInv, NoServiceIsQuiet, Deliver
<1>4. CallbacksInOrder'
  <2>1. \A i \in 1..Len(amQueue') : i + 1 \in 1..Len(amQueue) /\ i + 1 # 1
    BY <1>1
  <2>. QED BY <1>1, <2>1 DEF ServiceInv, CallbacksInOrder, Over
<1>. QED BY <1>2, <1>3, <1>4 DEF ServiceInv

(* Started or stopped by the application, a service that is gone is created  *)
(* first; one that is to be destroyed is not called any more.                *)
LEMMA StartKeeps ==
    ASSUME ServiceInv, amAlive \/ svc = "none",
           NEW more \in Seq(Called),
           amQueue' = amQueue \o (IF amAlive THEN <<>> ELSE <<"create">>) \o more,
           amAlive' = TRUE, amStarted' = TRUE,
           UNCHANGED <<thread, svcVars, inbox>>
    PROVE  ServiceInv'
<1>. USE DEF svcVars
<1>1. amQueue \in Seq(Callback) /\ more \in Seq(Callback)
  BY DEF ServiceInv, AndroidShape, Callback, Called
<1>2. \A i \in 1..Len(more) : more[i] \notin {"create", "destroy"}
  BY DEF Called
<1>3. NoServiceIsQuiet'
  BY DEF ServiceInv, NoServiceIsQuiet
<1>4. QuietStart' /\ SessionBrackets'
  BY DEF ServiceInv, QuietStart, SessionBrackets
<1>5. CASE amAlive
  <2>1. amQueue' = amQueue \o more
    BY <1>5, <1>1
  <2>2. amQueue' \in Seq(Callback)
        /\ Len(amQueue) \in Nat /\ Len(more) \in Nat
        /\ Len(amQueue') = Len(amQueue) + Len(more)
        /\ \A i \in 1..Len(amQueue') :
             amQueue'[i] = IF i <= Len(amQueue) THEN amQueue[i]
                           ELSE more[i - Len(amQueue)]
    BY <2>1, <1>1
  <2>3. \A i \in 1..Len(amQueue) : amQueue[i] # "destroy"
    BY <1>5 DEF ServiceInv, CallbacksInOrder
  <2>4. ASSUME NEW i \in 1..Len(amQueue')
        PROVE  /\ amQueue'[i] # "destroy"
               /\ amQueue'[i] = "create" => i = 1 /\ svc' = "none"
    <3>1. CASE i <= Len(amQueue)
      <4>1. i \in 1..Len(amQueue) /\ amQueue'[i] = amQueue[i]
        BY <3>1, <2>2
      <4>. QED BY <4>1, <2>3 DEF ServiceInv, CallbacksInOrder
    <3>2. CASE ~(i <= Len(amQueue))
      <4>1. /\ i - Len(amQueue) \in 1..Len(more)
            /\ amQueue'[i] = more[i - Len(amQueue)]
        BY <3>2, <2>2
      <4>. QED BY <4>1, <1>2
    <3>. QED BY <3>1, <3>2
  <2>5. CallbacksInOrder'
    BY <2>4 DEF CallbacksInOrder
  <2>. QED BY <2>2, <2>5, <1>3, <1>4 DEF ServiceInv, AndroidShape
<1>6. CASE ~amAlive
  <2>1. amQueue = <<>> /\ svc = "none"
    BY <1>6 DEF ServiceInv, NoServiceIsQuiet
  <2>2. amQueue' = <<"create">> \o more
    BY <1>6, <2>1, <1>1
  <2>3. /\ amQueue' \in Seq(Callback)
        /\ \A i \in 1..Len(amQueue') :
             amQueue'[i] # "destroy" /\ (amQueue'[i] = "create" => i = 1)
    BY <2>2, CreateFirst, Zenon
  <2>5. CallbacksInOrder'
    BY <2>1, <2>3 DEF CallbacksInOrder
  <2>. QED BY <2>3, <2>5, <1>3, <1>4 DEF ServiceInv, AndroidShape
<1>. QED BY <1>5, <1>6

(* The activity manager destroys a service only when it is over: started is   *)
(* what becomes of amStarted.                                                *)
LEMMA DestroyKeeps ==
    ASSUME AndroidShape, CallbacksInOrder, NEW started \in BOOLEAN,
           amAlive /\ ~started => Over',
           UNCHANGED svc,
           amStarted' = started, AmDestroyIfUnused(amQueue),
           \A i \in 1..Len(amQueue) : amQueue[i] # "destroy" \/ Over'
    PROVE  /\ CallbacksInOrder'
           /\ amQueue' \in Seq(Callback) /\ amAlive' \in BOOLEAN
           /\ svc = "none" => UNCHANGED <<amAlive, amQueue>>
           /\ ~amAlive => UNCHANGED <<amAlive, amQueue>>
<1>1. amQueue \in Seq(Callback) /\ amAlive \in BOOLEAN /\ Len(amQueue) \in Nat
  BY DEF AndroidShape
<1>2. CASE amAlive /\ ~started /\ ~amBound'
  <2>1. amAlive' = FALSE /\ amQueue' = Append(amQueue, "destroy") /\ svc = "up"
    BY <1>2 DEF AmDestroyIfUnused, Over
  <2>2. \A i \in 1..Len(amQueue) : amQueue[i] # "create" /\ amQueue[i] # "destroy"
    BY <1>2, <2>1 DEF CallbacksInOrder
  <2>3. /\ amQueue' \in Seq(Callback)
        /\ \A i \in 1..Len(amQueue') :
             /\ amQueue'[i] # "create"
             /\ amQueue'[i] = "destroy" => i = Len(amQueue')
    BY <1>1, <2>1, <2>2, DestroyLast, Zenon
  <2>. QED BY <2>1, <2>3, <1>2 DEF CallbacksInOrder
<1>3. CASE ~(amAlive /\ ~started /\ ~amBound')
  <2>1. UNCHANGED <<amAlive, amQueue>>
    BY <1>3 DEF AmDestroyIfUnused
  <2>. QED BY <2>1, <1>1 DEF CallbacksInOrder
<1>. QED BY <1>2, <1>3

-----------------------------------------------------------------------------
(* A step that leaves the Handler's queue, the service and its callbacks      *)
(* alone: the thread may go on, as long as it neither reports nor ends.       *)
LEMMA ThreadKeeps ==
    ASSUME ServiceInv, UNCHANGED <<svcVars, amVars, inbox>>,
           \/ UNCHANGED thread
           \/ /\ thread \in {"begin", "init"} /\ thread' \in {"init", "report"}
           \/ thread = "main" /\ thread' = "finish"
    PROVE  ServiceInv'
<1>. USE DEF svcVars, amVars
<1>1. CASE UNCHANGED thread
  BY <1>1 DEF ServiceInv, AndroidShape, NoServiceIsQuiet, CallbacksInOrder, Over,
              SessionBrackets, QuietStart
<1>2. CASE \/ thread \in {"begin", "init"} /\ thread' \in {"init", "report"}
           \/ thread = "main" /\ thread' = "finish"
  <2>1. AndroidShape' /\ QuietStart' /\ CallbacksInOrder'
    BY <1>2 DEF ServiceInv, AndroidShape, ThreadState, QuietStart,
                CallbacksInOrder, Over
  <2>2. NoServiceIsQuiet'
    BY <1>2 DEF ServiceInv, NoServiceIsQuiet
  <2>3. SessionBrackets'
    BY <1>2 DEF ServiceInv, SessionBrackets
  <2>. QED BY <2>1, <2>2, <2>3 DEF ServiceInv
<1>. QED BY <1>1, <1>2

(* The SIP thread.                                                           *)
LEMMA ThreadStep == ServiceInv /\ ThreadNext => ServiceInv'
<1> SUFFICES ASSUME ServiceInv, ThreadNext PROVE ServiceInv'
  OBVIOUS
<1>1. CASE Thread_EnterInit
  BY <1>1, ThreadKeeps DEF Thread_EnterInit, EnterInit
<1>2. CASE Thread_InitReturns
  BY <1>2, ThreadKeeps DEF Thread_InitReturns, InitDone, InitFails
<1>3. CASE Thread_Report
  <2>1. PICK code : inbox' = Append(inbox, ThreadNote("THREAD_STARTED", code))
    BY <1>3 DEF Thread_Report
  <2>2. ThreadNote("THREAD_STARTED", code).ev = "THREAD_STARTED"
    BY DEF ThreadNote
  <2>3. /\ thread = "report" /\ thread' \in {"main", "finish"}
        /\ UNCHANGED <<svcVars, amVars>>
    BY <1>3 DEF Thread_Report
  <2>. QED BY <2>1, <2>2, <2>3, SendKeeps
<1>4. CASE Thread_MainLoop
  <2>1. /\ thread = "main" /\ UNCHANGED <<svcVars, amVars>>
        /\ thread' \in {"main", "finish"}
    BY <1>4 DEF Thread_MainLoop
  <2>2. \/ inbox' = inbox
        \/ \E m : m.ev \in Event /\ inbox' = Append(inbox, m)
    BY <1>4, CoreInbox DEF Thread_MainLoop
  <2>3. CASE inbox' = inbox
    BY <2>1, <2>3, ThreadKeeps
  <2>4. CASE \E m : m.ev \in Event /\ inbox' = Append(inbox, m)
    <3>1. PICK m : m.ev \in Event /\ inbox' = Append(inbox, m)
      BY <2>4
    <3>2. m.ev # "THREAD_STARTED" /\ m.ev # "THREAD_FINISHED"
      BY <3>1 DEF Event
    <3>. QED BY <2>1, <3>1, <3>2, SendKeeps
  <2>. QED BY <2>2, <2>3, <2>4
<1>5. CASE Thread_Finish
  <2>1. ThreadNote("THREAD_FINISHED", 0).ev = "THREAD_FINISHED"
    BY DEF ThreadNote
  <2>2. /\ inbox' = Append(inbox, ThreadNote("THREAD_FINISHED", 0))
        /\ thread = "finish" /\ thread' = "dead" /\ UNCHANGED <<svcVars, amVars>>
    BY <1>5 DEF Thread_Finish
  <2>. QED BY <2>1, <2>2, SendKeeps
<1>. QED BY <1>1, <1>2, <1>3, <1>4, <1>5 DEF ThreadNext

(* telephony_cmd, as the engine and the service call it, changes nothing of  *)
(* the service.                                                              *)
LEMMA LoadKeepsInbox ==
    ASSUME NEW command, Command_Load(command)
    PROVE  UNCHANGED inbox
  BY DEF Command_Load

(* The engine's methods.                                                     *)
LEMMA EngineStep == ServiceInv /\ EngineNext => ServiceInv'
<1> SUFFICES ASSUME ServiceInv, EngineNext PROVE ServiceInv'
  OBVIOUS
<1>1. CASE Engine_Start
  <2>1. PICK create, start, connect :
             /\ create = IF amAlive THEN <<>> ELSE <<"create">>
             /\ start = <<"start">>
             /\ connect = IF amBound THEN <<>> ELSE <<"connect">>
    OBVIOUS
  <2>2. start \in Seq(Called) /\ connect \in Seq(Called)
    <3>1. /\ <<>> \in Seq(Called) /\ <<"start">> \in Seq(Called)
          /\ <<"connect">> \in Seq(Called)
      BY DEF Called
    <3>. QED BY <3>1, <2>1, Zenon
  <2>3. amQueue' = amQueue \o create \o (start \o connect)
    <3>1. amQueue' = amQueue \o create \o start \o connect
      BY <1>1, <2>1, Zenon DEF Engine_Start
    <3>2. <<>> \in Seq(Callback) /\ <<"create">> \in Seq(Callback)
      BY DEF Callback
    <3>3. create \in Seq(Callback)
      BY <3>2, <2>1, Zenon
    <3>4. /\ amQueue \in Seq(Callback)
          /\ start \in Seq(Callback) /\ connect \in Seq(Callback)
      BY <2>2 DEF ServiceInv, AndroidShape, Callback, Called
    <3>5. amQueue \o create \in Seq(Callback)
      BY <3>3, <3>4
    <3>6. ASSUME NEW q \in Seq(Callback), NEW t \in Seq(Callback),
                 NEW u \in Seq(Callback)
          PROVE  (q \o t) \o u = q \o (t \o u)
      BY ConcatAssociative
    <3>7. (amQueue \o create \o start) \o connect
            = amQueue \o create \o (start \o connect)
      BY <3>4, <3>5, <3>6, Zenon
    <3>. QED BY <3>1, <3>7, Zenon
  <2>4. /\ amAlive \/ svc = "none"
        /\ amAlive' = TRUE /\ amStarted' = TRUE
        /\ UNCHANGED <<thread, svcVars, inbox>>
    BY <1>1 DEF Engine_Start, CanCreate, vars
  <2>5. start \o connect \in Seq(Called)
    BY <2>2
  <2>. QED BY <2>1, <2>3, <2>4, <2>5, StartKeeps
<1>2. CASE Engine_Shutdown
  <2>1. /\ UNCHANGED <<thread, svcVars, inbox, amStarted>>
        /\ AmDestroyIfUnused(amQueue)
    BY <1>2 DEF Engine_Shutdown, vars
  <2>2. Over' <=> Over
    BY <2>1 DEF Over, svcVars
  <2>3. /\ CallbacksInOrder' /\ amQueue' \in Seq(Callback) /\ amAlive' \in BOOLEAN
        /\ ~amAlive => UNCHANGED <<amAlive, amQueue>>
        /\ svc = "none" => UNCHANGED <<amAlive, amQueue>>
    <3>1. AndroidShape /\ CallbacksInOrder /\ amStarted \in BOOLEAN /\ svc' = svc
      BY <2>1 DEF ServiceInv, AndroidShape, svcVars
    <3>2. /\ amAlive /\ ~amStarted => Over'
          /\ \A i \in 1..Len(amQueue) : amQueue[i] # "destroy" \/ Over'
      BY <2>2, <3>1 DEF CallbacksInOrder
    <3>. QED BY <2>1, <3>1, <3>2, DestroyKeeps
  <2>4. AndroidShape' /\ NoServiceIsQuiet'
    BY <2>1, <2>3 DEF ServiceInv, AndroidShape, NoServiceIsQuiet, svcVars
  <2>. QED BY <2>1, <2>3, <2>4 DEF ServiceInv, SessionBrackets, QuietStart, svcVars
<1>3. CASE Engine_PlaceCall
  BY <1>3, LoadKeepsInbox, ThreadKeeps DEF Engine_PlaceCall, androidVars
<1>4. CASE Engine_Hangup
  <2>1. UNCHANGED <<thread, svc, amVars, inbox>> /\ tone' = FALSE
    BY <1>4, LoadKeepsInbox DEF Engine_Hangup
  <2>. QED BY <2>1
       DEF ServiceInv, AndroidShape, NoServiceIsQuiet, CallbacksInOrder, Over,
           SessionBrackets, QuietStart, amVars
<1>5. CASE Engine_StopService
  <2> DEFINE more == <<"stop">>
  <2>1. more \in Seq(Called)
    BY DEF Called
  <2>2. amQueue' = amQueue \o (IF amAlive THEN <<>> ELSE <<"create">>) \o more
    BY <1>5 DEF Engine_StopService, AmStart
  <2>3. /\ amAlive \/ svc = "none"
        /\ amAlive' = TRUE /\ amStarted' = TRUE
        /\ UNCHANGED <<thread, svcVars, inbox>>
    BY <1>5 DEF Engine_StopService, AmStart, CanCreate, vars
  <2> HIDE DEF more
  <2>. QED BY <2>1, <2>2, <2>3, StartKeeps
<1>. QED BY <1>1, <1>2, <1>3, <1>4, <1>5 DEF EngineNext

(* The service's callbacks.                                                  *)
LEMMA ServiceStep == ServiceInv /\ ServiceNext => ServiceInv'
<1> SUFFICES ASSUME ServiceInv, ServiceNext PROVE ServiceInv'
  OBVIOUS
<1>1. ASSUME NEW callback, Deliver(callback)
      PROVE  /\ amQueue' \in Seq(Callback)
             /\ Len(amQueue') = Len(amQueue) - 1 /\ Len(amQueue) \in Nat \ {0}
             /\ amQueue[1] = callback
             /\ \A i \in 1..Len(amQueue') : amQueue'[i] = amQueue[i + 1]
             /\ UNCHANGED <<amAlive, amStarted>>
  BY <1>1, TailAny DEF Deliver, ServiceInv, AndroidShape
<1>2. CASE Service_OnCreate
  <2>1. Deliver("create") /\ svc' = "up" /\ thread' = "begin" /\ UNCHANGED inbox
    BY <1>2 DEF Service_OnCreate, vars
  <2>2. svc = "none"
    BY <1>1, <2>1 DEF ServiceInv, CallbacksInOrder
  <2>3. inbox = <<>>
    BY <2>2 DEF ServiceInv, NoServiceIsQuiet
  <2>4. AndroidShape' /\ NoServiceIsQuiet' /\ QuietStart'
    BY <1>1, <2>1, <2>3
    DEF ServiceInv, AndroidShape, NoServiceIsQuiet, QuietStart, ThreadState
  <2>5. CallbacksInOrder'
    <3>1. \A i \in 1..Len(amQueue') : i + 1 \in 1..Len(amQueue) /\ i + 1 # 1
      BY <1>1, <2>1
    <3>2. \A i \in 1..Len(amQueue) : amQueue[i] # "destroy"
      BY <2>2 DEF ServiceInv, CallbacksInOrder, Over
    <3>3. \A i \in 1..Len(amQueue') :
            amQueue'[i] # "create" /\ amQueue'[i] # "destroy"
      BY <1>1, <2>1, <3>1, <3>2 DEF ServiceInv, CallbacksInOrder
    <3>. QED BY <1>1, <2>1, <2>2, <3>3 DEF ServiceInv, CallbacksInOrder, Over
  <2>6. SessionBrackets'
    BY <2>1, <2>3 DEF SessionBrackets
  <2>. QED BY <2>4, <2>5, <2>6 DEF ServiceInv
<1>3. CASE Service_OnStart
  BY <1>3, DeliverKeeps DEF Service_OnStart, svcVars, vars
<1>4. CASE Service_OnStop
  <2>1. UNCHANGED inbox
    BY <1>4, LoadKeepsInbox DEF Service_OnStop
  <2>. QED BY <1>4, <2>1, DeliverKeeps DEF Service_OnStop
<1>5. CASE Service_OnConnected
  BY <1>5, DeliverKeeps DEF Service_OnConnected, svcVars, vars
<1>6. CASE Service_OnDestroy
  <2>1. /\ Deliver("destroy") /\ svc' = "joining" /\ tone' = FALSE
        /\ UNCHANGED <<thread, inbox>>
    BY <1>6 DEF Service_OnDestroy, vars
  <2>2. 1 = Len(amQueue) /\ ~amAlive /\ thread = "dead" /\ inbox = <<>>
    <3>1. 1 \in 1..Len(amQueue) /\ amQueue[1] = "destroy"
      BY <1>1, <2>1
    <3>. QED BY <3>1 DEF ServiceInv, CallbacksInOrder, Over
  <2>3. /\ amQueue' = <<>> /\ Len(amQueue') = 0 /\ amQueue' \in Seq(Callback)
        /\ ~amAlive' /\ UNCHANGED <<amAlive, amStarted>>
    <3>1. /\ amQueue' \in Seq(Callback) /\ Len(amQueue') = 0
          /\ UNCHANGED <<amAlive, amStarted>>
      BY <1>1, <2>1, <2>2
    <3>2. amQueue' = <<>>
      BY <3>1
    <3>. QED BY <2>2, <3>1, <3>2
  <2>4. AndroidShape'
    BY <2>1, <2>2, <2>3 DEF ServiceInv, AndroidShape
  <2>5. NoServiceIsQuiet' /\ QuietStart'
    BY <2>1, <2>2, <2>3 DEF NoServiceIsQuiet, QuietStart
  <2>6. SessionBrackets' /\ CallbacksInOrder'
    BY <2>1, <2>2, <2>3 DEF SessionBrackets, CallbacksInOrder
  <2>. QED BY <2>4, <2>5, <2>6 DEF ServiceInv
<1>7. CASE Service_Joined
  <2>1. /\ svc = "joining" /\ svc' = "none" /\ thread' = "none"
        /\ UNCHANGED <<inbox, tone, amVars>>
    BY <1>7 DEF Service_Joined, vars
  <2>2. /\ ~amAlive /\ amQueue = <<>> /\ Len(amQueue) = 0
        /\ inbox = <<>> /\ Len(inbox) = 0 /\ ~tone
    BY <2>1 DEF ServiceInv, NoServiceIsQuiet
  <2>3. AndroidShape' /\ NoServiceIsQuiet' /\ QuietStart'
    BY <2>1, <2>2
    DEF ServiceInv, AndroidShape, NoServiceIsQuiet, QuietStart, ThreadState, amVars
  <2>4. SessionBrackets' /\ CallbacksInOrder'
    BY <2>1, <2>2 DEF SessionBrackets, CallbacksInOrder, amVars
  <2>. QED BY <2>3, <2>4 DEF ServiceInv
<1>. QED BY <1>2, <1>3, <1>4, <1>5, <1>6, <1>7 DEF ServiceNext

(* handleMessage.  Only THREAD_FINISHED reaches the activity manager.        *)
LEMMA HandlerStep == ServiceInv /\ HandlerNext => ServiceInv'
<1> SUFFICES ASSUME ServiceInv, HandlerNext PROVE ServiceInv'
  OBVIOUS
<1>1. Take
  BY DEF HandlerNext, Handle_Started, Handle_Finished, Handle_RegisterFail,
         Handle_Ringing, Handle_Established, Handle_Closed, TakeMessage
<1>2. svc = "up"
  BY <1>1, TakeLast
<1>3. CASE Handle_Finished
  <2>1. /\ Head(inbox).ev = "THREAD_FINISHED" /\ amStarted' = FALSE
        /\ AmDestroyIfUnused(amQueue) /\ UNCHANGED <<thread, svc, tone>>
    BY <1>3 DEF Handle_Finished, TakeMessage, svcVars
  <2>2. thread = "dead" /\ inbox' = <<>>
    BY <1>1, <2>1, TakeLast
  <2>3. Over'
    BY <1>2, <2>1, <2>2 DEF Over
  <2>4. CallbacksInOrder' /\ amQueue' \in Seq(Callback) /\ amAlive' \in BOOLEAN
    <3>1. AndroidShape /\ CallbacksInOrder /\ svc' = svc /\ FALSE \in BOOLEAN
      BY <2>1 DEF ServiceInv
    <3>2. \A i \in 1..Len(amQueue) : amQueue[i] # "destroy" \/ Over'
      BY <2>3
    <3>. QED BY <2>1, <2>3, <3>1, <3>2, DestroyKeeps
  <2>5. <<>> \in Seq({}) /\ Len(<<>>) = 0
    OBVIOUS
  <2>6. AndroidShape'
    BY <2>1, <2>2, <2>4, <2>5 DEF ServiceInv, AndroidShape
  <2>7. NoServiceIsQuiet' /\ QuietStart'
    BY <1>2, <2>1, <2>2 DEF NoServiceIsQuiet, QuietStart
  <2>8. SessionBrackets'
    BY <2>2, <2>5 DEF SessionBrackets
  <2>. QED BY <2>4, <2>6, <2>7, <2>8 DEF ServiceInv
<1>4. CASE HandlerNext /\ ~Handle_Finished
  <2>1. UNCHANGED <<thread, svc, amVars>>
    BY <1>4 DEF HandlerNext, Handle_Started, Handle_RegisterFail, Handle_Ringing,
                Handle_Established, Handle_Closed, svcVars
  <2>. QED BY <1>1, <1>2, <2>1, TakeKeeps
<1>. QED BY <1>3, <1>4

(* Every step, and none at all.                                              *)
LEMMA ServiceKept == ServiceInv /\ [ANext]_allVars => ServiceInv'
<1> SUFFICES ASSUME ServiceInv, [ANext]_allVars PROVE ServiceInv'
  OBVIOUS
<1>1. CASE Main_FinishPush
  <2>1. UNCHANGED inbox
    BY <1>1 DEF Main_FinishPush, FinishPush, Command_Null, Command_Write,
           Command_Dangling
  <2>. QED BY <1>1, <2>1, ThreadKeeps DEF Main_FinishPush, androidVars
<1>2. CASE UNCHANGED allVars
  BY <1>2, ThreadKeeps DEF allVars, vars, androidVars
<1>. QED BY <1>1, <1>2, ThreadStep, EngineStep, ServiceStep, HandlerStep DEF ANext

\* The three parts hold in every state.
LEMMA ServiceAlways == ASpec => []ServiceInv
<1>. QED BY ServiceInit, ServiceKept, PTL DEF ASpec

-----------------------------------------------------------------------------
(* onDestroy blocks the main thread only for a thread that has ended: the     *)
(* service is destroyed after THREAD_FINISHED has been handled, however the   *)
(* application starts, stops and unbinds it.                                 *)
THEOREM JoinNeverWaits == ASpec => []JoinIsShort
<1>1. ServiceInv => JoinIsShort
  BY DEF ServiceInv, NoServiceIsQuiet, JoinIsShort
<1>. QED BY <1>1, ServiceAlways, PTL

(* The Handler's queue never holds an event before THREAD_STARTED or after    *)
(* THREAD_FINISHED of its session.                                           *)
THEOREM SessionsBracketed == ASpec => []SessionBrackets
<1>1. ServiceInv => SessionBrackets
  BY DEF ServiceInv
<1>. QED BY <1>1, ServiceAlways, PTL

(* A ringback tone is played only while the service exists.                  *)
THEOREM NoToneWithoutService == ASpec => []ToneNeedsService
<1>1. ServiceInv => ToneNeedsService
  BY DEF ServiceInv, NoServiceIsQuiet, ToneNeedsService
<1>. QED BY <1>1, ServiceAlways, PTL

-----------------------------------------------------------------------------
\* What a flag of the service will be once the messages of the box are handled:
\* a message of "all" changes it, and one that says "on" sets it.
After(flag, on, all, box) ==
    \/ flag /\ \A i \in 1..Len(box) : box[i].ev \notin all
    \/ \E i \in 1..Len(box) : /\ box[i].ev = on
                              /\ \A j \in 1..Len(box) : j > i => box[j].ev \notin all

CallEnds == {"ESTABLISHED", "CLOSED"}
ToneEnds == {"RINGING", "ESTABLISHED", "CLOSED"}
UpAfter == After(callUp, "ESTABLISHED", CallEnds, inbox)
ToneAfter == After(tone, "RINGING", ToneEnds, inbox)

\* One more message decides, if it is one of those that change the flag.
LEMMA AfterAppend ==
    ASSUME NEW S, NEW box \in Seq(S), NEW m, NEW flag, NEW all, NEW on \in all
    PROVE  After(flag, on, all, Append(box, m)) <=>
              IF m.ev \in all THEN m.ev = on ELSE After(flag, on, all, box)
<1> DEFINE n == Len(box)
<1> DEFINE new == Append(box, m)
<1>1. /\ Len(new) = n + 1 /\ n \in Nat /\ new[n + 1] = m
      /\ \A i \in 1..n : new[i] = box[i]
  BY AppendAny
<1>2. n + 1 \in 1..Len(new) /\ \A i \in 1..Len(new) : i \in 1..n \/ i = n + 1
  BY <1>1
<1> HIDE DEF new
<1>3. CASE m.ev \in all
  <2>1. ASSUME m.ev = on PROVE After(flag, on, all, new)
    <3>1. \A j \in 1..Len(new) : ~(j > n + 1)
      BY <1>1
    <3>. QED BY <1>1, <1>2, <2>1, <3>1 DEF After
  <2>2. ASSUME After(flag, on, all, new) PROVE m.ev = on
    <3>1. ~\A i \in 1..Len(new) : new[i].ev \notin all
      BY <1>1, <1>2, <1>3
    <3>2. PICK i \in 1..Len(new) : /\ new[i].ev = on
                                   /\ \A j \in 1..Len(new) : j > i => new[j].ev \notin all
      BY <2>2, <3>1 DEF After
    <3>3. ~(n + 1 > i)
      BY <1>1, <1>2, <1>3, <3>2
    <3>4. i = n + 1
      BY <1>1, <1>2, <3>3
    <3>. QED BY <1>1, <3>2, <3>4
  <2>. QED BY <1>3, <2>1, <2>2 DEF new
<1>4. CASE m.ev \notin all
  <2>1. ASSUME After(flag, on, all, new) PROVE After(flag, on, all, box)
    <3>1. CASE flag /\ \A i \in 1..Len(new) : new[i].ev \notin all
      <4>1. \A i \in 1..n : i \in 1..Len(new)
        BY <1>1
      <4>. QED BY <1>1, <3>1, <4>1 DEF After
    <3>2. CASE \E i \in 1..Len(new) : /\ new[i].ev = on
                                      /\ \A j \in 1..Len(new) : j > i => new[j].ev \notin all
      <4>1. PICK i \in 1..Len(new) : /\ new[i].ev = on
                                     /\ \A j \in 1..Len(new) : j > i => new[j].ev \notin all
        BY <3>2
      <4>2. i \in 1..n
        BY <1>1, <1>2, <1>4, <4>1
      <4>3. \A j \in 1..n : j \in 1..Len(new)
        BY <1>1
      <4>4. box[i].ev = on /\ \A j \in 1..n : j > i => box[j].ev \notin all
        BY <1>1, <4>1, <4>2, <4>3
      <4>. QED BY <4>2, <4>4 DEF After
    <3>. QED BY <2>1, <3>1, <3>2 DEF After
  <2>2. ASSUME After(flag, on, all, box) PROVE After(flag, on, all, new)
    <3>1. CASE flag /\ \A i \in 1..n : box[i].ev \notin all
      <4>1. \A i \in 1..Len(new) : new[i].ev \notin all
        BY <1>1, <1>2, <1>4, <3>1
      <4>. QED BY <3>1, <4>1 DEF After
    <3>2. CASE \E i \in 1..n : /\ box[i].ev = on
                               /\ \A j \in 1..n : j > i => box[j].ev \notin all
      <4>1. PICK i \in 1..n : /\ box[i].ev = on
                              /\ \A j \in 1..n : j > i => box[j].ev \notin all
        BY <3>2
      <4>2. new[i].ev = on /\ i \in 1..Len(new)
        BY <1>1, <4>1
      <4>3. \A j \in 1..Len(new) : j > i => new[j].ev \notin all
        BY <1>1, <1>2, <1>4, <4>1
      <4>. QED BY <4>2, <4>3 DEF After
    <3>. QED BY <2>2, <3>1, <3>2 DEF After
  <2>. QED BY <1>4, <2>1, <2>2 DEF new
<1>. QED BY <1>3, <1>4

\* Handling a message as handleMessage does leaves the outcome as it was.
LEMMA AfterTake ==
    ASSUME NEW S, NEW box \in Seq(S), box # <<>>, NEW flag \in BOOLEAN, NEW new \in BOOLEAN,
           NEW all, NEW on \in all,
           new = IF Head(box).ev \in all THEN Head(box).ev = on ELSE flag
    PROVE  After(new, on, all, Tail(box)) <=> After(flag, on, all, box)
<1> DEFINE n == Len(box)
<1> DEFINE rest == Tail(box)
<1>1. /\ Len(rest) = n - 1 /\ n \in Nat \ {0} /\ Head(box) = box[1]
      /\ \A i \in 1..Len(rest) : rest[i] = box[i + 1]
  BY TailAny
<1>2. /\ \A i \in 1..Len(rest) : i + 1 \in 1..n
      /\ \A i \in 1..n : i # 1 => i - 1 \in 1..Len(rest) /\ rest[i - 1] = box[i]
      /\ 1 \in 1..n
  BY <1>1
<1> HIDE DEF rest
<1>3. (\A i \in 1..Len(rest) : rest[i].ev \notin all) <=>
         \A i \in 1..n : i # 1 => box[i].ev \notin all
  <2>1. ASSUME \A i \in 1..Len(rest) : rest[i].ev \notin all
        PROVE  \A i \in 1..n : i # 1 => box[i].ev \notin all
    BY <1>2, <2>1
  <2>2. ASSUME \A i \in 1..n : i # 1 => box[i].ev \notin all, NEW i \in 1..Len(rest)
        PROVE  rest[i].ev \notin all
    <3>1. i + 1 \in 1..n /\ i + 1 # 1
      BY <1>1, <1>2
    <3>. QED BY <1>1, <2>2, <3>1
  <2>. QED BY <2>1, <2>2
<1>4. ASSUME After(flag, on, all, box) PROVE After(new, on, all, rest)
  <2>1. CASE flag /\ \A i \in 1..n : box[i].ev \notin all
    BY <1>1, <1>2, <1>3, <2>1 DEF After
  <2>2. CASE \E i \in 1..n : box[i].ev = on /\ \A j \in 1..n : j > i => box[j].ev \notin all
    <3>1. PICK i \in 1..n : box[i].ev = on /\ \A j \in 1..n : j > i => box[j].ev \notin all
      BY <2>2
    <3>2. CASE i = 1
      <4>1. \A j \in 1..n : j # 1 => box[j].ev \notin all
        BY <3>1, <3>2
      <4>2. new
        BY <1>1, <3>1, <3>2
      <4>. QED BY <1>3, <4>1, <4>2 DEF After
    <3>3. CASE i # 1
      <4>1. i - 1 \in 1..Len(rest) /\ rest[i - 1].ev = on
        BY <1>2, <3>1, <3>3
      <4>2. ASSUME NEW j \in 1..Len(rest), j > i - 1 PROVE rest[j].ev \notin all
        <5>1. j + 1 \in 1..n /\ j + 1 > i
          BY <1>1, <1>2, <4>2
        <5>. QED BY <1>1, <3>1, <5>1
      <4>. QED BY <4>1, <4>2 DEF After
    <3>. QED BY <3>2, <3>3
  <2>. QED BY <1>4, <2>1, <2>2 DEF After
<1>5. ASSUME After(new, on, all, rest) PROVE After(flag, on, all, box)
  <2>1. CASE new /\ \A i \in 1..Len(rest) : rest[i].ev \notin all
    <3>1. \A i \in 1..n : i # 1 => box[i].ev \notin all
      BY <1>3, <2>1
    <3>2. CASE box[1].ev \in all
      <4>1. box[1].ev = on
        BY <1>1, <2>1, <3>2
      <4>2. \A j \in 1..n : j > 1 => box[j].ev \notin all
        BY <3>1
      <4>. QED BY <1>2, <4>1, <4>2 DEF After
    <3>3. CASE box[1].ev \notin all
      <4>1. flag /\ \A i \in 1..n : box[i].ev \notin all
        BY <1>1, <2>1, <3>1, <3>3
      <4>. QED BY <4>1 DEF After
    <3>. QED BY <3>2, <3>3
  <2>2. CASE \E i \in 1..Len(rest) :
                rest[i].ev = on /\ \A j \in 1..Len(rest) : j > i => rest[j].ev \notin all
    <3>1. PICK i \in 1..Len(rest) :
             rest[i].ev = on /\ \A j \in 1..Len(rest) : j > i => rest[j].ev \notin all
      BY <2>2
    <3>2. i + 1 \in 1..n /\ box[i + 1].ev = on
      BY <1>1, <1>2, <3>1
    <3>3. ASSUME NEW j \in 1..n, j > i + 1 PROVE box[j].ev \notin all
      <4>1. j - 1 \in 1..Len(rest) /\ rest[j - 1] = box[j] /\ j - 1 > i
        BY <1>1, <1>2, <3>3
      <4>. QED BY <3>1, <4>1
    <3>. QED BY <3>2, <3>3 DEF After
  <2>. QED BY <1>5, <2>1, <2>2 DEF After
<1>. QED BY <1>4, <1>5 DEF rest

\* With nothing to handle the flag is what it will be.
LEMMA AfterNothing ==
    ASSUME NEW flag, NEW on, NEW all
    PROVE  After(flag, on, all, <<>>) <=> flag
<1>1. Len(<<>>) = 0 /\ \A i \in 1..0 : FALSE
  OBVIOUS
<1>. QED BY <1>1 DEF After

-----------------------------------------------------------------------------
\* The values ATypeOK asks for that AndroidShape does not.
Typed ==
    /\ {tone, callUp, receiver, bound, ready, overlapped, amBound} \subseteq BOOLEAN
    /\ inbox \in Seq(Message \cup ThreadMessage)

\* The core, as far as the service depends on it: no call outside re_main, and
\* g_call is NULL or a live call.
CoreInv ==
    /\ phase \in Phase
    /\ state \in [Call -> LiveState \cup {"new", "dead"}]
    /\ gCall \in Call \cup {NoCall}
    /\ phase \in {"off", "init", "ready", "failed"} => Live = {}
    /\ gCall # NoCall => gCall \in Live /\ phase \in {"loop", "cancelled", "crashed"}

\* Where SipThread.run is while the core is up.
Together ==
    /\ phase = "init" => thread = "init"
    /\ phase = "ready" => thread \in {"report", "main"}
    /\ phase \in {"loop", "cancelled", "freeing", "closing"} => thread = "main"

\* A service begins without a call and without a tone.
Fresh == thread \in {"begin", "init", "report"} => ~callUp /\ ~tone

OneLive == thread = "main" /\ ~overlapped => \A c, d \in Live : c = d

InState(s) == \E c \in Call : state[c] = s

\* What the service will think once it has handled the messages it has, as
\* long as the core may still report.
Agree == /\ UpAfter <=> InState("established")
         /\ ToneAfter => InState("ringing")
WillAgree ==
    thread = "main" /\ ~overlapped /\ phase \in {"ready", "loop", "cancelled"} => Agree

KnowsInv == Typed /\ CoreInv /\ Together /\ Fresh /\ OneLive /\ WillAgree

Sends(ev) == \E m \in Message : m.ev = ev /\ inbox' = Append(inbox, m)

\* What one callback of re_main does to a call, and what it reports.
Moves(c, s) == state' = [state EXCEPT ![c] = s]
CallMoves ==
    \/ /\ UNCHANGED state
       /\ UNCHANGED inbox \/ Sends("REGISTER_FAIL")
    \/ \E c \in Call : Moves(c, "dead") /\ Sends("CLOSED") /\ (c \in Live \/ Live = {})
    \/ \E c \in Call : \E s \in {"outgoing", "incoming"} :
          state[c] = "new" /\ Moves(c, s) /\ UNCHANGED inbox
    \/ \E c \in Call : /\ state[c] \in {"outgoing", "ringing"} /\ Moves(c, "ringing")
                       /\ UNCHANGED inbox \/ Sends("RINGING")
    \/ \E c \in Call : /\ state[c] \in {"outgoing", "ringing"} /\ Moves(c, "established")
                       /\ Sends("ESTABLISHED")

\* event_listener sends a message of the event, and forgets a closed call.
LEMMA ListenerSends ==
    ASSUME CoreInv, NEW ev \in Event, NEW c \in Call \cup {NoCall}, NEW code \in Code,
           EventListener(ev, c, code)
    PROVE  Sends(ev) /\ gCall' = IF ev = "CLOSED" THEN NoCall ELSE gCall
<1>1. Notification(ev, c, code) \in Message /\ Notification(ev, c, code).ev = ev
  BY CodeAssumption DEF CoreInv, Notification, Message, CallIdOf
<1>. QED BY <1>1 DEF EventListener, Sends

\* A call that stays live, or becomes so, does not disturb g_call.
LEMMA MoveKeepsCalls ==
    ASSUME CoreInv, NEW c \in Call, NEW s \in LiveState, Moves(c, s)
    PROVE  /\ state' \in [Call -> LiveState \cup {"new", "dead"}]
           /\ Live \subseteq Live' /\ c \in Live'
  BY DEF CoreInv, Moves, Live

\* A callback of re_main: a command from the pipe or something from the network.
LEMMA CallbackMoves ==
    ASSUME CoreInv, HandleCommand \/ Network
    PROVE  /\ CoreInv' /\ CallMoves
           /\ phase \in {"loop", "cancelled"} /\ phase' \in {"loop", "cancelled", "crashed"}
<1>1. phase \in {"loop", "cancelled"} /\ phase' \in {"loop", "cancelled", "crashed"}
  BY DEF HandleCommand, AudioCall_Connect, AudioCall_NoUa, AudioCall_Fails, Hangup_Close,
         Hangup_NoCall, Hangup_Dangling, Stop, Dequeue, Network, Progress, Established,
         CallCloses, Incoming, RegisterFails, Dispatching, NetworkUnchanged
<1>0. phase' \in Phase /\ 0 \in Code /\ NoCall \in Call \cup {NoCall} /\ NoCall \notin Call
  BY <1>1, CodeAssumption, NullAssumption DEF Phase
<1>2. ASSUME UNCHANGED <<state, gCall>>, UNCHANGED inbox \/ Sends("REGISTER_FAIL")
      PROVE  CoreInv' /\ CallMoves
  BY <1>0, <1>1, <1>2 DEF CoreInv, CallMoves, Live
<1>3. ASSUME NEW c \in Call, NEW code \in Code, FreeCall(c), c \in Live \/ Live = {},
             EventListener("CLOSED", c, code)
      PROVE  CoreInv' /\ CallMoves
  <2>1. Sends("CLOSED") /\ gCall' = NoCall
    BY <1>3, ListenerSends DEF Event
  <2>2. Moves(c, "dead")
    BY <1>3 DEF FreeCall, Moves
  <2>3. state' \in [Call -> LiveState \cup {"new", "dead"}]
    BY <2>2 DEF CoreInv, Moves
  <2>. QED BY <1>0, <1>1, <1>3, <2>1, <2>2, <2>3 DEF CoreInv, CallMoves
<1>4. ASSUME NEW c \in Call, NEW s \in LiveState, Moves(c, s), gCall' \in {gCall, c}
      PROVE  CoreInv'
  <2>1. gCall' # NoCall => gCall' \in Live'
    BY <1>4, MoveKeepsCalls DEF CoreInv
  <2>. QED BY <1>0, <1>1, <1>4, <2>1, MoveKeepsCalls DEF CoreInv
<1>7. ASSUME UNCHANGED state, EventListener("REGISTER_FAIL", NoCall, 0)
      PROVE  CoreInv' /\ CallMoves
  <2>1. Sends("REGISTER_FAIL") /\ gCall' = gCall
    BY <1>0, <1>7, ListenerSends DEF Event
  <2>2. UNCHANGED <<state, gCall>>
    BY <1>7, <2>1
  <2>. QED BY <1>2, <2>1, <2>2
<1>5. CASE HandleCommand
  <2>1. CASE AudioCall_Connect
    <3>1. PICK c \in Call : state[c] = "new" /\ Moves(c, "outgoing") /\ gCall' = c
      BY <2>1 DEF AudioCall_Connect, Moves
    <3>2. UNCHANGED inbox
      BY <2>1 DEF AudioCall_Connect
    <3>3. CoreInv'
      BY <1>4, <3>1 DEF LiveState
    <3>. QED BY <1>1, <3>1, <3>2, <3>3 DEF CallMoves
  <2>2. CASE AudioCall_Fails
    <3>1. UNCHANGED state
      BY <2>2 DEF AudioCall_Fails
    <3>2. CASE EventListener("REGISTER_FAIL", NoCall, 0)
      BY <1>1, <1>7, <3>1, <3>2
    <3>3. CASE UNCHANGED <<gCall, inbox>>
      <4>1. UNCHANGED <<state, gCall>> /\ UNCHANGED inbox
        BY <3>1, <3>3
      <4>. QED BY <1>1, <1>2, <4>1
    <3>. QED BY <2>2, <3>2, <3>3 DEF AudioCall_Fails
  <2>3. CASE Hangup_Close
    <3>1. PICK c \in HangupTarget : EventListener("CLOSED", c, 0) /\ FreeCall(c)
      BY <2>3 DEF Hangup_Close
    <3>2. c \in Live
      BY <3>1 DEF HangupTarget, CallsOf, CoreInv
    <3>3. c \in Call
      BY <3>2 DEF Live
    <3>. QED BY <1>1, <1>0, <1>3, <3>1, <3>2, <3>3
  <2>4. CASE AudioCall_NoUa \/ Hangup_NoCall \/ Hangup_Dangling \/ Stop
    <3>1. UNCHANGED <<state, gCall>> /\ UNCHANGED inbox
      BY <2>4 DEF AudioCall_NoUa, Hangup_NoCall, Hangup_Dangling, Stop, loopVars
    <3>. QED BY <1>1, <1>2, <3>1
  <2>. QED BY <1>5, <2>1, <2>2, <2>3, <2>4 DEF HandleCommand
<1>6. CASE Network
  <2>1. ASSUME NEW c \in Call, Progress(c) PROVE CoreInv' /\ CallMoves
    <3>1. state[c] \in {"outgoing", "ringing"} /\ Moves(c, "ringing")
      BY <2>1 DEF Progress, Moves
    <3>2. gCall' = gCall /\ (UNCHANGED inbox \/ Sends("RINGING"))
      BY <1>0, <2>1, ListenerSends DEF Progress, Event
    <3>. QED BY <1>4, <3>1, <3>2 DEF LiveState, CallMoves
  <2>2. ASSUME NEW c \in Call, Established(c) PROVE CoreInv' /\ CallMoves
    <3>1. state[c] \in {"outgoing", "ringing"} /\ Moves(c, "established")
      BY <2>2 DEF Established, Moves
    <3>2. gCall' = gCall /\ Sends("ESTABLISHED")
      BY <1>0, <2>2, ListenerSends DEF Established, Event
    <3>. QED BY <1>4, <3>1, <3>2 DEF LiveState, CallMoves
  <2>3. ASSUME NEW c \in Call, NEW code \in Code, CallCloses(c, code)
        PROVE CoreInv' /\ CallMoves
    BY <1>3, <2>3 DEF CallCloses
  <2>4. ASSUME NEW u \in Ua, NEW c \in Call, Incoming(u, c) PROVE CoreInv' /\ CallMoves
    <3>1. CASE state' = [state EXCEPT ![c] = "incoming"] /\ UNCHANGED <<gCall, inbox>>
      <4>1. state[c] = "new" /\ Moves(c, "incoming")
        BY <2>4, <3>1 DEF Incoming, Moves
      <4>. QED BY <1>4, <3>1, <4>1 DEF LiveState, CallMoves
    <3>2. CASE FreeCall(c) /\ EventListener("CLOSED", c, 0)
      <4>1. Live = {}
        <5>1. Live \subseteq Call
          BY DEF Live
        <5>2. IsFiniteSet(Live) /\ Cardinality(Live) \in Nat
          BY <5>1, FiniteAssumption, FS_Subset, FS_CardinalityType
        <5>3. Cardinality(Live) + 1 <= 1
          BY <2>4 DEF Incoming, MaxCalls
        <5>. QED BY <5>2, <5>3, FS_EmptySet
      <4>. QED BY <1>0, <1>3, <3>2, <4>1
    <3>. QED BY <2>4, <3>1, <3>2 DEF Incoming
  <2>5. ASSUME NEW u \in Ua, RegisterFails(u) PROVE CoreInv' /\ CallMoves
    BY <1>7, <2>5 DEF RegisterFails
  <2>. QED BY <1>1, <1>6, <2>1, <2>2, <2>3, <2>4, <2>5 DEF Network
<1>. QED BY <1>1, <1>5, <1>6

\* A message that is sent, to the two flags.
LEMMA SendAfter ==
    ASSUME Typed, NEW m, inbox' = Append(inbox, m), UNCHANGED <<tone, callUp>>
    PROVE  /\ UpAfter' <=> IF m.ev \in CallEnds THEN m.ev = "ESTABLISHED" ELSE UpAfter
           /\ ToneAfter' <=> IF m.ev \in ToneEnds THEN m.ev = "RINGING" ELSE ToneAfter
<1>1. "ESTABLISHED" \in CallEnds /\ "RINGING" \in ToneEnds
  BY DEF CallEnds, ToneEnds
<1>2. inbox \in Seq(Message \cup ThreadMessage)
  BY DEF Typed
<1>3. After(callUp, "ESTABLISHED", CallEnds, Append(inbox, m)) <=>
         IF m.ev \in CallEnds THEN m.ev = "ESTABLISHED"
         ELSE After(callUp, "ESTABLISHED", CallEnds, inbox)
  BY <1>1, <1>2, AfterAppend
<1>4. After(tone, "RINGING", ToneEnds, Append(inbox, m)) <=>
         IF m.ev \in ToneEnds THEN m.ev = "RINGING"
         ELSE After(tone, "RINGING", ToneEnds, inbox)
  BY <1>1, <1>2, AfterAppend
<1>5. /\ UpAfter' <=> After(callUp, "ESTABLISHED", CallEnds, Append(inbox, m))
      /\ ToneAfter' <=> After(tone, "RINGING", ToneEnds, Append(inbox, m))
  BY DEF UpAfter, ToneAfter, CallEnds, ToneEnds
<1>. QED BY <1>3, <1>4, <1>5 DEF UpAfter, ToneAfter

\* What a callback of re_main reports is what it does, as long as the call it
\* is about is the only one.
LEMMA CallbackAgrees ==
    ASSUME Typed, CoreInv, Agree, \A c, d \in Live : c = d, CallMoves,
           UNCHANGED <<tone, callUp>>
    PROVE  Agree'
<1>0. /\ "RINGING" \notin CallEnds /\ "RINGING" \in ToneEnds
      /\ "ESTABLISHED" \in CallEnds /\ "ESTABLISHED" \in ToneEnds
      /\ "CLOSED" \in CallEnds /\ "CLOSED" \in ToneEnds
      /\ "REGISTER_FAIL" \notin CallEnds /\ "REGISTER_FAIL" \notin ToneEnds
  BY DEF CallEnds, ToneEnds
<1>1. ASSUME NEW c \in Call, NEW s, Moves(c, s)
      PROVE  state'[c] = s /\ \A d \in Call : d # c => state'[d] = state[d]
  BY <1>1 DEF Moves, CoreInv
<1>2. ASSUME UNCHANGED inbox
      PROVE  (UpAfter' <=> UpAfter) /\ (ToneAfter' <=> ToneAfter)
  BY <1>2 DEF UpAfter, ToneAfter
<1>3. ASSUME NEW ev, Sends(ev)
      PROVE  /\ UpAfter' <=> IF ev \in CallEnds THEN ev = "ESTABLISHED" ELSE UpAfter
             /\ ToneAfter' <=> IF ev \in ToneEnds THEN ev = "RINGING" ELSE ToneAfter
  <2>1. PICK m \in Message : m.ev = ev /\ inbox' = Append(inbox, m)
    BY <1>3 DEF Sends
  <2>. QED BY <2>1, SendAfter
<1>4. CASE UNCHANGED state /\ (UNCHANGED inbox \/ Sends("REGISTER_FAIL"))
  <2>1. (UpAfter' <=> UpAfter) /\ (ToneAfter' <=> ToneAfter)
    BY <1>0, <1>2, <1>3, <1>4
  <2>. QED BY <1>4, <2>1 DEF Agree, InState
<1>5. ASSUME NEW c \in Call, Moves(c, "dead"), Sends("CLOSED"), c \in Live \/ Live = {}
      PROVE  Agree'
  <2>1. ~UpAfter' /\ ~ToneAfter'
    BY <1>0, <1>3, <1>5
  <2>2. ASSUME NEW d \in Call, state'[d] = "established" PROVE FALSE
    <3>1. d # c /\ state[d] = "established"
      BY <1>1, <1>5, <2>2
    <3>2. d \in Live
      BY <3>1 DEF Live, LiveState
    <3>. QED BY <1>5, <3>1, <3>2
  <2>. QED BY <2>1, <2>2 DEF Agree, InState
<1>6. ASSUME NEW c \in Call, NEW s \in {"outgoing", "incoming"}, state[c] = "new",
             Moves(c, s), UNCHANGED inbox
      PROVE  Agree'
  <2>1. \A t \in {"established", "ringing"} : InState(t) <=> InState(t)'
    BY <1>1, <1>6 DEF InState
  <2>. QED BY <1>2, <1>6, <2>1 DEF Agree
<1>7. ASSUME NEW c \in Call, state[c] \in {"outgoing", "ringing"}, Moves(c, "ringing"),
             UNCHANGED inbox \/ Sends("RINGING")
      PROVE  Agree'
  <2>1. InState("established") <=> InState("established")'
    BY <1>1, <1>7 DEF InState
  <2>2. InState("ringing")'
    BY <1>1, <1>7 DEF InState
  <2>3. UpAfter' <=> UpAfter
    BY <1>0, <1>2, <1>3, <1>7
  <2>. QED BY <2>1, <2>2, <2>3 DEF Agree
<1>8. ASSUME NEW c \in Call, Moves(c, "established"), Sends("ESTABLISHED")
      PROVE  Agree'
  <2>1. InState("established")'
    BY <1>1, <1>8 DEF InState
  <2>2. UpAfter' /\ ~ToneAfter'
    BY <1>0, <1>3, <1>8
  <2>. QED BY <2>1, <2>2 DEF Agree
<1>. QED BY <1>4, <1>5, <1>6, <1>7, <1>8 DEF CallMoves

-----------------------------------------------------------------------------
\* Before the first start the service knows nothing, and there is nothing.
LEMMA KnowsInit == AInit => KnowsInv
<1> SUFFICES ASSUME AInit PROVE KnowsInv
  OBVIOUS
<1>1. inbox = <<>> /\ <<>> \in Seq(Message \cup ThreadMessage)
  BY DEF AInit, Init
<1>2. Typed
  BY <1>1 DEF AInit, Typed
<1>3. CoreInv
  BY NullAssumption DEF AInit, Init, CoreInv, Phase, Live, LiveState
<1>. QED BY <1>2, <1>3 DEF AInit, Init, KnowsInv, Together, Fresh, OneLive, WillAgree

\* Two live calls are seen as an overlap.
LEMMA OverlapSeen ==
    ASSUME Overlap, ~overlapped'
    PROVE  ~overlapped /\ \A c, d \in Live' : c = d
<1>1. ~overlapped /\ ~(Cardinality(Live') > 1)
  BY DEF Overlap
<1>2. Live' \subseteq Call
  BY DEF Live
<1>3. IsFiniteSet(Live') /\ Cardinality(Live') \in Nat
  BY <1>2, FiniteAssumption, FS_Subset, FS_CardinalityType
<1>4. ASSUME NEW c \in Live', NEW d \in Live', c # d PROVE FALSE
  <2>1. {c, d} \subseteq Live'
    OBVIOUS
  <2>2. Cardinality({c, d}) = 2
    <3>1. IsFiniteSet({c}) /\ Cardinality({c}) = 1
      BY FS_Singleton
    <3>2. {c, d} = {c} \cup {d} /\ d \notin {c}
      BY <1>4
    <3>. QED BY <3>1, <3>2, FS_AddElement
  <2>3. Cardinality({c, d}) <= Cardinality(Live')
    BY <1>3, <2>1, FS_Subset
  <2>. QED BY <1>1, <1>3, <2>2, <2>3
<1>. QED BY <1>1, <1>4

\* The SIP thread.
LEMMA ThreadKnows == ServiceInv /\ KnowsInv /\ ThreadNext => KnowsInv'
<1> SUFFICES ASSUME ServiceInv, KnowsInv, ThreadNext PROVE KnowsInv'
  OBVIOUS
<1>1. CASE Thread_EnterInit
  <2>1. CoreInv'
    BY <1>1 DEF Thread_EnterInit, EnterInit, loopVars, KnowsInv, CoreInv, Phase, Live
  <2>2. Typed'
    BY <1>1 DEF Thread_EnterInit, EnterInit, KnowsInv, Typed, svcVars, engineVars, amVars
  <2>3. Together' /\ Fresh' /\ OneLive' /\ WillAgree'
    BY <1>1 DEF Thread_EnterInit, EnterInit, KnowsInv, Together, Fresh, OneLive, WillAgree,
                svcVars
  <2>. QED BY <2>1, <2>2, <2>3 DEF KnowsInv
<1>2. CASE Thread_InitReturns
  <2>0. phase = "init" /\ phase' \in {"ready", "failed"} /\ UNCHANGED <<loopVars, inbox>>
        /\ thread = "init" /\ thread' = "report"
        /\ UNCHANGED <<svcVars, engineVars, amVars, overlapped>>
    BY <1>2 DEF Thread_InitReturns, InitDone, InitFails
  <2>1. CoreInv'
    BY <2>0 DEF loopVars, KnowsInv, CoreInv, Phase, Live
  <2>2. Typed'
    BY <2>0 DEF KnowsInv, Typed, svcVars, engineVars, amVars
  <2>3. Together' /\ Fresh' /\ OneLive' /\ WillAgree'
    BY <2>0 DEF KnowsInv, Together, Fresh, OneLive, WillAgree, svcVars
  <2>. QED BY <2>1, <2>2, <2>3 DEF KnowsInv
<1>3. CASE Thread_Report
  <2>1. PICK code \in {0, 1} : inbox' = Append(inbox, ThreadNote("THREAD_STARTED", code))
    BY <1>3 DEF Thread_Report
  <2>2. /\ thread = "report" /\ thread' = IF phase = "ready" THEN "main" ELSE "finish"
        /\ UNCHANGED <<phase, loopVars, svcVars, engineVars, amVars, overlapped>>
    BY <1>3 DEF Thread_Report
  <2>3. CoreInv' /\ Together'
    BY <2>2 DEF loopVars, KnowsInv, CoreInv, Together, Live
  <2>4. ThreadNote("THREAD_STARTED", code) \in ThreadMessage
        /\ ThreadNote("THREAD_STARTED", code).ev = "THREAD_STARTED"
    BY DEF ThreadNote, ThreadMessage
  <2>5. inbox' \in Seq(Message \cup ThreadMessage)
    BY <2>1, <2>4 DEF KnowsInv, Typed
  <2>6. Typed'
    BY <2>2, <2>5 DEF KnowsInv, Typed, svcVars, engineVars, amVars
  <2>7. inbox = <<>> /\ ~callUp /\ ~tone
    BY <2>2 DEF ServiceInv, QuietStart, KnowsInv, Fresh
  <2>8. ~UpAfter /\ ~ToneAfter
    BY <2>7, AfterNothing DEF UpAfter, ToneAfter
  <2>9. ~UpAfter' /\ ~ToneAfter'
    <3>1. "THREAD_STARTED" \notin CallEnds /\ "THREAD_STARTED" \notin ToneEnds
      BY DEF CallEnds, ToneEnds
    <3>2. UNCHANGED <<tone, callUp>>
      BY <2>2 DEF svcVars
    <3>. QED BY <2>1, <2>4, <2>8, <3>1, <3>2, SendAfter DEF KnowsInv
  <2>10. thread' = "main" => Live' = {}
    BY <2>2 DEF KnowsInv, CoreInv, loopVars, Live
  <2>11. Live' = {} => ~InState("established")'
    BY DEF Live, LiveState, InState
  <2>12. OneLive' /\ WillAgree' /\ Fresh'
    BY <2>2, <2>9, <2>10, <2>11 DEF OneLive, WillAgree, Fresh, Agree
  <2>. QED BY <2>3, <2>6, <2>12 DEF KnowsInv
<1>5. CASE Thread_Finish
  <2>1. inbox' = Append(inbox, ThreadNote("THREAD_FINISHED", 0))
    BY <1>5 DEF Thread_Finish
  <2>2. /\ thread = "finish" /\ thread' = "dead"
        /\ UNCHANGED <<phase, loopVars, svcVars, engineVars, amVars, overlapped>>
    BY <1>5 DEF Thread_Finish
  <2>3. CoreInv' /\ Together'
    BY <2>2 DEF loopVars, KnowsInv, CoreInv, Together, Live
  <2>4. ThreadNote("THREAD_FINISHED", 0) \in ThreadMessage
    BY DEF ThreadNote, ThreadMessage
  <2>5. inbox' \in Seq(Message \cup ThreadMessage)
    BY <2>1, <2>4 DEF KnowsInv, Typed
  <2>6. Typed'
    BY <2>2, <2>5 DEF KnowsInv, Typed, svcVars, engineVars, amVars
  <2>7. OneLive' /\ WillAgree' /\ Fresh'
    BY <2>2 DEF OneLive, WillAgree, Fresh
  <2>. QED BY <2>3, <2>6, <2>7 DEF KnowsInv
<1>4. CASE Thread_MainLoop
  <2>0. /\ thread = "main" /\ thread' \in {"main", "finish"} /\ Overlap
        /\ UNCHANGED <<svcVars, engineVars, amVars>>
    BY <1>4 DEF Thread_MainLoop
  <2>1. OneLive' /\ Fresh'
    BY <2>0, OverlapSeen DEF OneLive, Fresh
  <2>2. overlapped' \in BOOLEAN
    BY <2>0 DEF Overlap, KnowsInv, Typed
  <2>3. CASE (HandleCommand \/ Network) /\ UNCHANGED thread
    <3>1. /\ CoreInv' /\ CallMoves
          /\ phase \in {"loop", "cancelled"} /\ phase' \in {"loop", "cancelled", "crashed"}
      BY <2>3, CallbackMoves DEF KnowsInv
    <3>2. Together'
      BY <2>0, <2>3, <3>1 DEF Together
    <3>3. UNCHANGED inbox \/ \E m \in Message : inbox' = Append(inbox, m)
      BY <3>1 DEF CallMoves, Sends
    <3>4. inbox' \in Seq(Message \cup ThreadMessage)
      BY <3>3 DEF KnowsInv, Typed
    <3>5. Typed'
      BY <2>0, <2>2, <3>4 DEF KnowsInv, Typed, svcVars, engineVars, amVars
    <3>6. WillAgree'
      <4>1. ASSUME ~overlapped' PROVE Agree'
        <5>1. ~overlapped
          BY <2>0, <4>1 DEF Overlap
        <5>2. Agree /\ \A c, d \in Live : c = d
          BY <2>0, <3>1, <5>1 DEF KnowsInv, OneLive, WillAgree
        <5>. QED BY <2>0, <3>1, <5>2, CallbackAgrees DEF KnowsInv, svcVars
      <4>. QED BY <4>1 DEF WillAgree
    <3>. QED BY <2>1, <3>1, <3>2, <3>5, <3>6 DEF KnowsInv
  <2>4. CASE ~((HandleCommand \/ Network) /\ UNCHANGED thread)
    <3>1. \/ /\ MainLoop \/ LoopFails \/ TelDone_FreeQueue \/ TelDone_ResetQueue
             /\ UNCHANGED thread
          \/ TelDone_StopAll /\ thread' = "finish"
      BY <1>4, <2>4 DEF Thread_MainLoop
    <3>2. inbox' = inbox /\ phase' \in {"loop", "freeing", "closing", "off"}
          /\ (phase' = "off" => thread' = "finish")
          /\ (phase' = "loop" => phase = "ready" /\ UNCHANGED state)
          /\ (phase' # "off" => thread' = "main")
      BY <2>0, <3>1 DEF MainLoop, LoopFails, TelDone_FreeQueue, TelDone_ResetQueue, TelDone_StopAll
    <3>3. CoreInv'
      <4>1. CASE MainLoop \/ LoopFails \/ TelDone_FreeQueue \/ TelDone_ResetQueue
        BY <4>1 DEF MainLoop, LoopFails, TelDone_FreeQueue, TelDone_ResetQueue, KnowsInv, CoreInv,
                    Phase, Live, loopVars
      <4>2. CASE TelDone_StopAll
        <5>1. /\ state' = [c \in Call |-> IF c \in Live THEN "dead" ELSE state[c]]
              /\ phase = "closing" /\ phase' = "off" /\ UNCHANGED gCall
          BY <4>2 DEF TelDone_StopAll
        <5>2. Live' = {}
          BY <5>1 DEF Live, LiveState
        <5>3. gCall = NoCall
          BY <5>1 DEF KnowsInv, CoreInv
        <5>4. state' \in [Call -> LiveState \cup {"new", "dead"}]
          BY <5>1 DEF KnowsInv, CoreInv
        <5>. QED BY <5>1, <5>2, <5>3, <5>4 DEF KnowsInv, CoreInv, Phase
      <4>. QED BY <3>1, <4>1, <4>2
    <3>4. Typed'
      BY <2>0, <2>2, <3>2 DEF KnowsInv, Typed, svcVars, engineVars, amVars
    <3>5. Together'
      BY <3>2 DEF Together
    <3>6. WillAgree'
      <4>1. ASSUME phase' = "loop", ~overlapped' PROVE Agree'
        <5>1. ~overlapped
          BY <2>0, <4>1 DEF Overlap
        <5>2. Agree
          BY <2>0, <3>2, <4>1, <5>1 DEF KnowsInv, WillAgree
        <5>3. UNCHANGED <<inbox, state, tone, callUp>>
          BY <2>0, <3>2, <4>1 DEF svcVars
        <5>. QED BY <5>2, <5>3 DEF Agree, UpAfter, ToneAfter, InState
      <4>. QED BY <3>2, <4>1 DEF WillAgree
    <3>. QED BY <2>1, <3>3, <3>4, <3>5, <3>6 DEF KnowsInv
  <2>. QED BY <2>3, <2>4
<1>. QED BY <1>1, <1>2, <1>3, <1>4, <1>5 DEF ThreadNext

\* The main thread, as long as it handles no message: what it does to a tone is
\* to stop it, and to the core, at worst, to crash it.
LEMMA MainKnows ==
    ASSUME KnowsInv, UNCHANGED <<thread, loopVars, inbox, callUp, overlapped>>,
           phase' \in {phase, "crashed"}, tone' \in {tone, FALSE},
           {receiver', bound', ready', amBound'} \subseteq BOOLEAN
    PROVE  KnowsInv'
<1>1. CoreInv'
  BY DEF KnowsInv, CoreInv, Live, Phase, loopVars
<1>2. Typed'
  BY DEF KnowsInv, Typed
<1>3. Together' /\ Fresh'
  <2>1. Together'
    BY DEF KnowsInv, Together
  <2>2. ~tone => ~tone'
    OBVIOUS
  <2>. QED BY <2>1, <2>2 DEF KnowsInv, Fresh
<1>4. OneLive'
  BY DEF KnowsInv, OneLive, Live, loopVars
<1>5. WillAgree'
  <2>1. ToneAfter' => ToneAfter
    BY DEF ToneAfter, After
  <2>2. UpAfter' <=> UpAfter
    BY DEF UpAfter
  <2>. QED BY <2>1, <2>2 DEF KnowsInv, WillAgree, Agree, InState, loopVars
<1>. QED BY <1>1, <1>2, <1>3, <1>4, <1>5 DEF KnowsInv

\* telephony_cmd loads the queue and changes nothing the service depends on.
LEMMA LoadKeepsCore ==
    ASSUME NEW command, Command_Load(command)
    PROVE  UNCHANGED <<loopVars, inbox, phase>>
  BY DEF Command_Load

\* The engine's methods.
LEMMA EngineKnows == KnowsInv /\ EngineNext => KnowsInv'
<1> SUFFICES ASSUME KnowsInv, EngineNext PROVE KnowsInv'
  OBVIOUS
<1>1. /\ UNCHANGED <<thread, callUp, overlapped>> /\ tone' \in {tone, FALSE}
      /\ UNCHANGED <<loopVars, inbox>> /\ phase' = phase
  BY LoadKeepsCore
  DEF EngineNext, Engine_Start, Engine_Shutdown, Engine_PlaceCall, Engine_Hangup,
      Engine_StopService, vars, loopVars, svcVars, androidVars
<1>2. {receiver', bound', ready', amBound'} \subseteq BOOLEAN
  BY DEF EngineNext, Engine_Start, Engine_Shutdown, Engine_PlaceCall, Engine_Hangup,
         Engine_StopService, androidVars, engineVars, amVars, KnowsInv, Typed
<1>. QED BY <1>1, <1>2, MainKnows

\* A thread that begins or is gone: the core is not up.
LEMMA RestKnows ==
    ASSUME KnowsInv, UNCHANGED <<loopVars, phase, inbox, overlapped, receiver, bound, ready,
                                 amBound>>,
           thread \in {"none", "dead"}, thread' \in {"none", "begin"},
           callUp' \in BOOLEAN, tone' \in BOOLEAN,
           thread' = "begin" => ~callUp' /\ ~tone'
    PROVE  KnowsInv'
<1>1. CoreInv'
  BY DEF KnowsInv, CoreInv, Live, loopVars
<1>2. Typed'
  BY DEF KnowsInv, Typed
<1>. QED BY <1>1, <1>2 DEF KnowsInv, Together, Fresh, OneLive, WillAgree

\* The service's callbacks.
LEMMA ServiceKnows == ServiceInv /\ KnowsInv /\ ServiceNext => KnowsInv'
<1> SUFFICES ASSUME ServiceInv, KnowsInv, ServiceNext PROVE KnowsInv'
  OBVIOUS
<1>1. CASE Service_OnCreate
  <2>1. /\ UNCHANGED <<loopVars, phase, inbox, overlapped, receiver, bound, ready, amBound>>
        /\ thread' = "begin" /\ tone' = FALSE /\ callUp' = FALSE
    BY <1>1 DEF Service_OnCreate, Deliver, vars, loopVars, engineVars
  <2>2. amQueue \in Seq(Callback) /\ amQueue # <<>> /\ Head(amQueue) = "create"
    BY <1>1 DEF Service_OnCreate, Deliver, ServiceInv, AndroidShape
  <2>3. 1 \in 1..Len(amQueue) /\ amQueue[1] = "create"
    BY <2>2, TailAny
  <2>4. thread = "none"
    BY <2>3 DEF ServiceInv, CallbacksInOrder, NoServiceIsQuiet
  <2>. QED BY <2>1, <2>4, RestKnows
<1>2. CASE Service_Joined
  <2>1. /\ UNCHANGED <<loopVars, phase, inbox, overlapped, receiver, bound, ready, amBound,
                       tone, callUp>>
        /\ thread = "dead" /\ thread' = "none"
    BY <1>2 DEF Service_Joined, vars, loopVars, engineVars, amVars
  <2>. QED BY <2>1, RestKnows DEF KnowsInv, Typed
<1>3. CASE Service_OnStart \/ Service_OnStop \/ Service_OnConnected \/ Service_OnDestroy
  <2>1. /\ UNCHANGED <<thread, callUp, overlapped>> /\ tone' \in {tone, FALSE}
        /\ UNCHANGED <<loopVars, inbox>> /\ phase' = phase
    BY <1>3, LoadKeepsCore
    DEF Service_OnStart, Service_OnStop, Service_OnConnected, Service_OnDestroy, vars,
        loopVars, svcVars
  <2>2. {receiver', bound', ready', amBound'} \subseteq BOOLEAN
    BY <1>3 DEF Service_OnStart, Service_OnStop, Service_OnConnected, Service_OnDestroy,
                Deliver, engineVars, KnowsInv, Typed
  <2>. QED BY <2>1, <2>2, MainKnows
<1>. QED BY <1>1, <1>2, <1>3 DEF ServiceNext

\* handleMessage brings a flag to where its message says, and leaves the one it
\* does not mention.
LEMMA HandlerFollows ==
    ASSUME KnowsInv, HandlerNext
    PROVE  /\ inbox # <<>> /\ inbox' = Tail(inbox)
           /\ callUp' = IF Head(inbox).ev \in CallEnds THEN Head(inbox).ev = "ESTABLISHED"
                        ELSE callUp
           /\ tone' = IF Head(inbox).ev \in ToneEnds THEN Head(inbox).ev = "RINGING"
                      ELSE tone
           /\ callUp' \in BOOLEAN /\ tone' \in BOOLEAN
<1>1. callUp \in BOOLEAN /\ tone \in BOOLEAN
  BY DEF KnowsInv, Typed
<1>2. CASE Handle_Started
  BY <1>1, <1>2 DEF Handle_Started, TakeMessage, Take, svcVars, CallEnds, ToneEnds
<1>3. CASE Handle_Finished
  BY <1>1, <1>3 DEF Handle_Finished, TakeMessage, Take, svcVars, CallEnds, ToneEnds
<1>4. CASE Handle_RegisterFail
  BY <1>1, <1>4 DEF Handle_RegisterFail, TakeMessage, Take, svcVars, CallEnds, ToneEnds
<1>5. CASE Handle_Ringing
  BY <1>1, <1>5 DEF Handle_Ringing, TakeMessage, Take, CallEnds, ToneEnds
<1>6. CASE Handle_Established
  BY <1>1, <1>6 DEF Handle_Established, TakeMessage, Take, CallEnds, ToneEnds
<1>7. CASE Handle_Closed
  BY <1>1, <1>7 DEF Handle_Closed, TakeMessage, Take, CallEnds, ToneEnds
<1>. QED BY <1>2, <1>3, <1>4, <1>5, <1>6, <1>7 DEF HandlerNext

\* handleMessage.
LEMMA HandlerKnows == ServiceInv /\ KnowsInv /\ HandlerNext => KnowsInv'
<1> SUFFICES ASSUME ServiceInv, KnowsInv, HandlerNext PROVE KnowsInv'
  OBVIOUS
<1>1. /\ UNCHANGED <<phase, thread, loopVars, bound, overlapped, amBound, receiver>>
      /\ ready' \in BOOLEAN
  BY DEF HandlerNext, Handle_Started, Handle_Finished, Handle_RegisterFail, Handle_Ringing,
         Handle_Established, Handle_Closed, TakeMessage, Take, engineVars, amVars,
         KnowsInv, Typed
<1>2. inbox \in Seq(Message \cup ThreadMessage) /\ tone \in BOOLEAN /\ callUp \in BOOLEAN
  BY DEF KnowsInv, Typed
<1>3. UpAfter' <=> UpAfter
  <2>1. "ESTABLISHED" \in CallEnds
    BY DEF CallEnds
  <2>2. After(callUp', "ESTABLISHED", CallEnds, Tail(inbox)) <=>
           After(callUp, "ESTABLISHED", CallEnds, inbox)
    BY <1>2, <2>1, HandlerFollows, AfterTake
  <2>. QED BY <2>2, HandlerFollows DEF UpAfter, CallEnds
<1>4. ToneAfter' <=> ToneAfter
  <2>1. "RINGING" \in ToneEnds
    BY DEF ToneEnds
  <2>2. After(tone', "RINGING", ToneEnds, Tail(inbox)) <=>
           After(tone, "RINGING", ToneEnds, inbox)
    BY <1>2, <2>1, HandlerFollows, AfterTake
  <2>. QED BY <2>2, HandlerFollows DEF ToneAfter, ToneEnds
<1>5. WillAgree'
  BY <1>1, <1>3, <1>4 DEF KnowsInv, WillAgree, Agree, InState, loopVars
<1>6. CoreInv' /\ Together' /\ OneLive'
  BY <1>1 DEF KnowsInv, CoreInv, Together, OneLive, Live, loopVars
<1>7. inbox' \in Seq(Message \cup ThreadMessage)
  BY <1>2, HandlerFollows
<1>8. Typed'
  BY <1>1, <1>7, HandlerFollows DEF KnowsInv, Typed
<1>9. Fresh'
  BY <1>1, HandlerFollows DEF ServiceInv, QuietStart, Fresh
<1>. QED BY <1>5, <1>6, <1>8, <1>9 DEF KnowsInv

\* Every step, and none at all.
LEMMA KnowsKept == ServiceInv /\ KnowsInv /\ [ANext]_allVars => KnowsInv'
<1> SUFFICES ASSUME ServiceInv, KnowsInv, [ANext]_allVars PROVE KnowsInv'
  OBVIOUS
<1>1. CASE Main_FinishPush
  <2>1. /\ UNCHANGED <<thread, callUp, overlapped, tone, receiver, bound, ready, amBound>>
        /\ UNCHANGED <<loopVars, inbox>> /\ phase' \in {phase, "crashed"}
    BY <1>1 DEF Main_FinishPush, FinishPush, Command_Null, Command_Write, Command_Dangling,
                androidVars, svcVars, engineVars, amVars
  <2>. QED BY <2>1, MainKnows DEF KnowsInv, Typed
<1>2. CASE UNCHANGED allVars
  <2>1. /\ UNCHANGED <<thread, callUp, overlapped, tone, receiver, bound, ready, amBound>>
        /\ UNCHANGED <<loopVars, inbox, phase>>
    BY <1>2 DEF allVars, vars, androidVars, svcVars, engineVars, amVars, loopVars
  <2>. QED BY <2>1, MainKnows DEF KnowsInv, Typed
<1>. QED BY <1>1, <1>2, ThreadKnows, EngineKnows, ServiceKnows, HandlerKnows DEF ANext

\* So it is in every state.
LEMMA KnowsAlways == ASpec => []KnowsInv
<1>. QED BY KnowsInit, KnowsKept, ServiceAlways, PTL DEF ASpec

(* Every variable of the service, the engine and the activity manager keeps   *)
(* its type, and the Handler is sent nothing but messages of the core and of  *)
(* SipThread.                                                                *)
THEOREM ServiceTyped == ASpec => []ATypeOK
<1>1. ServiceInv /\ KnowsInv => ATypeOK
  BY DEF ServiceInv, AndroidShape, KnowsInv, Typed, ATypeOK
<1>. QED BY <1>1, ServiceAlways, KnowsAlways, PTL

(* Once every message is handled the service's idea of the call is the        *)
(* core's: isCallEstablished is set exactly while a call is up, and the tone  *)
(* plays only while one rings, unless two calls have overlapped.              *)
THEOREM ServiceKnowsCall == ASpec => []ServiceAgrees
<1>1. ServiceInv /\ KnowsInv => ServiceAgrees
  <2> SUFFICES ASSUME KnowsInv, Settled
               PROVE  /\ callUp <=> \E c \in Call : state[c] = "established"
                      /\ tone => \E c \in Call : state[c] = "ringing"
    BY DEF ServiceAgrees
  <2>1. thread = "main" /\ phase \in {"loop", "cancelled"} /\ ~overlapped /\ inbox = <<>>
    BY DEF Settled, Dispatching, KnowsInv, Together
  <2>2. Agree
    BY <2>1 DEF KnowsInv, WillAgree
  <2>3. (UpAfter <=> callUp) /\ (ToneAfter <=> tone)
    BY <2>1, AfterNothing DEF UpAfter, ToneAfter
  <2>. QED BY <2>2, <2>3 DEF Agree, InState
<1>. QED BY <1>1, ServiceAlways, KnowsAlways, PTL

-----------------------------------------------------------------------------
(* The core under the service.  Its steps are those of Telephony, but for the *)
(* two messages that SipThread adds.                                         *)
coreVars == <<phase, session, mq, pipe, pushVars, loopVars>>

\* Each step of the application is one of the core, or leaves the core alone.
LEMMA CoreSteps == [ANext]_allVars => [Next]_vars \/ UNCHANGED coreVars
<1> SUFFICES ASSUME [ANext]_allVars PROVE [Next]_vars \/ UNCHANGED coreVars
  OBVIOUS
<1>1. CASE ThreadNext
  BY <1>1 DEF ThreadNext, Thread_EnterInit, Thread_InitReturns, Thread_Report,
     Thread_MainLoop, Thread_Finish, Next, Lifecycle, coreVars
<1>2. CASE EngineNext
  <2>1. ASSUME NEW cmd \in Command, Command_Load(cmd) PROVE Next
    BY <2>1 DEF Next
  <2>. QED BY <1>2, <2>1 DEF EngineNext, Engine_Start, Engine_Shutdown, Engine_PlaceCall,
       Engine_Hangup, Engine_StopService, Command
<1>3. CASE ServiceNext
  <2>1. ASSUME NEW cmd \in Command, Command_Load(cmd) PROVE Next
    BY <2>1 DEF Next
  <2>. QED BY <1>3, <2>1 DEF ServiceNext, Service_OnCreate, Service_OnStart, Service_OnStop,
       Service_OnConnected, Service_OnDestroy, Service_Joined, Command
<1>4. CASE HandlerNext
  BY <1>4 DEF HandlerNext, Handle_Started, Handle_Finished, Handle_RegisterFail,
     Handle_Ringing, Handle_Established, Handle_Closed, TakeMessage, Next
<1>5. CASE Main_FinishPush
  BY <1>5 DEF Main_FinishPush, Next
<1>6. CASE UNCHANGED allVars
  BY <1>6 DEF allVars
<1>. QED BY <1>1, <1>2, <1>3, <1>4, <1>5, <1>6 DEF ANext

CoreSafe == CoreTyped /\ Safety /\ QueueKnown

\* Either keeps the core's types, its safety and its queue.
LEMMA CoreKept == CoreSafe /\ [ANext]_allVars => CoreSafe'
<1>1. CoreSafe /\ [Next]_vars => CoreSafe'
  BY CoreTypeStep, SafetyStep, QueueStep DEF CoreSafe
<1>2. CoreSafe /\ UNCHANGED coreVars => CoreSafe'
  BY DEF CoreSafe, CoreTyped, Safety, QueueKnown, GCallIsLive, OneCallPerUa, OneIncoming,
         NothingLeft, Live, coreVars, pushVars, loopVars
<1>. QED BY <1>1, <1>2, CoreSteps

\* So they hold in every state.
LEMMA CoreAlways == ASpec => []CoreSafe
<1>1. AInit => CoreSafe
  BY TypeInit, TypeParts, SafetyInit DEF AInit, CoreSafe, Init, QueueKnown
<1>. QED BY <1>1, CoreKept, PTL DEF ASpec

(* Under the service, too, g_call never dangles, no User-Agent has two calls, *)
(* at most one call waits, and every session starts with nothing left over,   *)
(* however starts, stops and their callbacks interleave.                      *)
THEOREM CoreSafeInService ==
    ASpec => [](GCallIsLive /\ OneCallPerUa /\ OneIncoming /\ SessionIsClean)
<1>1. CoreSafe => GCallIsLive /\ OneCallPerUa /\ OneIncoming /\ SessionIsClean
  BY DEF CoreSafe, Safety, NothingLeft, QueueKnown, SessionIsClean
<1>. QED BY <1>1, CoreAlways, PTL

-----------------------------------------------------------------------------
(* CallReports, for the service: the messages about calls are those of the    *)
(* Handler's queue between THREAD_STARTED and THREAD_FINISHED.                *)
FrontOf(s) == IF Len(s) > 0 /\ s[1].ev = "THREAD_STARTED" THEN 1 ELSE 0
BackOf(s) == IF Len(s) > 0 /\ s[Len(s)].ev = "THREAD_FINISHED" THEN 1 ELSE 0
CallsIn(s) == [i \in 1..(Len(s) - FrontOf(s) - BackOf(s)) |-> Brief(s[i + FrontOf(s)])]

ServiceReports == INSTANCE CallReports WITH stage <- Stages, log <- CallsIn(inbox)

\* What SessionBrackets says of the queue.
Bracketed(s) ==
    \A i \in 1..Len(s) : /\ s[i].ev = "THREAD_STARTED" => i = 1
                         /\ s[i].ev = "THREAD_FINISHED" => i = Len(s)

\* The messages about calls form a sequence, shifted by the first bracket.
LEMMA CallsInSeq ==
    ASSUME NEW S, NEW s \in Seq(S), Bracketed(s), NEW T, \A x \in S : Brief(x) \in T
    PROVE  /\ CallsIn(s) \in Seq(T)
           /\ Len(CallsIn(s)) = Len(s) - FrontOf(s) - BackOf(s)
           /\ Len(CallsIn(s)) \in Nat
           /\ FrontOf(s) \in {0, 1} /\ BackOf(s) \in {0, 1}
           /\ \A i \in 1..Len(CallsIn(s)) : CallsIn(s)[i] = Brief(s[i + FrontOf(s)])
<1> DEFINE n == Len(s) - FrontOf(s) - BackOf(s)
<1>1. FrontOf(s) \in {0, 1} /\ BackOf(s) \in {0, 1} /\ Len(s) \in Nat
  BY DEF FrontOf, BackOf
<1>2. FrontOf(s) + BackOf(s) <= Len(s)
  <2>1. CASE Len(s) = 0
    BY <2>1 DEF FrontOf, BackOf
  <2>2. CASE Len(s) = 1
    BY <2>2 DEF FrontOf, BackOf
  <2>3. CASE Len(s) >= 2
    BY <1>1, <2>3
  <2>4. Len(s) = 0 \/ Len(s) = 1 \/ Len(s) >= 2
    BY ONLY <1>1
  <2>. QED BY <2>1, <2>2, <2>3, <2>4
<1>3. n \in Nat
  BY <1>1, <1>2
<1>4. ASSUME NEW i \in 1..n PROVE s[i + FrontOf(s)] \in S
  BY <1>1, <1>2
<1>. QED BY <1>1, <1>2, <1>3, <1>4 DEF CallsIn

(* A message of the core, while the thread may still send.                    *)
LEMMA CallsAppend ==
    ASSUME NEW S, NEW s \in Seq(S), Bracketed(s), BackOf(s) = 0,
           NEW m, m.ev \in Event
    PROVE  CallsIn(Append(s, m)) = Append(CallsIn(s), Brief(m))
<1> DEFINE T == {Brief(x) : x \in S \cup {m}}
<1> DEFINE new == Append(s, m)
<1>1. /\ new \in Seq(S \cup {m}) /\ s \in Seq(S \cup {m})
      /\ Len(new) = Len(s) + 1 /\ Len(s) \in Nat
      /\ \A i \in 1..Len(s) : new[i] = s[i]
      /\ new[Len(s) + 1] = m
  BY AppendAny
<1>2. m.ev # "THREAD_STARTED" /\ m.ev # "THREAD_FINISHED"
  BY DEF Event
<1> HIDE DEF new
<1>3. Bracketed(new)
  <2>1. \A i \in 1..Len(s) : s[i].ev # "THREAD_FINISHED"
    BY <1>1 DEF Bracketed, BackOf
  <2>2. \A i \in 1..Len(new) : i \in 1..Len(s) \/ i = Len(s) + 1
    BY <1>1
  <2>. QED BY <1>1, <1>2, <2>1, <2>2 DEF Bracketed
<1>4. FrontOf(new) = FrontOf(s) /\ BackOf(new) = 0
  <2>1. CASE Len(s) = 0
    BY <1>1, <1>2, <2>1 DEF FrontOf, BackOf
  <2>2. CASE Len(s) > 0
    BY <1>1, <1>2, <2>2 DEF FrontOf, BackOf
  <2>. QED BY <1>1, <2>1, <2>2
<1>5. Brief(m) \in T /\ \A x \in S \cup {m} : Brief(x) \in T
  OBVIOUS
<1> HIDE DEF T
<1>6. /\ CallsIn(s) \in Seq(T)
      /\ Len(CallsIn(s)) = Len(s) - FrontOf(s) - BackOf(s)
      /\ FrontOf(s) \in {0, 1} /\ Len(CallsIn(s)) \in Nat
      /\ \A i \in 1..Len(CallsIn(s)) : CallsIn(s)[i] = Brief(s[i + FrontOf(s)])
  BY <1>1, <1>5, CallsInSeq
<1>7. /\ CallsIn(new) \in Seq(T)
       /\ Len(CallsIn(new)) = Len(new) - FrontOf(new) - BackOf(new)
       /\ \A i \in 1..Len(CallsIn(new)) : CallsIn(new)[i] = Brief(new[i + FrontOf(new)])
  BY <1>1, <1>3, <1>5, CallsInSeq
<1>8. /\ CallsIn(s) \in Seq(T) /\ CallsIn(new) \in Seq(T)
      /\ Len(CallsIn(s)) = Len(s) - FrontOf(s)
      /\ Len(CallsIn(new)) = Len(CallsIn(s)) + 1
      /\ FrontOf(s) \in {0, 1} /\ Len(CallsIn(s)) \in Nat
      /\ \A i \in 1..Len(CallsIn(s)) : CallsIn(s)[i] = Brief(s[i + FrontOf(s)])
      /\ \A i \in 1..Len(CallsIn(new)) : CallsIn(new)[i] = Brief(new[i + FrontOf(s)])
  BY <1>1, <1>4, <1>6, <1>7
<1>9. /\ Append(CallsIn(s), Brief(m)) \in Seq(T)
      /\ Len(Append(CallsIn(s), Brief(m))) = Len(CallsIn(s)) + 1
      /\ \A i \in 1..Len(CallsIn(s)) : Append(CallsIn(s), Brief(m))[i] = CallsIn(s)[i]
      /\ Append(CallsIn(s), Brief(m))[Len(CallsIn(s)) + 1] = Brief(m)
  BY <1>8, <1>5, AppendProperties
<1>10. ASSUME NEW i \in 1..Len(CallsIn(new))
      PROVE  CallsIn(new)[i] = Append(CallsIn(s), Brief(m))[i]
  <2>1. CASE i \in 1..Len(CallsIn(s))
    <3>1. i + FrontOf(s) \in 1..Len(s)
      BY <1>1, <1>8, <2>1
    <3>. QED BY <1>1, <1>8, <1>9, <2>1, <3>1
  <2>2. CASE i = Len(CallsIn(s)) + 1
    <3>1. i + FrontOf(s) = Len(s) + 1
      BY <1>1, <1>8, <2>2
    <3>. QED BY <1>1, <1>8, <1>9, <2>2, <3>1
  <2>3. i \in 1..Len(CallsIn(s)) \/ i = Len(CallsIn(s)) + 1
    BY <1>8
  <2>. QED BY <2>1, <2>2, <2>3
<1>. QED BY <1>8, <1>9, <1>10, SeqEqual DEF new

(* THREAD_STARTED and THREAD_FINISHED are not among them.                     *)
LEMMA CallsBracketed ==
    ASSUME NEW S, NEW s \in Seq(S), Bracketed(s), BackOf(s) = 0, NEW m,
           \/ m.ev = "THREAD_STARTED" /\ s = <<>>
           \/ m.ev = "THREAD_FINISHED"
    PROVE  CallsIn(Append(s, m)) = CallsIn(s)
<1> DEFINE new == Append(s, m)
<1>1. /\ Len(new) = Len(s) + 1 /\ Len(s) \in Nat
      /\ \A i \in 1..Len(s) : new[i] = s[i]
      /\ new[Len(s) + 1] = m
  BY AppendAny
<1> HIDE DEF new
<1>2. CASE m.ev = "THREAD_STARTED" /\ s = <<>>
  <2>1. Len(s) = 0 /\ FrontOf(new) = 1 /\ BackOf(new) = 0 /\ FrontOf(s) = 0
    BY <1>1, <1>2 DEF FrontOf, BackOf
  <2>2. Len(new) - FrontOf(new) - BackOf(new) = 0 /\ Len(s) - FrontOf(s) - BackOf(s) = 0
    BY <1>1, <2>1
  <2>3. 1..0 = {}
    OBVIOUS
  <2>. QED BY <2>2, <2>3 DEF CallsIn, new
<1>3. CASE m.ev = "THREAD_FINISHED"
  <2>1. FrontOf(new) = FrontOf(s) /\ BackOf(new) = 1 /\ FrontOf(s) \in {0, 1}
    <3>1. CASE Len(s) = 0
      BY <1>1, <1>3, <3>1 DEF FrontOf, BackOf
    <3>2. CASE Len(s) > 0
      BY <1>1, <1>3, <3>2 DEF FrontOf, BackOf
    <3>. QED BY <1>1, <3>1, <3>2
  <2>2. Len(new) - FrontOf(new) - BackOf(new) = Len(s) - FrontOf(s) - BackOf(s)
    BY <1>1, <2>1
  <2>3. ASSUME NEW i \in 1..(Len(s) - FrontOf(s) - BackOf(s))
        PROVE  new[i + FrontOf(new)] = s[i + FrontOf(s)]
    <3>1. i + FrontOf(s) \in 1..Len(s)
      BY <1>1, <2>1
    <3>. QED BY <1>1, <2>1, <3>1
  <2>. QED BY <2>2, <2>3 DEF CallsIn, new
<1>. QED BY <1>2, <1>3

(* A message is handled: one about a call is the first of them, the other two *)
(* are none of them.                                                         *)
LEMMA CallsTake ==
    ASSUME NEW S, NEW s \in Seq(S), Bracketed(s), s # <<>>
    PROVE  /\ Head(s).ev \in Event =>
                 CallsIn(s) # <<>> /\ CallsIn(Tail(s)) = Tail(CallsIn(s))
           /\ Head(s).ev \in {"THREAD_STARTED", "THREAD_FINISHED"} =>
                 CallsIn(Tail(s)) = CallsIn(s)
<1> DEFINE T == {Brief(x) : x \in S}
<1> DEFINE rest == Tail(s)
<1>1. /\ rest \in Seq(S) /\ Len(rest) = Len(s) - 1 /\ Len(s) \in Nat \ {0}
      /\ Head(s) = s[1] /\ \A i \in 1..Len(rest) : rest[i] = s[i + 1]
  BY TailAny
<1> HIDE DEF rest
<1>2. \A i \in 1..Len(rest) : i + 1 \in 1..Len(s) /\ i + 1 # 1
  BY <1>1
<1>3. Bracketed(rest)
  BY <1>1, <1>2 DEF Bracketed
<1>4. FrontOf(rest) = 0
  <2>1. Len(rest) > 0 => 1 \in 1..Len(rest)
    BY <1>1
  <2>. QED BY <1>1, <1>2, <2>1 DEF Bracketed, FrontOf
<1>5. Len(rest) > 0 => BackOf(rest) = BackOf(s)
  BY <1>1 DEF BackOf
<1>6. \A x \in S : Brief(x) \in T
  OBVIOUS
<1> HIDE DEF T
<1>7. /\ CallsIn(s) \in Seq(T) /\ Len(CallsIn(s)) \in Nat
       /\ Len(CallsIn(s)) = Len(s) - FrontOf(s) - BackOf(s)
       /\ BackOf(s) \in {0, 1}
       /\ \A i \in 1..Len(CallsIn(s)) : CallsIn(s)[i] = Brief(s[i + FrontOf(s)])
  BY <1>6, CallsInSeq
<1>8. /\ CallsIn(rest) \in Seq(T) /\ Len(CallsIn(rest)) \in Nat
       /\ Len(CallsIn(rest)) = Len(rest) - FrontOf(rest) - BackOf(rest)
       /\ BackOf(rest) \in {0, 1}
       /\ \A i \in 1..Len(CallsIn(rest)) : CallsIn(rest)[i] = Brief(rest[i + FrontOf(rest)])
  BY <1>1, <1>3, <1>6, CallsInSeq
<1>9. /\ CallsIn(s) \in Seq(T) /\ CallsIn(rest) \in Seq(T)
      /\ Len(CallsIn(s)) = Len(s) - FrontOf(s) - BackOf(s)
      /\ Len(CallsIn(rest)) = Len(rest) - BackOf(rest)
      /\ BackOf(s) \in {0, 1} /\ BackOf(rest) \in {0, 1}
      /\ Len(CallsIn(s)) \in Nat /\ Len(CallsIn(rest)) \in Nat
      /\ \A i \in 1..Len(CallsIn(s)) : CallsIn(s)[i] = Brief(s[i + FrontOf(s)])
      /\ \A i \in 1..Len(CallsIn(rest)) : CallsIn(rest)[i] = Brief(rest[i + 0])
  BY <1>1, <1>4, <1>7, <1>8
<1>10. Len(rest) = 0 => BackOf(rest) = 0 /\ Len(s) = 1
  <2>1. Len(rest) = 0 => Len(s) = 1
    BY <1>1
  <2>2. Len(rest) = 0 => BackOf(rest) = 0
    BY DEF BackOf
  <2>. QED BY <2>1, <2>2
<1>11. ASSUME Head(s).ev \in Event
      PROVE  CallsIn(s) # <<>> /\ CallsIn(rest) = Tail(CallsIn(s))
  <2>1. s[1].ev # "THREAD_STARTED" /\ s[1].ev # "THREAD_FINISHED"
    BY <1>1, <1>11 DEF Event
  <2>2. FrontOf(s) = 0 /\ (Len(rest) = 0 => BackOf(s) = 0)
    BY <1>10, <2>1 DEF FrontOf, BackOf
  <2>3. BackOf(s) = BackOf(rest)
    BY <1>1, <1>5, <1>10, <2>2
  <2>4. Len(CallsIn(rest)) = Len(CallsIn(s)) - 1
    BY <1>1, <1>9, <2>2, <2>3
  <2>5. CallsIn(s) # <<>>
    BY <1>9, <2>4
  <2>6. /\ Tail(CallsIn(s)) \in Seq(T) /\ Len(Tail(CallsIn(s))) = Len(CallsIn(s)) - 1
        /\ \A i \in 1..Len(Tail(CallsIn(s))) : Tail(CallsIn(s))[i] = CallsIn(s)[i + 1]
    BY <1>9, <2>5, HeadTailProperties
  <2>7. ASSUME NEW i \in 1..Len(CallsIn(rest))
        PROVE  CallsIn(rest)[i] = Tail(CallsIn(s))[i]
    <3>1. i \in 1..Len(rest) /\ i + 1 \in 1..Len(CallsIn(s)) /\ i + 0 = i
      BY <1>1, <1>9, <2>4
    <3>2. CallsIn(rest)[i] = Brief(s[i + 1])
      BY <1>1, <1>9, <3>1
    <3>3. CallsIn(s)[i + 1] = Brief(s[i + 1])
      <4>1. (i + 1) + FrontOf(s) = i + 1
        BY <2>2
      <4>. QED BY <1>9, <3>1, <4>1
    <3>. QED BY <2>4, <2>6, <3>2, <3>3
  <2>. QED BY <1>9, <2>4, <2>5, <2>6, <2>7, SeqEqual
<1>12. ASSUME Head(s).ev \in {"THREAD_STARTED", "THREAD_FINISHED"}
      PROVE  CallsIn(rest) = CallsIn(s)
  <2>1. CASE Head(s).ev = "THREAD_STARTED"
    <3>1. FrontOf(s) = 1 /\ (Len(rest) = 0 => BackOf(s) = 0)
      BY <1>1, <1>10, <2>1 DEF FrontOf, BackOf
    <3>2. BackOf(s) = BackOf(rest)
      BY <1>1, <1>5, <1>10, <3>1
    <3>3. Len(CallsIn(rest)) = Len(CallsIn(s))
      BY <1>1, <1>9, <3>1, <3>2
    <3>4. ASSUME NEW i \in 1..Len(CallsIn(rest))
          PROVE  CallsIn(rest)[i] = CallsIn(s)[i]
      <4>1. i \in 1..Len(rest) /\ i + 0 = i
        BY <1>1, <1>9
      <4>. QED BY <1>1, <1>9, <3>1, <3>3, <4>1
    <3>. QED BY <1>9, <3>3, <3>4, SeqEqual
  <2>2. CASE Head(s).ev = "THREAD_FINISHED"
    <3>1. Len(s) = 1 /\ FrontOf(s) = 0 /\ BackOf(s) = 1
      <4>1. 1 \in 1..Len(s)
        BY <1>1
      <4>. QED BY <1>1, <2>2, <4>1 DEF Bracketed, FrontOf, BackOf
    <3>2. Len(CallsIn(s)) = 0 /\ Len(CallsIn(rest)) = 0
      BY <1>1, <1>9, <1>10, <3>1
    <3>. QED BY <1>9, <3>2, SeqEqual
  <2>. QED BY <1>12, <2>1, <2>2
<1>. QED BY <1>11, <1>12 DEF rest

\* The steps of CallReports, as this queue shows them, and none at all.
ServiceStutters == UNCHANGED <<Stages, CallsIn(inbox)>>
ServiceReport == ServiceReports!Next \/ ServiceStutters

(* A callback of re_main hands its message over between the two of SipThread. *)
LEMMA CallbackSeen ==
    ASSUME NEW S, inbox \in Seq(S), Bracketed(inbox), BackOf(inbox) = 0, CallbackStep
    PROVE  ServiceReport
<1>1. ASSUME NEW ev, NEW c, Tells(ev, c)
      PROVE  CallsIn(inbox)' = Append(CallsIn(inbox), [ev |-> ev, of |-> c])
  <2>1. PICK m \in Message : m.ev = ev /\ m.of = c /\ inbox' = Append(inbox, m)
    BY <1>1 DEF Tells
  <2>2. m.ev \in Event
    BY DEF Message
  <2>3. CallsIn(Append(inbox, m)) = Append(CallsIn(inbox), Brief(m))
    BY <2>2, CallsAppend
  <2>. QED BY <2>1, <2>3 DEF Brief
<1>2. inbox' = inbox => CallsIn(inbox)' = CallsIn(inbox)
  OBVIOUS
<1>. USE DEF Goes, ServiceReports!Move, ServiceReports!Send, Stages
<1>3. ASSUME NEW c \in Call, CallStep(c) PROVE ServiceReports!Next
  <2>1. CASE Stages[c] = "unknown" /\ Goes(c, "calling") /\ inbox' = inbox
    <3>1. ServiceReports!Dial(c)
      BY <1>2, <2>1 DEF ServiceReports!Dial
    <3>. QED BY <3>1 DEF ServiceReports!Next
  <2>2. CASE Stages[c] = "unknown" /\ Goes(c, "waiting") /\ inbox' = inbox
    <3>1. ServiceReports!Arrive(c)
      BY <1>2, <2>2 DEF ServiceReports!Arrive
    <3>. QED BY <3>1 DEF ServiceReports!Next
  <2>3. CASE Stages[c] = "unknown" /\ Goes(c, "gone") /\ Tells("CLOSED", c)
    <3>1. ServiceReports!Refuse(c)
      BY <1>1, <2>3 DEF ServiceReports!Refuse
    <3>. QED BY <3>1 DEF ServiceReports!Next
  <2>4. CASE Stages[c] = "calling" /\ Stages' = Stages /\ Tells("RINGING", c)
    <3>1. ServiceReports!Ring(c)
      BY <1>1, <2>4 DEF ServiceReports!Ring
    <3>. QED BY <3>1 DEF ServiceReports!Next
  <2>5. CASE Stages[c] = "calling" /\ Goes(c, "talking") /\ Tells("ESTABLISHED", c)
    <3>1. ServiceReports!Answer(c)
      BY <1>1, <2>5 DEF ServiceReports!Answer
    <3>. QED BY <3>1 DEF ServiceReports!Next
  <2>6. CASE c \in Existing /\ Goes(c, "gone") /\ Tells("CLOSED", c)
    <3>1. ServiceReports!End(c)
      BY <1>1, <2>6 DEF Existing, ServiceReports!End, ServiceReports!Exists
    <3>. QED BY <3>1 DEF ServiceReports!Next
  <2>. QED BY <1>3, <2>1, <2>2, <2>3, <2>4, <2>5, <2>6 DEF CallStep
<1>4. CASE Stages' = Stages /\ Tells("REGISTER_FAIL", NoCall)
  <2>1. ServiceReports!RegistrationLost
    BY <1>1, <1>4 DEF ServiceReports!RegistrationLost
  <2>. QED BY <2>1 DEF ServiceReport, ServiceReports!Next
<1>5. CASE Stages' = Stages /\ inbox' = inbox
  BY <1>2, <1>5 DEF ServiceReport, ServiceStutters
<1>. QED BY <1>3, <1>4, <1>5 DEF CallbackStep, ServiceReport

\* A step that touches neither the calls nor the queue.
LEMMA NothingSeen == ASSUME UNCHANGED <<state, inbox>> PROVE ServiceReport
  BY DEF ServiceReport, ServiceStutters, Stages, CallStage

\* What SipThread does.
LEMMA ThreadSeen ==
    ASSUME ServiceInv, CoreSafe, ThreadNext
    PROVE  ServiceReport
<1>1. PICK S : inbox \in Seq(S)
  BY DEF ServiceInv, AndroidShape
<1>2. Bracketed(inbox)
  BY DEF ServiceInv, SessionBrackets, Bracketed
<1>3. thread # "dead" => BackOf(inbox) = 0
  <2>1. Len(inbox) > 0 => Len(inbox) \in 1..Len(inbox)
    BY <1>1
  <2>. QED BY <2>1 DEF ServiceInv, SessionBrackets, BackOf
<1>4. CASE Thread_EnterInit \/ Thread_InitReturns
  BY <1>4, NothingSeen DEF Thread_EnterInit, Thread_InitReturns, EnterInit, InitDone,
     InitFails, loopVars
<1>5. ASSUME NEW m, inbox' = Append(inbox, m), UNCHANGED state, thread # "dead",
             (m.ev = "THREAD_STARTED" /\ inbox = <<>>) \/ m.ev = "THREAD_FINISHED"
      PROVE  ServiceReport
  <2>1. CallsIn(inbox') = CallsIn(inbox)
    BY <1>1, <1>2, <1>3, <1>5, CallsBracketed
  <2>. QED BY <1>5, <2>1 DEF ServiceReport, ServiceStutters, Stages, CallStage
<1>6. CASE Thread_Report
  <2>1. PICK code : inbox' = Append(inbox, ThreadNote("THREAD_STARTED", code))
    BY <1>6 DEF Thread_Report
  <2>2. /\ ThreadNote("THREAD_STARTED", code).ev = "THREAD_STARTED"
        /\ thread = "report" /\ inbox = <<>> /\ UNCHANGED state
    BY <1>6 DEF Thread_Report, ThreadNote, loopVars, ServiceInv, QuietStart
  <2>. QED BY <1>5, <2>1, <2>2
<1>7. CASE Thread_Finish
  <2>1. /\ ThreadNote("THREAD_FINISHED", 0).ev = "THREAD_FINISHED"
        /\ inbox' = Append(inbox, ThreadNote("THREAD_FINISHED", 0))
        /\ thread = "finish" /\ UNCHANGED state
    BY <1>7 DEF Thread_Finish, ThreadNote, loopVars
  <2>. QED BY <1>5, <2>1
<1>8. CASE Thread_MainLoop
  <2>1. thread = "main"
    BY <1>8 DEF Thread_MainLoop
  <2>2. CASE HandleCommand \/ Network
    <3>1. CallbackStep
      BY <2>2, CommandReports, NetworkReports DEF CoreSafe
    <3>. QED BY <1>1, <1>2, <1>3, <2>1, <3>1, CallbackSeen
  <2>3. CASE TelDone_StopAll
    <3>1. Reports!Shutdown /\ inbox' = inbox
      BY <2>3, StopAllShutsDown DEF CoreSafe, TelDone_StopAll
    <3>2. ServiceReports!Shutdown
      BY <3>1 DEF Reports!Shutdown, Reports!Exists, ServiceReports!Shutdown,
                  ServiceReports!Exists, Stages
    <3>. QED BY <3>2 DEF ServiceReport, ServiceReports!Next
  <2>4. CASE MainLoop \/ LoopFails \/ TelDone_FreeQueue \/ TelDone_ResetQueue
    BY <2>4, NothingSeen DEF MainLoop, LoopFails, TelDone_FreeQueue, TelDone_ResetQueue, loopVars
  <2>. QED BY <1>8, <2>2, <2>3, <2>4 DEF Thread_MainLoop
<1>. QED BY <1>4, <1>6, <1>7, <1>8 DEF ThreadNext

\* What handleMessage takes.
LEMMA HandlerSees ==
    ASSUME ServiceInv, HandlerNext
    PROVE  ServiceReport
<1>1. PICK S : inbox \in Seq(S)
  BY DEF ServiceInv, AndroidShape
<1>2. Bracketed(inbox)
  BY DEF ServiceInv, SessionBrackets, Bracketed
<1>3. PICK ev \in Event \cup {"THREAD_STARTED", "THREAD_FINISHED"} : TakeMessage(ev)
  BY DEF HandlerNext, Handle_Started, Handle_Finished, Handle_RegisterFail,
     Handle_Ringing, Handle_Established, Handle_Closed, Event
<1>4. inbox # <<>> /\ Head(inbox).ev = ev /\ inbox' = Tail(inbox) /\ UNCHANGED state
  BY <1>3 DEF TakeMessage, Take, loopVars
<1>5. Stages' = Stages
  BY <1>4 DEF Stages, CallStage
<1>6. CASE ev \in Event
  <2>1. CallsIn(inbox) # <<>> /\ CallsIn(inbox') = Tail(CallsIn(inbox))
    BY <1>1, <1>2, <1>4, <1>6, CallsTake
  <2>2. ServiceReports!Deliver
    BY <1>5, <2>1 DEF ServiceReports!Deliver, Stages
  <2>. QED BY <2>2 DEF ServiceReport, ServiceReports!Next
<1>7. CASE ev \in {"THREAD_STARTED", "THREAD_FINISHED"}
  <2>1. CallsIn(inbox') = CallsIn(inbox)
    BY <1>1, <1>2, <1>4, <1>7, CallsTake
  <2>. QED BY <1>5, <2>1 DEF ServiceReport, ServiceStutters
<1>. QED BY <1>6, <1>7

\* Every step of both threads and of the activity manager.
LEMMA StepSeen ==
    ASSUME ServiceInv, CoreSafe, [ANext]_allVars
    PROVE  ServiceReport
<1>1. CASE EngineNext
  BY <1>1, NothingSeen DEF EngineNext, Engine_Start, Engine_Shutdown, Engine_PlaceCall,
     Engine_Hangup, Engine_StopService, Command_Load, vars, loopVars
<1>2. CASE ServiceNext
  BY <1>2, NothingSeen DEF ServiceNext, Service_OnCreate, Service_OnStart, Service_OnStop,
     Service_OnConnected, Service_OnDestroy, Service_Joined, Command_Load, vars, loopVars
<1>3. CASE Main_FinishPush \/ UNCHANGED allVars
  BY <1>3, NothingSeen DEF Main_FinishPush, FinishPush, Command_Null, Command_Write,
     Command_Dangling, allVars, vars, loopVars
<1>. QED BY <1>1, <1>2, <1>3, ThreadSeen, HandlerSees DEF ANext

(* What the service's Handler is told of the calls is what CallReports        *)
(* promises, from one session to the next, with no message of an earlier one  *)
(* left behind.                                                              *)
THEOREM ServiceImplementsCallReports == ASpec => ServiceReports!Spec
<1>1. AInit => ServiceReports!Init
  <2> SUFFICES ASSUME AInit PROVE ServiceReports!Init
    OBVIOUS
  <2>1. inbox = <<>> /\ Len(<<>>) = 0 /\ 1..(0 - 0 - 0) = {}
    BY DEF AInit, Init
  <2>2. CallsIn(inbox) = <<>>
    BY <2>1 DEF CallsIn, FrontOf, BackOf
  <2>3. \A c \in Call : CallStage(c) = "unknown"
    BY DEF AInit, Init, CallStage
  <2>. QED BY <2>2, <2>3 DEF ServiceReports!Init, Stages
<1>2. ServiceInv /\ CoreSafe /\ [ANext]_allVars
        => [ServiceReports!Next]_<<Stages, CallsIn(inbox)>>
  BY StepSeen DEF ServiceReport, ServiceStutters
<1>. QED BY <1>1, <1>2, ServiceAlways, CoreAlways, PTL DEF ASpec, ServiceReports!Spec

=============================================================================
